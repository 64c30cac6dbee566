--------------------------- MODULE RecordingProofs ---------------------------
(***************************************************************************)
(* Proofs about Recording for any number of recorders.                      *)
(*                                                                          *)
(* What a recorder reports follows from its own state (RecordingRight): it   *)
(* has no frames but those of its own capture loop, however the recordings   *)
(* overlap.  That the document is closed at the end takes the recorder that   *)
(* still owes it (Owed).  That recordings are kept apart takes the queue:     *)
(* as long as no operation is dropped, the recorder that runs holds it, so    *)
(* that nobody else has a hand on the document (Apart).                       *)
(***************************************************************************)
EXTENDS Recording, TLAPS

Starting == {"find", "create", "reset", "resetting", "start"}
Filming == {"first", "preRoll", "operate", "postRoll", "drain", "encode"}
Saving == {"encoding", "download", "downloading", "remove", "join"}
Ending == {"abort", "aborting", "revoke", "closeDocument", "detach"}

Recordings ==
  [pc : {"idle", "done"} \cup Starting \cup Filming \cup Saving \cup Ending,
   loop : {"none", "capture", "submit", "drawing", "sleep", "ended", "failed"},
   attached : BOOLEAN, first : BOOLEAN, stop : BOOLEAN, ran : BOOLEAN,
   op : {"none", "ok", "error", "unknown"}, canvas : Recorders \cup {None},
   film : SUBSET Recorders, encoded : BOOLEAN, file : {"none", "partial", "complete"},
   saved : BOOLEAN, answer : {"none", "notStarted", "unknown", "failed", "recorded", "unrecorded"},
   dropped : BOOLEAN]

Pages == [open : BOOLEAN, active : Recorders \cup {None}, encoders : SUBSET Recorders,
          urls : SUBSET Recorders]

\* The type invariant.
Types ==
  /\ queue \in Recorders \cup {None}
  /\ rec \in [Recorders -> Recordings]
  /\ page \in Pages

\* A recorder by itself.
RecordingRight(r, s) ==
  /\ s.pc \in {"idle"} \cup Starting => s.loop = "none" /\ ~s.first
  /\ s.pc \in {"done"} \cup Ending => s.loop \in {"none", "ended", "failed"}
  /\ s.pc \in {"idle", "done"} => ~s.attached
  /\ s.pc \in (Filming \ {"first"}) \cup Saving => s.first
  /\ s.first /\ s.pc \notin {"first", "preRoll", "operate"} => s.op # "none"
  /\ s.ran => s.first
  /\ s.loop = "drawing" => s.canvas = r
  /\ s.film \subseteq {r}
  /\ s.pc \in Saving \ {"join"} \/ s.encoded \/ s.saved => s.film # {}
  /\ s.saved => s.pc \in {"join", "done"} \cup Ending
  /\ s.pc \notin {"downloading", "remove"} => s.file = IF s.saved THEN "complete" ELSE "none"
  /\ s.pc = "done" /\ s.answer = "recorded" => s.saved
  /\ s.pc = "done" /\ s.answer = "notStarted" => ~s.ran

\* A document that is open is owed to a recorder that is on its way to close it.
Owing == {"reset", "resetting", "start"} \cup Filming \cup Saving \cup (Ending \ {"detach"})

Owed ==
  /\ page.open \/ page = NoPage
  /\ page.open => \E r \in Recorders : rec[r].pc \in Owing

\* Nobody but the recorder that holds the queue is at work.
Apart ==
  (\A r \in Recorders : ~rec[r].dropped) => \A r \in Recorders :
    /\ rec[r].pc \notin {"idle", "done"} => queue = r
    /\ rec[r].pc \in {"reset", "resetting", "start"} => page.active = None /\ page.encoders = {}
    /\ rec[r].pc \in Filming => IsActive(r) /\ page.encoders \subseteq {r}

Inv ==
  /\ Types
  /\ \A r \in Recorders : RecordingRight(r, rec[r])
  /\ Owed
  /\ Apart

-----------------------------------------------------------------------------
(* Steps of one recorder *)

NoDrops == \A r \in Recorders : ~rec[r].dropped

Works(r) == rec[r].pc \notin {"idle", "done"}

\* What a recorder may do to the rest is a matter of where it was, where it is, and
\* what becomes of the queue and of the document.
LEMMA StepKeeps ==
  ASSUME Inv, NEW r \in Recorders, NEW s \in Recordings, RecordingRight(r, s),
         rec' = [rec EXCEPT ![r] = s],
         Works(r) \/ queue = None,
         rec[r].dropped => s.dropped,
         queue' \in Recorders \cup {None},
         ~s.dropped /\ s.pc \notin {"idle", "done"} => queue' = r \/ (queue' = queue /\ Works(r)),
         page' \in Pages, page'.open \/ page' = NoPage,
         page'.open => s.pc \in Owing \/ (page.open /\ rec[r].pc \notin Owing),
         NoDrops /\ s.pc \in {"reset", "resetting", "start"} => page'.active = None /\ page'.encoders = {},
         NoDrops /\ s.pc \in Filming => page'.open /\ page'.active = r /\ page'.encoders \subseteq {r}
  PROVE  Inv'
<1>1. /\ rec' \in [Recorders -> Recordings] /\ rec'[r] = s
      /\ \A q \in Recorders : q # r => rec'[q] = rec[q]
  BY DEF Inv, Types
<1>2. Types'
  BY <1>1 DEF Types
<1>3. \A q \in Recorders : RecordingRight(q, rec'[q])
  BY <1>1 DEF Inv
<1>4. Owed'
  <2>1. ASSUME page'.open
        PROVE  \E q \in Recorders : rec'[q].pc \in Owing
    <3>1. CASE s.pc \in Owing
      BY <1>1, <3>1
    <3>2. CASE page.open /\ rec[r].pc \notin Owing
      <4>1. PICK q \in Recorders : rec[q].pc \in Owing
        BY <3>2 DEF Inv, Owed
      <4> QED
        BY <1>1, <3>2, <4>1
    <3> QED
      BY <2>1, <3>1, <3>2
  <2> QED
    BY <2>1 DEF Owed
<1>5. Apart'
  <2> SUFFICES ASSUME \A q \in Recorders : ~rec'[q].dropped, NEW q \in Recorders
               PROVE  /\ rec'[q].pc \notin {"idle", "done"} => queue' = q
                      /\ rec'[q].pc \in {"reset", "resetting", "start"} => page'.active = None /\ page'.encoders = {}
                      /\ rec'[q].pc \in Filming => (page'.open /\ page'.active = q) /\ page'.encoders \subseteq {q}
    BY DEF Apart, IsActive
  <2>1. NoDrops /\ ~s.dropped
    BY <1>1 DEF NoDrops
  <2>2. \A o \in Recorders : Works(o) => queue = o
    BY <2>1 DEF Inv, Apart, NoDrops, Works
  <2>3. CASE q = r
    BY <1>1, <2>1, <2>2, <2>3
  <2>4. CASE q # r
    <3>1. rec'[q].pc \in {"idle", "done"}
      BY <1>1, <2>2, <2>4, RecordersAssumption DEF Works
    <3> QED
      BY <3>1 DEF Filming
  <2> QED
    BY <2>3, <2>4
<1> QED
  BY <1>2, <1>3, <1>4, <1>5 DEF Inv

\* What a recorder starts a step from.
LEMMA StepStarts ==
  ASSUME Inv, NEW r \in Recorders
  PROVE  /\ rec \in [Recorders -> Recordings] /\ rec[r] \in Recordings /\ RecordingRight(r, rec[r])
         /\ queue \in Recorders \cup {None} /\ page \in Pages /\ (page.open \/ page = NoPage)
         /\ Works(r) /\ ~page.open => page = NoPage
         /\ NoDrops /\ rec[r].pc \in {"find", "create"} => ~page.open
         /\ NoDrops /\ rec[r].pc \in {"reset", "resetting", "start"} => page.active = None /\ page.encoders = {}
         /\ NoDrops /\ rec[r].pc \in Filming => page.open /\ page.active = r /\ page.encoders \subseteq {r}
<1>1. /\ rec \in [Recorders -> Recordings] /\ rec[r] \in Recordings /\ RecordingRight(r, rec[r])
      /\ queue \in Recorders \cup {None} /\ page \in Pages /\ (page.open \/ page = NoPage)
  BY DEF Inv, Types, Owed
<1>2. ASSUME NoDrops
      PROVE  /\ \A q \in Recorders : Works(q) => queue = q
             /\ rec[r].pc \in {"reset", "resetting", "start"} => page.active = None /\ page.encoders = {}
             /\ rec[r].pc \in Filming => page.open /\ page.active = r /\ page.encoders \subseteq {r}
  BY <1>2 DEF Inv, Apart, NoDrops, Works, IsActive
<1>3. ASSUME NoDrops, rec[r].pc \in {"find", "create"}, page.open
      PROVE  FALSE
  <2>1. PICK q \in Recorders : rec[q].pc \in Owing
    BY <1>3 DEF Inv, Owed
  <2>2. Works(q) /\ Works(r)
    BY <1>3, <2>1 DEF Works, Owing, Filming, Saving, Ending
  <2>3. q = r
    BY <1>2, <1>3, <2>2
  <2> QED
    BY <1>3, <2>1, <2>3 DEF Owing, Filming, Saving, Ending
<1> QED
  BY <1>1, <1>2, <1>3

\* A step that only goes to another one.
LEMMA GotoKeeps ==
  ASSUME Inv, NEW r \in Recorders, Works(r),
         NEW pc \in Starting \cup Filming \cup Saving \cup Ending, Goto(r, pc), UNCHANGED queue,
         RecordingRight(r, [rec[r] EXCEPT !.pc = pc]),
         page' \in Pages, page'.open \/ page' = NoPage,
         page'.open => pc \in Owing \/ (page.open /\ rec[r].pc \notin Owing),
         NoDrops /\ pc \in {"reset", "resetting", "start"} => page'.active = None /\ page'.encoders = {},
         NoDrops /\ pc \in Filming => page'.open /\ page'.active = r /\ page'.encoders \subseteq {r}
  PROVE  Inv'
<1> DEFINE s == [rec[r] EXCEPT !.pc = pc]
<1>1. rec[r] \in Recordings
  BY StepStarts
<1>2. s \in Recordings /\ s.pc = pc /\ s.dropped = rec[r].dropped
  BY <1>1 DEF Recordings
<1>3. rec' = [rec EXCEPT ![r] = s]
  BY DEF Goto
<1>4. queue' \in Recorders \cup {None}
  BY StepStarts
<1> HIDE DEF s
<1>5. RecordingRight(r, s)
  BY DEF s
<1> QED
  BY <1>2, <1>3, <1>4, <1>5, StepKeeps

\* Two goings of a recorder that differ in the step only.
LEMMA GoesRight ==
  ASSUME NEW r \in Recorders, NEW o \in Recordings, RecordingRight(r, o),
         NEW pc \in Starting \cup Filming \cup Saving \cup Ending,
         pc \in Starting => o.pc \in {"idle"} \cup Starting,
         pc \in Ending => o.loop \in {"none", "ended", "failed"},
         pc \in (Filming \ {"first"}) \cup Saving => o.first,
         o.first /\ pc \notin {"first", "preRoll", "operate"} => o.op # "none",
         pc \in Saving \ {"join"} => o.film # {},
         pc \notin {"downloading", "remove"} /\ o.pc \notin {"downloading", "remove"},
         pc \in {"join"} \cup Ending \/ o.pc \notin {"join", "done"} \cup Ending
  PROVE  RecordingRight(r, [o EXCEPT !.pc = pc])
<1> DEFINE s == [o EXCEPT !.pc = pc]
<1>1. /\ s.pc = pc /\ s.loop = o.loop /\ s.attached = o.attached /\ s.first = o.first /\ s.ran = o.ran
      /\ s.op = o.op /\ s.canvas = o.canvas /\ s.film = o.film /\ s.encoded = o.encoded
      /\ s.file = o.file /\ s.saved = o.saved /\ s.answer = o.answer
  BY DEF Recordings
<1> HIDE DEF s
<1>2. pc \notin {"idle", "done"}
  BY DEF Starting, Filming, Saving, Ending
<1>3. RecordingRight(r, s)
  BY <1>1, <1>2 DEF RecordingRight, Starting
<1> QED
  BY <1>3 DEF s

-----------------------------------------------------------------------------
(* The actions *)

LEMMA PagesAre ==
  /\ NoPage \in Pages /\ ~NoPage.open
  /\ [NoPage EXCEPT !.open = TRUE] \in Pages
  /\ [NoPage EXCEPT !.open = TRUE].active = None /\ [NoPage EXCEPT !.open = TRUE].encoders = {}
  /\ \A p \in Pages : /\ Dispose(p) \in Pages /\ Dispose(p).open = p.open /\ Dispose(p).active = None
                      /\ Dispose(p).encoders = p.encoders \ {p.active}
BY DEF NoPage, Pages, Dispose

LEMMA BeginsWell ==
  ASSUME Inv, NEW r \in Recorders, Begin(r)
  PROVE  Inv'
<1>1. rec[r].pc = "idle" /\ queue = None /\ queue' = r /\ UNCHANGED page
  BY DEF Begin, At
<1>2. CASE rec' = [rec EXCEPT ![r].pc = "find", ![r].attached = TRUE]
  <2> DEFINE s == [rec[r] EXCEPT !.pc = "find", !.attached = TRUE]
  <2>1. rec[r] \in Recordings /\ RecordingRight(r, rec[r]) /\ page \in Pages /\ (page.open \/ page = NoPage)
    BY StepStarts
  <2>2. /\ s \in Recordings /\ s.pc = "find" /\ s.loop = rec[r].loop /\ s.first = rec[r].first
        /\ s.ran = rec[r].ran /\ s.canvas = rec[r].canvas /\ s.film = rec[r].film
        /\ s.encoded = rec[r].encoded /\ s.file = rec[r].file /\ s.saved = rec[r].saved
        /\ s.dropped = rec[r].dropped
    BY <2>1 DEF Recordings, Starting
  <2>3. rec' = [rec EXCEPT ![r] = s]
    BY <1>2
  <2> HIDE DEF s
  <2>4. RecordingRight(r, s)
    BY <1>1, <2>1, <2>2 DEF RecordingRight, Starting, Filming, Saving, Ending
  <2>5. s.pc \notin Owing \cup Filming /\ rec[r].pc \notin Owing
    BY <1>1, <2>2 DEF Owing, Filming, Saving, Ending
  <2> QED
    BY <1>1, <2>1, <2>2, <2>3, <2>4, <2>5, StepKeeps
<1>3. CASE Goto(r, "detach")
  <2> DEFINE s == [rec[r] EXCEPT !.pc = "detach"]
  <2>1. rec[r] \in Recordings /\ RecordingRight(r, rec[r]) /\ page \in Pages /\ (page.open \/ page = NoPage)
    BY StepStarts
  <2>2. s \in Recordings /\ s.pc = "detach" /\ s.dropped = rec[r].dropped
    BY <2>1 DEF Recordings, Ending
  <2>3. rec' = [rec EXCEPT ![r] = s]
    BY <1>3 DEF Goto
  <2>4. RecordingRight(r, s)
    BY <1>1, <2>1, GoesRight DEF RecordingRight, Starting, Filming, Saving, Ending
  <2> HIDE DEF s
  <2>5. s.pc \notin Owing \cup Filming /\ rec[r].pc \notin Owing
    BY <1>1, <2>2 DEF Owing, Filming, Saving, Ending
  <2> QED
    BY <1>1, <2>1, <2>2, <2>3, <2>4, <2>5, StepKeeps
<1> QED
  BY <1>2, <1>3 DEF Begin

\* A step that only goes to another one, of a recorder that is nowhere near its file.
LEMMA PlainGoto ==
  ASSUME Inv, NEW r \in Recorders, rec[r].pc \notin {"idle", "done", "downloading", "remove"},
         NEW pc \in Starting \cup Filming \cup Saving \cup Ending, Goto(r, pc), UNCHANGED queue,
         pc \notin {"downloading", "remove"},
         pc \in {"join"} \cup Ending \/ rec[r].pc \notin {"join"} \cup Ending,
         pc \in Starting => rec[r].pc \in Starting,
         pc \in Ending => rec[r].loop \in {"none", "ended", "failed"},
         pc \in (Filming \ {"first"}) \cup Saving => rec[r].first,
         rec[r].first /\ pc \notin {"first", "preRoll", "operate"} => rec[r].op # "none",
         pc \in Saving \ {"join"} => rec[r].film # {},
         page' \in Pages, page'.open \/ page' = NoPage,
         page'.open => pc \in Owing \/ (page.open /\ rec[r].pc \notin Owing),
         NoDrops /\ pc \in {"reset", "resetting", "start"} => page'.active = None /\ page'.encoders = {},
         NoDrops /\ pc \in Filming => page'.open /\ page'.active = r /\ page'.encoders \subseteq {r}
  PROVE  Inv'
<1>1. rec[r] \in Recordings /\ RecordingRight(r, rec[r])
  BY StepStarts
<1>2. RecordingRight(r, [rec[r] EXCEPT !.pc = pc])
  BY <1>1, GoesRight
<1> QED
  BY <1>2, GotoKeeps DEF Works

LEMMA StartsWell ==
  ASSUME Inv, NEW r \in Recorders, Find(r) \/ Create(r) \/ Reset(r) \/ ResetDone(r)
  PROVE  Inv'
<1>1. UNCHANGED queue /\ rec[r].pc \in {"find", "create", "reset", "resetting"}
  BY DEF Find, Create, Reset, ResetDone, At
<1>2. /\ page \in Pages /\ (page.open \/ page = NoPage) /\ rec[r].loop = "none" /\ ~rec[r].first
      /\ NoDrops /\ rec[r].pc \in {"find", "create"} => ~page.open
      /\ NoDrops /\ rec[r].pc \in {"reset", "resetting", "start"} => page.active = None /\ page.encoders = {}
  BY <1>1, StepStarts DEF RecordingRight, Starting
<1>3. CASE Find(r) /\ page.open
  BY <1>1, <1>2, <1>3, PlainGoto DEF Find, At, Starting, Filming, Saving, Ending, Owing
<1>4. CASE Find(r) /\ ~page.open
  BY <1>1, <1>2, <1>4, PlainGoto DEF Find, At, Starting, Filming, Saving, Ending, Owing
<1>5. CASE Create(r) /\ page.open
  BY <1>1, <1>2, <1>5, PlainGoto DEF Create, At, Starting, Filming, Saving, Ending, Owing
<1>6. CASE Create(r) /\ ~page.open
  <2>1. /\ page' \in Pages /\ page'.open /\ page'.active = None /\ page'.encoders = {}
        /\ Goto(r, "reset") /\ rec[r].pc = "create"
    BY <1>6, PagesAre DEF Create, At, Pages
  <2> QED
    BY <1>1, <1>2, <2>1, PlainGoto DEF Starting, Filming, Saving, Ending, Owing
<1>7. CASE Reset(r) /\ page.open
  <2>1. page' = Dispose(page) /\ page' \in Pages /\ page'.open
    BY <1>2, <1>7, PagesAre DEF Reset
  <2>2. NoDrops => page'.active = None /\ page'.encoders = {}
    BY <1>1, <1>2, <1>7, <2>1, PagesAre DEF Reset, At
  <2> QED
    BY <1>1, <1>2, <1>7, <2>1, <2>2, PlainGoto DEF Reset, At, Starting, Filming, Saving, Ending, Owing
<1>8. CASE Reset(r) /\ ~page.open
  BY <1>1, <1>2, <1>8, PlainGoto DEF Reset, At, Starting, Filming, Saving, Ending, Owing
<1>9. CASE ResetDone(r) /\ page.open
  <2>1. page' \in Pages /\ page'.open /\ page'.active = page.active /\ page'.encoders = page.encoders
    BY <1>2, <1>9 DEF ResetDone, Pages
  <2> QED
    BY <1>1, <1>2, <1>9, <2>1, PlainGoto DEF ResetDone, At, Starting, Filming, Saving, Ending, Owing
<1>10. CASE ResetDone(r) /\ ~page.open
  BY <1>1, <1>2, <1>10, PlainGoto DEF ResetDone, At, Starting, Filming, Saving, Ending, Owing
<1> QED
  BY <1>3, <1>4, <1>5, <1>6, <1>7, <1>8, <1>9, <1>10

LEMMA StartWell ==
  ASSUME Inv, NEW r \in Recorders, Start(r)
  PROVE  Inv'
<1>1. UNCHANGED queue /\ rec[r].pc = "start"
  BY DEF Start, At
<1>2. /\ page \in Pages /\ (page.open \/ page = NoPage) /\ rec[r].loop = "none" /\ ~rec[r].first
      /\ rec[r] \in Recordings /\ RecordingRight(r, rec[r]) /\ queue \in Recorders \cup {None}
      /\ NoDrops => page.active = None /\ page.encoders = {}
  BY <1>1, StepStarts DEF RecordingRight, Starting
<1>3. CASE page.open /\ page.active = None
  <2> DEFINE s == [rec[r] EXCEPT !.pc = "first", !.loop = "capture"]
  <2>1. /\ s \in Recordings /\ s.pc = "first" /\ s.loop = "capture" /\ s.attached = rec[r].attached
        /\ s.first = rec[r].first /\ s.ran = rec[r].ran /\ s.op = rec[r].op
        /\ s.film = rec[r].film /\ s.encoded = rec[r].encoded /\ s.file = rec[r].file
        /\ s.saved = rec[r].saved /\ s.dropped = rec[r].dropped
    BY <1>2 DEF Recordings, Filming
  <2>2. rec' = [rec EXCEPT ![r] = s]
    BY <1>3 DEF Start
  <2> HIDE DEF s
  <2>3. RecordingRight(r, s)
    BY <1>1, <1>2, <2>1 DEF RecordingRight, Starting, Filming, Saving, Ending
  <2>4. page' \in Pages /\ page'.open /\ page'.active = r /\ page'.encoders = page.encoders
    BY <1>2, <1>3 DEF Start, Pages
  <2>5. s.pc \in Owing /\ Works(r)
    BY <1>1, <2>1 DEF Owing, Filming, Works
  <2> QED
    BY <1>1, <1>2, <2>1, <2>2, <2>3, <2>4, <2>5, StepKeeps
<1>4. CASE ~(page.open /\ page.active = None)
  BY <1>1, <1>2, <1>4, PlainGoto DEF Start, At, Starting, Filming, Saving, Ending, Owing
<1> QED
  BY <1>3, <1>4

LEMMA FirstWell ==
  ASSUME Inv, NEW r \in Recorders, First(r)
  PROVE  Inv'
<1>1. UNCHANGED <<queue, page>> /\ rec[r].pc = "first"
  BY DEF First, At
<1>2. /\ page \in Pages /\ (page.open \/ page = NoPage)
      /\ NoDrops => page.open /\ page.active = r /\ page.encoders \subseteq {r}
  BY <1>1, StepStarts DEF Filming
<1>3. CASE rec[r].first /\ Goto(r, "preRoll")
  BY <1>1, <1>2, <1>3, PlainGoto DEF Starting, Filming, Saving, Ending, Owing
<1>4. CASE ~rec[r].first /\ rec[r].loop = "failed" /\ Goto(r, "abort")
  BY <1>1, <1>2, <1>4, PlainGoto DEF Starting, Filming, Saving, Ending, Owing
<1> QED
  BY <1>3, <1>4 DEF First

\* Steps that change the recorder and leave the document alone.
LEMMA RecordKeeps ==
  ASSUME Inv, NEW r \in Recorders, NEW s \in Recordings, RecordingRight(r, s),
         rec' = [rec EXCEPT ![r] = s], UNCHANGED <<queue, page>>,
         Works(r), s.pc \notin {"idle", "done"}, s.dropped = rec[r].dropped,
         s.pc \in Owing \/ rec[r].pc \notin Owing,
         s.pc \in Starting => s.pc = rec[r].pc,
         s.pc \in Filming => rec[r].pc \in Filming
  PROVE  Inv'
<1>1. /\ queue \in Recorders \cup {None} /\ page \in Pages /\ (page.open \/ page = NoPage)
      /\ NoDrops /\ s.pc \in {"reset", "resetting", "start"} => page.active = None /\ page.encoders = {}
      /\ NoDrops /\ s.pc \in Filming => page.open /\ page.active = r /\ page.encoders \subseteq {r}
  BY StepStarts DEF Starting
<1> QED
  BY <1>1, StepKeeps

LEMMA OperatesWell ==
  ASSUME Inv, NEW r \in Recorders, Enter(r) \/ Operate(r) \/ PostRoll(r)
  PROVE  Inv'
<1>1. UNCHANGED <<queue, page>> /\ rec[r].pc \in {"preRoll", "operate", "postRoll"}
  BY DEF Enter, Operate, PostRoll, At
<1>2. rec[r] \in Recordings /\ RecordingRight(r, rec[r])
  BY StepStarts
<1>3. CASE Enter(r)
  <2>1. PICK same \in BOOLEAN :
          rec' = [rec EXCEPT ![r].pc = IF same THEN "operate" ELSE "postRoll",
                             ![r].ran = same /\ r \notin Videos,
                             ![r].op = IF same THEN "none" ELSE "error"]
    BY <1>3 DEF Enter
  <2> DEFINE pc == IF same THEN "operate" ELSE "postRoll"
             ran == same /\ r \notin Videos
             op == IF same THEN "none" ELSE "error"
             s == [rec[r] EXCEPT !.pc = pc, !.ran = ran, !.op = op]
  <2>2. pc \in {"operate", "postRoll"} /\ op \in {"none", "error"} /\ (op = "none" => pc = "operate")
    OBVIOUS
  <2>3. ran \in BOOLEAN
    BY Zenon
  <2>4. rec' = [rec EXCEPT ![r] = s]
    BY <2>1
  <2> HIDE DEF pc, ran, op
  <2>5. /\ s \in Recordings /\ s.pc = pc /\ s.op = op /\ s.loop = rec[r].loop
        /\ s.attached = rec[r].attached /\ s.first = rec[r].first /\ s.canvas = rec[r].canvas
        /\ s.film = rec[r].film /\ s.encoded = rec[r].encoded /\ s.file = rec[r].file
        /\ s.saved = rec[r].saved /\ s.dropped = rec[r].dropped
    <3>1. s \in Recordings
      BY <1>2, <2>2, <2>3 DEF Recordings, Filming
    <3> QED
      BY <1>2, <3>1 DEF Recordings
  <2> HIDE DEF s
  <2>6. rec[r].pc = "preRoll" /\ rec[r].first
    BY <1>2, <1>3 DEF Enter, At, RecordingRight, Filming
  <2>7. RecordingRight(r, s)
    BY <1>2, <2>2, <2>5, <2>6 DEF RecordingRight, Starting, Filming, Saving, Ending
  <2> QED
    BY <1>1, <2>2, <2>4, <2>5, <2>6, <2>7, RecordKeeps DEF Works, Owing, Starting, Filming
<1>4. CASE Operate(r)
  <2>1. PICK outcome \in {"ok", "error", "unknown"} : rec' = [rec EXCEPT ![r].pc = "postRoll", ![r].op = outcome]
    BY <1>4 DEF Operate
  <2> DEFINE s == [rec[r] EXCEPT !.pc = "postRoll", !.op = outcome]
  <2>2. /\ s \in Recordings /\ s.pc = "postRoll" /\ s.op = outcome /\ s.loop = rec[r].loop
        /\ s.attached = rec[r].attached /\ s.first = rec[r].first /\ s.canvas = rec[r].canvas
        /\ s.film = rec[r].film /\ s.encoded = rec[r].encoded /\ s.file = rec[r].file
        /\ s.saved = rec[r].saved /\ s.dropped = rec[r].dropped /\ s.ran = rec[r].ran
    BY <1>2 DEF Recordings, Filming
  <2>3. rec' = [rec EXCEPT ![r] = s]
    BY <2>1
  <2> HIDE DEF s
  <2>4. rec[r].pc = "operate" /\ rec[r].first
    BY <1>2, <1>4 DEF Operate, At, RecordingRight, Filming
  <2>5. RecordingRight(r, s)
    BY <1>2, <2>2, <2>4 DEF RecordingRight, Starting, Filming, Saving, Ending
  <2> QED
    BY <1>1, <2>2, <2>3, <2>4, <2>5, RecordKeeps DEF Works, Owing, Starting, Filming
<1>5. CASE PostRoll(r)
  <2> DEFINE pc == IF rec[r].loop = "failed" THEN "join" ELSE "drain"
             s == [rec[r] EXCEPT !.stop = TRUE, !.pc = pc]
  <2>1. pc \in {"join", "drain"}
    OBVIOUS
  <2>2. rec' = [rec EXCEPT ![r] = s]
    BY <1>5 DEF PostRoll
  <2> HIDE DEF pc
  <2>3. /\ s \in Recordings /\ s.pc = pc /\ s.op = rec[r].op /\ s.loop = rec[r].loop
        /\ s.attached = rec[r].attached /\ s.first = rec[r].first /\ s.canvas = rec[r].canvas
        /\ s.film = rec[r].film /\ s.encoded = rec[r].encoded /\ s.file = rec[r].file
        /\ s.saved = rec[r].saved /\ s.dropped = rec[r].dropped /\ s.ran = rec[r].ran
    BY <1>2, <2>1 DEF Recordings, Filming, Saving
  <2> HIDE DEF s
  <2>4. rec[r].pc = "postRoll" /\ rec[r].first /\ rec[r].op # "none"
    BY <1>2, <1>5 DEF PostRoll, At, RecordingRight, Filming
  <2>5. RecordingRight(r, s)
    BY <1>2, <2>1, <2>3, <2>4 DEF RecordingRight, Starting, Filming, Saving, Ending
  <2> QED
    BY <1>1, <2>1, <2>2, <2>3, <2>4, <2>5, RecordKeeps DEF Works, Owing, Starting, Filming, Saving
<1> QED
  BY <1>3, <1>4, <1>5

\* A capture loop only runs between the start of the document and the end of the recording.
LEMMA Looping ==
  ASSUME Inv, NEW r \in Recorders, rec[r].loop \in {"capture", "submit", "drawing", "sleep"}
  PROVE  /\ rec[r] \in Recordings /\ RecordingRight(r, rec[r]) /\ Works(r)
         /\ rec[r].pc \in Filming \cup Saving /\ rec[r].pc \in Owing /\ rec[r].pc \notin Starting
<1>1. rec[r] \in Recordings /\ RecordingRight(r, rec[r])
  BY StepStarts
<1>2. rec[r].pc \notin {"idle", "done"} \cup Starting \cup Ending
  BY <1>1 DEF RecordingRight
<1>3. rec[r].pc \in Filming \cup Saving
  BY <1>1, <1>2 DEF Recordings
<1>4. rec[r].pc \in Owing
  BY <1>3 DEF Owing
<1> QED
  BY <1>1, <1>2, <1>3, <1>4 DEF Works

LEMMA LoopKeeps ==
  ASSUME Inv, NEW r \in Recorders, rec[r].loop \in {"capture", "submit", "drawing", "sleep"},
         NEW l \in {"capture", "submit", "sleep", "ended", "failed"},
         LoopIs(r, l), UNCHANGED <<queue, page>>
  PROVE  Inv'
<1> DEFINE s == [rec[r] EXCEPT !.loop = l]
<1>1. /\ rec[r] \in Recordings /\ RecordingRight(r, rec[r]) /\ Works(r)
      /\ rec[r].pc \in Filming \cup Saving /\ rec[r].pc \in Owing /\ rec[r].pc \notin Starting
  BY Looping
<1>2. /\ s \in Recordings /\ s.pc = rec[r].pc /\ s.op = rec[r].op /\ s.loop = l
      /\ s.attached = rec[r].attached /\ s.first = rec[r].first /\ s.ran = rec[r].ran
      /\ s.film = rec[r].film /\ s.encoded = rec[r].encoded /\ s.file = rec[r].file
      /\ s.saved = rec[r].saved /\ s.answer = rec[r].answer /\ s.dropped = rec[r].dropped
  BY <1>1 DEF Recordings
<1>3. rec' = [rec EXCEPT ![r] = s]
  BY DEF LoopIs
<1> HIDE DEF s
<1>4. s.pc \notin {"idle", "done"} \cup Ending
  BY <1>1, <1>2 DEF Filming, Saving, Ending
<1>5. RecordingRight(r, s)
  BY <1>1, <1>2, <1>4 DEF RecordingRight
<1> QED
  BY <1>1, <1>2, <1>3, <1>4, <1>5, RecordKeeps

LEMMA LoopsWell ==
  ASSUME Inv, NEW r \in Recorders, Capture(r) \/ Submit(r) \/ Sleep(r)
  PROVE  Inv'
<1>1. CASE Capture(r)
  BY <1>1, LoopKeeps DEF Capture
<1>2. CASE Sleep(r)
  <2>1. LoopIs(r, "ended") \/ LoopIs(r, "capture")
    BY <1>2 DEF Sleep
  <2> QED
    BY <1>2, <2>1, LoopKeeps DEF Sleep
<1>3. CASE Submit(r) /\ ~IsActive(r)
  BY <1>3, LoopKeeps DEF Submit
<1>4. CASE Submit(r) /\ IsActive(r)
  <2> DEFINE s == [rec[r] EXCEPT !.loop = "drawing", !.canvas = r]
  <2>1. /\ rec[r] \in Recordings /\ RecordingRight(r, rec[r]) /\ Works(r)
        /\ rec[r].pc \in Filming \cup Saving /\ rec[r].pc \in Owing /\ rec[r].pc \notin Starting
    BY <1>4, Looping DEF Submit
  <2>2. /\ s \in Recordings /\ s.pc = rec[r].pc /\ s.op = rec[r].op /\ s.loop = "drawing" /\ s.canvas = r
        /\ s.attached = rec[r].attached /\ s.first = rec[r].first /\ s.ran = rec[r].ran
        /\ s.film = rec[r].film /\ s.encoded = rec[r].encoded /\ s.file = rec[r].file
        /\ s.saved = rec[r].saved /\ s.answer = rec[r].answer /\ s.dropped = rec[r].dropped
    BY <2>1 DEF Recordings
  <2>3. rec' = [rec EXCEPT ![r] = s]
    BY <1>4 DEF Submit, IsActive
  <2> HIDE DEF s
  <2>4. s.pc \notin {"idle", "done"} \cup Ending
    BY <2>1, <2>2 DEF Filming, Saving, Ending
  <2>5. RecordingRight(r, s)
    BY <2>1, <2>2, <2>4 DEF RecordingRight
  <2> QED
    BY <1>4, <2>1, <2>2, <2>3, <2>4, <2>5, RecordKeeps DEF Submit
<1> QED
  BY <1>1, <1>2, <1>3, <1>4

LEMMA DrawsWell ==
  ASSUME Inv, NEW r \in Recorders, Draw(r)
  PROVE  Inv'
<1>1. CASE ~page.open
  BY <1>1, LoopKeeps DEF Draw
<1>2. CASE page.open
  <2> DEFINE s == [rec[r] EXCEPT !.loop = "sleep", !.first = TRUE, !.film = @ \cup {r}]
  <2>1. /\ rec[r] \in Recordings /\ RecordingRight(r, rec[r]) /\ Works(r) /\ rec[r].canvas = r
        /\ rec[r].pc \in Filming \cup Saving /\ rec[r].pc \in Owing /\ rec[r].pc \notin Starting
    BY Looping DEF Draw, RecordingRight
  <2>2. /\ s \in Recordings /\ s.pc = rec[r].pc /\ s.op = rec[r].op /\ s.loop = "sleep" /\ s.first
        /\ s.attached = rec[r].attached /\ s.ran = rec[r].ran
        /\ s.film = rec[r].film \cup {r} /\ s.encoded = rec[r].encoded /\ s.file = rec[r].file
        /\ s.saved = rec[r].saved /\ s.answer = rec[r].answer /\ s.dropped = rec[r].dropped
    BY <2>1 DEF Recordings
  <2>3. rec' = [rec EXCEPT ![r] = s]
    <3>1. rec' = [rec EXCEPT ![r].loop = "sleep", ![r].first = TRUE, ![r].film = @ \cup {r}]
      BY <1>2, <2>1 DEF Draw
    <3> QED
      BY <3>1, <2>1, StepStarts
  <2>4. UNCHANGED queue /\ page' \in {page, [page EXCEPT !.encoders = @ \cup {r}]}
    BY <1>2, <2>1 DEF Draw
  <2> HIDE DEF s
  <2>5. s.pc \notin {"idle", "done"} \cup Ending
    BY <2>1, <2>2 DEF Filming, Saving, Ending
  <2>6. rec[r].first => (s.first /\ s.pc \notin {"first", "preRoll", "operate"} => s.op # "none")
    BY <2>1, <2>2 DEF RecordingRight
  <2>7. ~rec[r].first => s.pc \in {"first"}
    BY <2>1, <2>2 DEF RecordingRight
  <2>8. RecordingRight(r, s)
    BY <2>1, <2>2, <2>5, <2>6, <2>7 DEF RecordingRight
  <2>9. page \in Pages /\ queue \in Recorders \cup {None}
        /\ (NoDrops /\ rec[r].pc \in Filming => page.open /\ page.active = r /\ page.encoders \subseteq {r})
    BY StepStarts
  <2>10. page' \in Pages /\ page'.open /\ page'.active = page.active /\ page'.encoders \subseteq page.encoders \cup {r}
    BY <1>2, <2>4, <2>9 DEF Pages
  <2>11. s.pc \notin {"reset", "resetting", "start"}
    BY <2>1, <2>2 DEF Starting
  <2> QED
    BY <2>1, <2>2, <2>3, <2>4, <2>5, <2>8, <2>9, <2>10, <2>11, StepKeeps
<1> QED
  BY <1>1, <1>2

LEMMA EncodesWell ==
  ASSUME Inv, NEW r \in Recorders, Drain(r) \/ Encode(r) \/ Encoded(r)
  PROVE  Inv'
<1>1. /\ rec[r].pc \in {"drain", "encode", "encoding"} /\ UNCHANGED queue
      /\ page \in Pages /\ (page.open \/ page = NoPage) /\ queue \in Recorders \cup {None}
      /\ rec[r] \in Recordings /\ RecordingRight(r, rec[r])
      /\ NoDrops /\ rec[r].pc \in Filming => page.open /\ page.active = r /\ page.encoders \subseteq {r}
  BY StepStarts DEF Drain, Encode, Encoded, At
<1>0. rec[r] \in Recordings
  BY <1>1
<1>2. rec[r].first /\ rec[r].op # "none"
  BY <1>1 DEF RecordingRight, Filming, Saving
<1>3. CASE Drain(r)
  <2>1. rec[r].pc = "drain" /\ UNCHANGED page /\ (Goto(r, "encode") \/ Goto(r, "join"))
    BY <1>3 DEF Drain, At
  <2>2. NoDrops => page.open /\ page.active = r /\ page.encoders \subseteq {r}
    BY <1>1, <2>1 DEF Filming
  <2> QED
    BY <1>1, <1>2, <2>1, <2>2, PlainGoto DEF Starting, Filming, Saving, Ending, Owing
<1>4. CASE Encode(r) /\ Goto(r, "join") /\ UNCHANGED page
  BY <1>1, <1>2, <1>4, PlainGoto DEF Starting, Filming, Saving, Ending, Owing
<1>5. CASE Encode(r) /\ IsActive(r) /\ rec[r].film # {}
  <2>1. Goto(r, "encoding") /\ page' = [page EXCEPT !.encoders = @ \ {r}] /\ page.open
    BY <1>5 DEF Encode, IsActive
  <2>2. page' \in Pages /\ page'.open
    BY <1>1, <2>1 DEF Pages
  <2> QED
    BY <1>1, <1>2, <1>5, <2>1, <2>2, PlainGoto DEF Starting, Filming, Saving, Ending, Owing
<1>6. CASE Encoded(r) /\ ~page.open
  <2>1. Goto(r, "join") /\ UNCHANGED page
    BY <1>6 DEF Encoded
  <2> QED
    BY <1>1, <1>2, <1>6, <2>1, PlainGoto DEF Starting, Filming, Saving, Ending, Owing
<1>7. CASE Encoded(r) /\ page.open
  <2> DEFINE s == [rec[r] EXCEPT !.pc = "download", !.encoded = TRUE]
  <2>1. /\ rec[r].pc = "encoding" /\ rec' = [rec EXCEPT ![r] = s]
        /\ page' = [page EXCEPT !.active = None, !.urls = @ \cup {r}]
    BY <1>7 DEF Encoded, At
  <2>2. /\ s \in Recordings /\ s.pc = "download" /\ s.op = rec[r].op /\ s.loop = rec[r].loop
        /\ s.attached = rec[r].attached /\ s.first = rec[r].first /\ s.canvas = rec[r].canvas
        /\ s.film = rec[r].film /\ s.encoded /\ s.file = rec[r].file
        /\ s.saved = rec[r].saved /\ s.dropped = rec[r].dropped /\ s.ran = rec[r].ran
    BY <1>0 DEF Recordings, Saving
  <2> HIDE DEF s
  <2>3. RecordingRight(r, s)
    BY <1>1, <1>2, <2>1, <2>2 DEF RecordingRight, Starting, Filming, Saving, Ending
  <2>4. page' \in Pages /\ page'.open
    BY <1>1, <1>7, <2>1 DEF Pages
  <2> QED
    BY <1>1, <2>1, <2>2, <2>3, <2>4, StepKeeps DEF Works, Starting, Filming, Saving, Ending, Owing
<1> QED
  BY <1>3, <1>4, <1>5, <1>6, <1>7 DEF Encode

LEMMA SavesWell ==
  ASSUME Inv, NEW r \in Recorders, Download(r) \/ Downloaded(r) \/ Remove(r)
  PROVE  Inv'
<1>1. /\ rec[r].pc \in {"download", "downloading", "remove"} /\ UNCHANGED <<queue, page>>
      /\ rec[r] \in Recordings /\ RecordingRight(r, rec[r])
  BY StepStarts DEF Download, Downloaded, Remove, At
<1>0. rec[r] \in Recordings
  BY <1>1
<1>2. rec[r].first /\ rec[r].op # "none" /\ rec[r].film # {} /\ ~rec[r].saved
  BY <1>1 DEF RecordingRight, Filming, Saving, Ending
<1>3. ASSUME NEW pc \in {"downloading", "join", "remove"}, NEW file \in {"none", "partial", "complete"},
             NEW saved \in BOOLEAN,
             rec' = [rec EXCEPT ![r].pc = pc, ![r].file = file, ![r].saved = saved],
             saved => pc = "join", pc = "join" => file = IF saved THEN "complete" ELSE "none"
      PROVE  Inv'
  <2> DEFINE s == [rec[r] EXCEPT !.pc = pc, !.file = file, !.saved = saved]
  <2>1. rec' = [rec EXCEPT ![r] = s]
    BY <1>3
  <2>2. /\ s \in Recordings /\ s.pc = pc /\ s.op = rec[r].op /\ s.loop = rec[r].loop
        /\ s.attached = rec[r].attached /\ s.first = rec[r].first /\ s.canvas = rec[r].canvas
        /\ s.film = rec[r].film /\ s.encoded = rec[r].encoded /\ s.file = file
        /\ s.saved = saved /\ s.dropped = rec[r].dropped /\ s.ran = rec[r].ran
    <3>1. s \in Recordings
      BY <1>0 DEF Recordings, Saving
    <3>2. s.pc = pc /\ s.file = file /\ s.saved = saved
      BY <1>0 DEF Recordings
    <3> QED
      BY <1>0, <3>1, <3>2 DEF Recordings
  <2> HIDE DEF s
  <2>3. RecordingRight(r, s)
    BY <1>1, <1>2, <1>3, <2>2 DEF RecordingRight, Starting, Filming, Saving, Ending
  <2> QED
    BY <1>1, <1>3, <2>1, <2>2, <2>3, RecordKeeps DEF Works, Starting, Filming, Saving, Ending, Owing
<1>4. CASE Download(r) /\ rec' = [rec EXCEPT ![r].pc = "downloading", ![r].file = "partial"]
  <2> DEFINE s == [rec[r] EXCEPT !.pc = "downloading", !.file = "partial"]
  <2>1. rec' = [rec EXCEPT ![r] = s] /\ rec[r].pc = "download"
    BY <1>4 DEF Download, At
  <2>2. /\ s \in Recordings /\ s.pc = "downloading" /\ s.op = rec[r].op /\ s.loop = rec[r].loop
        /\ s.attached = rec[r].attached /\ s.first = rec[r].first /\ s.canvas = rec[r].canvas
        /\ s.film = rec[r].film /\ s.encoded = rec[r].encoded
        /\ s.saved = rec[r].saved /\ s.dropped = rec[r].dropped /\ s.ran = rec[r].ran
    BY <1>0 DEF Recordings, Saving
  <2> HIDE DEF s
  <2>3. RecordingRight(r, s)
    BY <1>1, <1>2, <2>1, <2>2 DEF RecordingRight, Starting, Filming, Saving, Ending
  <2> QED
    BY <1>1, <2>1, <2>2, <2>3, RecordKeeps DEF Works, Starting, Filming, Saving, Ending, Owing
<1>5. CASE Download(r) /\ Goto(r, "join")
  <2>1. page \in Pages /\ (page.open \/ page = NoPage)
    BY StepStarts
  <2> QED
    BY <1>1, <1>2, <1>5, <2>1, PlainGoto DEF Download, At, Starting, Filming, Saving, Ending, Owing
<1>6. CASE Downloaded(r)
  <2>1. PICK file \in {"partial", "complete"}, saved \in BOOLEAN :
          /\ saved => file = "complete"
          /\ rec' = [rec EXCEPT ![r].pc = IF saved THEN "join" ELSE "remove",
                                ![r].file = file, ![r].saved = saved]
    BY <1>6 DEF Downloaded
  <2>2. CASE saved
    BY <1>3, <2>1, <2>2
  <2>3. CASE ~saved
    BY <1>3, <2>1, <2>3
  <2> QED
    BY <2>2, <2>3
<1>7. CASE Remove(r)
  <2>1. rec[r].pc = "remove" /\ ~rec[r].saved
    BY <1>2, <1>7 DEF Remove, At
  <2>2. rec' = [rec EXCEPT ![r].pc = "join", ![r].file = "none", ![r].saved = FALSE]
    <3>1. rec' = [rec EXCEPT ![r].pc = "join", ![r].file = "none"]
      BY <1>7 DEF Remove
    <3>2. [rec[r] EXCEPT !.pc = "join", !.file = "none"] = [rec[r] EXCEPT !.pc = "join", !.file = "none", !.saved = FALSE]
      BY <1>0, <2>1 DEF Recordings
    <3> QED
      BY <3>1, <3>2, StepStarts
  <2> QED
    BY <1>3, <2>1, <2>2
<1> QED
  BY <1>4, <1>5, <1>6, <1>7 DEF Download

LEMMA ClosesWell ==
  ASSUME Inv, NEW r \in Recorders, Join(r) \/ Abort(r) \/ Aborted(r) \/ Revoke(r) \/ CloseDocument(r)
  PROVE  Inv'
<1>1. /\ rec[r].pc \in {"join", "abort", "aborting", "revoke", "closeDocument"} /\ UNCHANGED queue
      /\ page \in Pages /\ (page.open \/ page = NoPage)
      /\ rec[r] \in Recordings /\ RecordingRight(r, rec[r])
  BY StepStarts DEF Join, Abort, Aborted, Revoke, CloseDocument, At
<1>2. rec[r].first => rec[r].op # "none"
  BY <1>1 DEF RecordingRight
<1>3. rec[r].pc # "join" => rec[r].loop \in {"none", "ended", "failed"}
  BY <1>1 DEF RecordingRight, Ending
<1>4. CASE Join(r)
  <2>1. rec[r].pc = "join" /\ UNCHANGED page /\ rec[r].loop \in {"ended", "failed"}
        /\ (Goto(r, "revoke") \/ Goto(r, "abort"))
    BY <1>4 DEF Join, At, Over
  <2> QED
    BY <1>1, <1>2, <2>1, PlainGoto DEF Starting, Filming, Saving, Ending, Owing
<1>5. CASE Abort(r) /\ IsActive(r)
  <2>1. Goto(r, "aborting") /\ page' = Dispose(page) /\ page.open
    BY <1>5 DEF Abort, IsActive
  <2>2. page' \in Pages /\ page'.open
    BY <1>1, <2>1, PagesAre
  <2>3. rec[r].pc = "abort"
    BY <1>5 DEF Abort, At
  <2> QED
    BY <1>1, <1>2, <1>3, <2>1, <2>2, <2>3, PlainGoto DEF Starting, Filming, Saving, Ending, Owing
<1>6. CASE Abort(r) /\ ~IsActive(r)
  <2>1. Goto(r, "closeDocument") /\ UNCHANGED page /\ rec[r].pc = "abort"
    BY <1>6 DEF Abort, At
  <2> QED
    BY <1>1, <1>2, <1>3, <2>1, PlainGoto DEF Starting, Filming, Saving, Ending, Owing
<1>7. CASE Aborted(r)
  <2>1. Goto(r, "closeDocument") /\ UNCHANGED page /\ rec[r].pc = "aborting"
    BY <1>7 DEF Aborted, At
  <2> QED
    BY <1>1, <1>2, <1>3, <2>1, PlainGoto DEF Starting, Filming, Saving, Ending, Owing
<1>8. CASE Revoke(r)
  <2>1. Goto(r, "closeDocument") /\ page' = [page EXCEPT !.urls = @ \ {r}] /\ rec[r].pc = "revoke"
    BY <1>8 DEF Revoke, At
  <2>2. page' \in Pages /\ (page'.open \/ page' = NoPage) /\ page'.open = page.open
    <3>1. page' \in Pages /\ page'.open = page.open
      BY <1>1, <2>1 DEF Pages
    <3>2. page = NoPage => page' = NoPage
      <4>1. NoPage.urls \ {r} = NoPage.urls
        BY DEF NoPage
      <4>2. [NoPage EXCEPT !.urls = NoPage.urls \ {r}] = [NoPage EXCEPT !.urls = NoPage.urls]
        BY <4>1, Zenon
      <4>3. [NoPage EXCEPT !.urls = NoPage.urls] = NoPage
        BY DEF NoPage
      <4>4. [NoPage EXCEPT !.urls = @ \ {r}] = [NoPage EXCEPT !.urls = NoPage.urls \ {r}]
        OBVIOUS
      <4> QED
        BY <2>1, <4>2, <4>3, <4>4, Zenon
    <3> QED
      BY <1>1, <3>1, <3>2
  <2> QED
    BY <1>1, <1>2, <1>3, <2>1, <2>2, PlainGoto DEF Starting, Filming, Saving, Ending, Owing
<1>9. CASE CloseDocument(r)
  <2>1. Goto(r, "detach") /\ page' = NoPage /\ rec[r].pc = "closeDocument"
    BY <1>9 DEF CloseDocument, At
  <2> QED
    BY <1>1, <1>2, <1>3, <2>1, PagesAre, PlainGoto DEF Starting, Filming, Saving, Ending, Owing
<1> QED
  BY <1>4, <1>5, <1>6, <1>7, <1>8, <1>9

\* What settleRecordedOperation may answer.
LEMMA AnswerIs ==
  ASSUME NEW s \in Recordings, s.first => s.op # "none"
  PROVE  /\ Answer(s) \in {"notStarted", "unknown", "failed", "recorded", "unrecorded"}
         /\ Answer(s) = "recorded" => s.saved
         /\ Answer(s) = "notStarted" => ~s.first
<1>1. CASE ~s.first
  <2>1. Answer(s) = "notStarted"
    BY <1>1 DEF Answer
  <2> QED
    BY <1>1, <2>1
<1>2. CASE s.first /\ s.op = "unknown"
  <2>1. Answer(s) = "unknown"
    BY <1>2 DEF Answer
  <2> QED
    BY <2>1
<1>3. CASE s.first /\ s.op = "error"
  <2>1. Answer(s) = "failed"
    BY <1>3 DEF Answer
  <2> QED
    BY <2>1
<1>4. CASE s.first /\ s.op = "ok"
  <2>1. Answer(s) = IF s.saved THEN "recorded" ELSE "unrecorded"
    BY <1>4 DEF Answer
  <2> QED
    BY <2>1
<1> QED
  BY <1>1, <1>2, <1>3, <1>4 DEF Recordings

LEMMA DetachesWell ==
  ASSUME Inv, NEW r \in Recorders, Detach(r)
  PROVE  Inv'
<1>1. /\ rec[r].pc = "detach" /\ queue' \in {queue, None} /\ UNCHANGED page
      /\ page \in Pages /\ (page.open \/ page = NoPage) /\ queue \in Recorders \cup {None}
      /\ RecordingRight(r, rec[r])
  BY StepStarts DEF Detach, At
<1>2. rec[r] \in Recordings
  BY StepStarts
<1>3. /\ rec[r].first => rec[r].op # "none"
      /\ rec[r].ran => rec[r].first
  BY <1>1 DEF RecordingRight
<1> DEFINE answer == Answer(rec[r])
           s == [rec[r] EXCEPT !.pc = "done", !.attached = FALSE, !.answer = answer]
<1>4. /\ answer \in {"notStarted", "unknown", "failed", "recorded", "unrecorded"}
      /\ answer = "recorded" => rec[r].saved
      /\ answer = "notStarted" => ~rec[r].first
  BY <1>2, <1>3, AnswerIs
<1>5. rec' = [rec EXCEPT ![r] = s]
  BY DEF Detach
<1> HIDE DEF answer
<1>9. s \in Recordings
  BY ZenonT(60), <1>2, <1>4 DEF Recordings
<1>6. /\ s.pc = "done" /\ s.op = rec[r].op /\ s.loop = rec[r].loop
      /\ s.attached = FALSE /\ s.first = rec[r].first /\ s.canvas = rec[r].canvas
      /\ s.film = rec[r].film /\ s.encoded = rec[r].encoded /\ s.file = rec[r].file
      /\ s.saved = rec[r].saved /\ s.dropped = rec[r].dropped /\ s.ran = rec[r].ran /\ s.answer = answer
  BY <1>2 DEF Recordings
<1> HIDE DEF s
<1>7. RecordingRight(r, s)
  BY <1>1, <1>3, <1>4, <1>6 DEF RecordingRight, Starting, Filming, Saving, Ending
<1>8. rec[r].pc \notin Owing /\ Works(r) /\ s.pc \notin Filming
  BY <1>1, <1>6 DEF Owing, Works, Filming, Saving, Ending
<1> QED
  BY <1>1, <1>5, <1>6, <1>7, <1>8, <1>9, StepKeeps

LEMMA LosesWell ==
  ASSUME Inv, NEW r \in Recorders, Lost(r) \/ Dropped(r)
  PROVE  Inv'
<1>1. /\ rec[r].attached /\ UNCHANGED page /\ rec[r] \in Recordings /\ RecordingRight(r, rec[r])
      /\ page \in Pages /\ (page.open \/ page = NoPage) /\ queue \in Recorders \cup {None}
      /\ NoDrops /\ rec[r].pc \in {"reset", "resetting", "start"} => page.active = None /\ page.encoders = {}
      /\ NoDrops /\ rec[r].pc \in Filming => page.open /\ page.active = r /\ page.encoders \subseteq {r}
  BY StepStarts DEF Lost, Dropped
<1>2. Works(r)
  BY <1>1 DEF RecordingRight, Works
<1>3. ASSUME NEW dropped \in BOOLEAN, rec' = [rec EXCEPT ![r].attached = FALSE, ![r].dropped = dropped],
             rec[r].dropped => dropped, queue' = queue \/ (dropped /\ queue' = None)
      PROVE  Inv'
  <2> DEFINE s == [rec[r] EXCEPT !.attached = FALSE, !.dropped = dropped]
  <2>1. rec' = [rec EXCEPT ![r] = s]
    BY <1>3
  <2>2. s.dropped = dropped
    BY <1>1 DEF Recordings
  <2>6. s \in Recordings
    BY <1>1 DEF Recordings
  <2>3. /\ s.pc = rec[r].pc /\ s.op = rec[r].op /\ s.loop = rec[r].loop
        /\ s.attached = FALSE /\ s.first = rec[r].first /\ s.canvas = rec[r].canvas
        /\ s.film = rec[r].film /\ s.encoded = rec[r].encoded /\ s.file = rec[r].file
        /\ s.saved = rec[r].saved /\ s.ran = rec[r].ran /\ s.answer = rec[r].answer
    BY <1>1 DEF Recordings
  <2> HIDE DEF s
  <2>4. RecordingRight(r, s)
    BY <1>1, <2>3 DEF RecordingRight
  <2> QED
    BY <1>1, <1>2, <1>3, <2>1, <2>2, <2>3, <2>4, <2>6, StepKeeps
<1>4. CASE Lost(r)
  <2>1. rec' = [rec EXCEPT ![r].attached = FALSE, ![r].dropped = rec[r].dropped]
    <3>1. rec' = [rec EXCEPT ![r].attached = FALSE]
      BY <1>4 DEF Lost
    <3>2. [rec[r] EXCEPT !.attached = FALSE] = [rec[r] EXCEPT !.attached = FALSE, !.dropped = rec[r].dropped]
      BY <1>1 DEF Recordings
    <3> QED
      BY <3>1, <3>2, StepStarts
  <2>2. rec[r].dropped \in BOOLEAN /\ queue' = queue
    BY <1>1, <1>4 DEF Lost, Recordings
  <2> QED
    BY <1>3, <2>1, <2>2
<1>5. CASE Dropped(r)
  BY <1>3, <1>5 DEF Dropped
<1> QED
  BY <1>4, <1>5

LEMMA InvInit ==
  ASSUME Init
  PROVE  Inv
<1>1. Fresh \in Recordings
  BY DEF Fresh, Recordings
<1>2. Types
  BY <1>1, PagesAre DEF Init, Types
<1>3. ASSUME NEW r \in Recorders
      PROVE  RecordingRight(r, rec[r]) /\ rec[r].pc = "idle"
  BY <1>3 DEF Init, Fresh, RecordingRight, Starting, Filming, Saving, Ending
<1>4. Owed
  BY PagesAre DEF Init, Owed
<1>5. Apart
  BY <1>3 DEF Apart, Filming
<1> QED
  BY <1>2, <1>3, <1>4, <1>5 DEF Inv

LEMMA InvNext ==
  ASSUME Inv, [Next]_vars
  PROVE  Inv'
<1>1. ASSUME NEW r \in Recorders, Begin(r) \/ Lost(r) \/ Dropped(r)
      PROVE  Inv'
  BY <1>1, BeginsWell, LosesWell
<1>2. ASSUME NEW r \in Recorders, Loop(r)
      PROVE  Inv'
  BY <1>2, LoopsWell, DrawsWell DEF Loop
<1>3. ASSUME NEW r \in Recorders, Task(r)
      PROVE  Inv'
  BY <1>3, StartsWell, StartWell, FirstWell, OperatesWell, EncodesWell, SavesWell, ClosesWell, DetachesWell
     DEF Task
<1>4. CASE UNCHANGED vars
  BY <1>4 DEF vars, Inv, Types, Owed, Apart, IsActive
<1> QED
  BY <1>1, <1>2, <1>3, <1>4 DEF Next

-----------------------------------------------------------------------------
(* The theorems *)

\* The invariant above holds in every state of the recorders and their document.
THEOREM RecordingInvariant == Spec => []Inv
<1>1. Init => Inv
  BY InvInit
<1>2. Inv /\ [Next]_vars => Inv'
  BY InvNext
<1> QED
  BY <1>1, <1>2, PTL DEF Spec

\* Every variable keeps its type.
THEOREM RecordingTypeCorrect == Spec => []Types
<1>1. Inv => Types
  BY DEF Inv
<1> QED
  BY <1>1, RecordingInvariant, PTL

\* settleRecordedOperation and finish: a recording that is reported is complete and shows
\* its own target alone, and an operation that is said not to have started did not run.
THEOREM RecordsTruly == Spec => []RecordedTruly
<1>1. Inv => RecordedTruly
  <2> SUFFICES ASSUME Inv, NEW r \in Recorders, Returned(r)
               PROVE  /\ rec[r].file = IF rec[r].saved THEN "complete" ELSE "none"
                      /\ rec[r].saved => rec[r].film = {r}
                      /\ rec[r].answer = "recorded" => rec[r].saved
                      /\ rec[r].answer = "notStarted" => ~rec[r].ran
    BY DEF RecordedTruly
  <2>1. RecordingRight(r, rec[r]) /\ rec[r].pc = "done"
    BY DEF Inv, Returned, At
  <2>2. rec[r].file = IF rec[r].saved THEN "complete" ELSE "none"
    BY <2>1 DEF RecordingRight
  <2>3. rec[r].saved => rec[r].film = {r}
    BY <2>1 DEF RecordingRight
  <2>4. /\ rec[r].answer = "recorded" => rec[r].saved
        /\ rec[r].answer = "notStarted" => ~rec[r].ran
    BY <2>1 DEF RecordingRight
  <2> QED
    BY <2>2, <2>3, <2>4
<1> QED
  BY <1>1, RecordingInvariant, PTL

\* close and the finally blocks: once every recorder has returned, the document is closed
\* and nobody is attached to a tab.
THEOREM EverythingIsGivenBack == Spec => []AllGivenBack
<1>1. Inv => AllGivenBack
  <2> SUFFICES ASSUME Inv, \A r \in Recorders : rec[r].pc \in {"idle", "done"}
               PROVE  page = NoPage /\ \A r \in Recorders : ~rec[r].attached
    BY DEF AllGivenBack
  <2>1. \A r \in Recorders : rec[r].pc \notin Owing
    BY DEF Owing, Filming, Saving, Ending
  <2>2. page = NoPage
    BY <2>1 DEF Inv, Owed
  <2>3. \A r \in Recorders : ~rec[r].attached
    BY DEF Inv, RecordingRight
  <2> QED
    BY <2>2, <2>3
<1> QED
  BY <1>1, RecordingInvariant, PTL

\* runPageOperation around recordTargetOperation: as long as no operation is dropped, a
\* recorder that films has the document to itself.
THEOREM RecordingsKeepApart == Spec => []QueueKeepsApart
<1>1. Inv => QueueKeepsApart
  BY DEF Inv, Apart, QueueKeepsApart, Encodes, Filming
<1> QED
  BY <1>1, RecordingInvariant, PTL

=============================================================================
