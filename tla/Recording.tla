----------------------------- MODULE Recording -----------------------------
(***************************************************************************)
(* The recording of a page operation as a WebM file: the recorder of the    *)
(* background (apps/extension/recording.js) and the one offscreen document   *)
(* that encodes for it (apps/extension/recording-offscreen.js).              *)
(*                                                                          *)
(* A recorder is two tasks: the one that runs recordTargetOperation or       *)
(* recordTargetVideo, and its capture loop.  A message to the document runs  *)
(* its handler up to the first await; the handlers that wait have a second   *)
(* step.  A document that is closed answers nothing.                         *)
(*                                                                          *)
(* Abstracted: pixels and sizes, time (a wait is over at some point), the    *)
(* frames of a drag that captureOperationFrame adds, what the operation does. *)
(***************************************************************************)
EXTENDS Naturals, FiniteSets

CONSTANTS Recorders, None,
          Videos        \* the recorders of recordTargetVideo: no operation

ASSUME RecordersAssumption == Videos \subseteq Recorders /\ None \notin Recorders

VARIABLES
  queue,    \* the recorder whose command is at the head of pageOperationQueue
  rec,      \* the recorders
  page      \* the offscreen document

vars == <<queue, rec, page>>

\* film: whose frames were drawn on its canvas; canvas: where a frame is drawn
Fresh == [pc |-> "idle", loop |-> "none", attached |-> FALSE, first |-> FALSE, stop |-> FALSE,
          ran |-> FALSE, op |-> "none", canvas |-> None, film |-> {}, encoded |-> FALSE,
          file |-> "none", saved |-> FALSE, answer |-> "none", dropped |-> FALSE]

\* recording, the encoders that run, objectUrls
NoPage == [open |-> FALSE, active |-> None, encoders |-> {}, urls |-> {}]

Init == queue = None /\ rec = [r \in Recorders |-> Fresh] /\ page = NoPage

At(r, pc) == rec[r].pc = pc
Goto(r, pc) == rec' = [rec EXCEPT ![r].pc = pc]

\* disposeCurrent
Dispose(p) == [p EXCEPT !.active = None, !.encoders = @ \ {p.active}]

\* Slip: the document draws for whoever sends it a frame.
AnyIsActive(r) == page.open /\ page.active # None

\* requireRecording
IsActive(r) == page.open /\ page.active = r

-----------------------------------------------------------------------------
(* Starting: createTargetRecorder *)

\* Slip: a recording does not go through the page-operation queue.
BeginUnqueued(r) ==
  /\ At(r, "idle")
  /\ queue' = r
  /\ rec' = [rec EXCEPT ![r].pc = "find", ![r].attached = TRUE]
  /\ UNCHANGED page

\* The debugger session is open and the viewport known, or nothing has begun.
Begin(r) ==
  /\ At(r, "idle") /\ queue = None
  /\ queue' = r
  /\ \/ rec' = [rec EXCEPT ![r].pc = "find", ![r].attached = TRUE]
     \/ Goto(r, "detach")
  /\ UNCHANGED page

\* ensureOffscreenDocument: look for a document, create one, reset it.
Find(r) ==
  /\ At(r, "find")
  /\ Goto(r, IF page.open THEN "reset" ELSE "create")
  /\ UNCHANGED <<queue, page>>

Create(r) ==
  /\ At(r, "create")
  /\ IF page.open THEN Goto(r, "detach") /\ UNCHANGED page
     ELSE Goto(r, "reset") /\ page' = [NoPage EXCEPT !.open = TRUE]
  /\ UNCHANGED queue

Reset(r) ==
  /\ At(r, "reset")
  /\ IF page.open THEN Goto(r, "resetting") /\ page' = Dispose(page)
     ELSE Goto(r, "detach") /\ UNCHANGED page
  /\ UNCHANGED queue

ResetDone(r) ==
  /\ At(r, "resetting")
  /\ IF page.open THEN Goto(r, "start") /\ page' = [page EXCEPT !.urls = {}]
     ELSE Goto(r, "detach") /\ UNCHANGED page
  /\ UNCHANGED queue

Start(r) ==
  /\ At(r, "start")
  /\ IF page.open /\ page.active = None
     THEN /\ rec' = [rec EXCEPT ![r].pc = "first", ![r].loop = "capture"]
          /\ page' = [page EXCEPT !.active = r]
     ELSE Goto(r, "abort") /\ UNCHANGED page
  /\ UNCHANGED queue

\* Slip: a recorder that cannot start leaves the document to the next one.
FirstForgetful(r) ==
  /\ At(r, "first")
  /\ \/ rec[r].first /\ Goto(r, "preRoll")
     \/ ~rec[r].first /\ rec[r].loop = "failed" /\ Goto(r, "detach")
  /\ UNCHANGED <<queue, page>>

\* Promise.race([firstFrameReady, captureLoop])
First(r) ==
  /\ At(r, "first")
  /\ \/ rec[r].first /\ Goto(r, "preRoll")
     \/ ~rec[r].first /\ rec[r].loop = "failed" /\ Goto(r, "abort")
  /\ UNCHANGED <<queue, page>>

-----------------------------------------------------------------------------
(* The capture loop, and drawFrame in the document *)

LoopIs(r, l) == rec' = [rec EXCEPT ![r].loop = l]

\* tryCapture: without a session, behind other work or in its time there may be
\* no frame, which is no error.
Capture(r) ==
  /\ rec[r].loop = "capture"
  /\ \/ rec[r].attached /\ (LoopIs(r, "submit") \/ LoopIs(r, "failed"))
     \/ LoopIs(r, "sleep")
  /\ UNCHANGED <<queue, page>>

Submit(r) ==
  /\ rec[r].loop = "submit"
  /\ IF IsActive(r) THEN rec' = [rec EXCEPT ![r].loop = "drawing", ![r].canvas = page.active]
     ELSE LoopIs(r, "failed")
  /\ UNCHANGED <<queue, page>>

\* The frame is decoded: it goes on the canvas that was found before, whose encoder
\* the first one starts.  A frame that cannot be decoded fails as one submitted in
\* vain; a document opened again meanwhile is taken to draw it, where the code's
\* message may have died with the old one.
Draw(r) ==
  /\ rec[r].loop = "drawing"
  /\ LET c == rec[r].canvas
     IN IF ~page.open THEN LoopIs(r, "failed") /\ UNCHANGED page
        ELSE /\ rec' = [rec EXCEPT ![r].loop = "sleep", ![r].first = TRUE,
                                   ![c].film = @ \cup {r}]
             /\ page' = IF rec[c].film = {} THEN [page EXCEPT !.encoders = @ \cup {c}] ELSE page
  /\ UNCHANGED queue

Sleep(r) ==
  /\ rec[r].loop = "sleep"
  /\ LoopIs(r, IF rec[r].stop THEN "ended" ELSE "capture")
  /\ UNCHANGED <<queue, page>>

-----------------------------------------------------------------------------
(* The operation, and finish *)

\* The pre-roll is over.  The target may have changed: then nothing is run.
Enter(r) ==
  /\ At(r, "preRoll")
  /\ \E same \in BOOLEAN :
       rec' = [rec EXCEPT ![r].pc = IF same THEN "operate" ELSE "postRoll",
                          ![r].ran = same /\ r \notin Videos,
                          ![r].op = IF same THEN "none" ELSE "error"]
  /\ UNCHANGED <<queue, page>>

\* runWithRecordedTargetOutcome
Operate(r) ==
  /\ At(r, "operate")
  /\ \E outcome \in IF r \in Videos THEN {"ok"} ELSE {"ok", "error", "unknown"} :
       rec' = [rec EXCEPT ![r].pc = "postRoll", ![r].op = outcome]
  /\ UNCHANGED <<queue, page>>

\* Slip: the loop is waited for and not told to stop.
PostRollEndless(r) ==
  /\ At(r, "postRoll")
  /\ Goto(r, IF rec[r].loop = "failed" THEN "join" ELSE "drain")
  /\ UNCHANGED <<queue, page>>

PostRoll(r) ==
  /\ At(r, "postRoll")
  /\ rec' = [rec EXCEPT ![r].stop = TRUE,
                        ![r].pc = IF rec[r].loop = "failed" THEN "join" ELSE "drain"]
  /\ UNCHANGED <<queue, page>>

Over(r) == rec[r].loop \in {"ended", "failed"}

Drain(r) ==
  /\ At(r, "drain") /\ Over(r)
  /\ Goto(r, IF rec[r].loop = "ended" THEN "encode" ELSE "join")
  /\ UNCHANGED <<queue, page>>

\* stop in the document, in two steps: the second takes the active recording,
\* whichever it is by then.
Encode(r) ==
  /\ At(r, "encode")
  /\ IF IsActive(r) /\ rec[r].film # {}
     THEN Goto(r, "encoding") /\ page' = [page EXCEPT !.encoders = @ \ {r}]
     ELSE Goto(r, "join") /\ UNCHANGED page
  /\ UNCHANGED queue

\* The film is ready.  That the encoder fails instead ends as if the document had
\* been closed.
Encoded(r) ==
  /\ At(r, "encoding")
  /\ IF page.open
     THEN /\ rec' = [rec EXCEPT ![r].pc = "download", ![r].encoded = TRUE]
          /\ page' = [page EXCEPT !.active = None, !.urls = @ \cup {r}]
     ELSE Goto(r, "join") /\ UNCHANGED page
  /\ UNCHANGED queue

Download(r) ==
  /\ At(r, "download")
  /\ \/ r \in page.urls /\ rec' = [rec EXCEPT ![r].pc = "downloading", ![r].file = "partial"]
     \/ Goto(r, "join")
  /\ UNCHANGED <<queue, page>>

\* waitForDownload, and the checks of what was saved.
Downloaded(r) ==
  /\ At(r, "downloading")
  /\ \E file \in {"partial", "complete"}, saved \in BOOLEAN :
       /\ saved => file = "complete"
       /\ rec' = [rec EXCEPT ![r].pc = IF saved THEN "join" ELSE "remove",
                             ![r].file = file, ![r].saved = saved]
  /\ UNCHANGED <<queue, page>>

\* removeCommandDownload, which is best effort in the code: that Chrome cannot remove
\* the file is left out.
Remove(r) ==
  /\ At(r, "remove")
  /\ rec' = [rec EXCEPT ![r].pc = "join", ![r].file = "none"]
  /\ UNCHANGED <<queue, page>>

-----------------------------------------------------------------------------
(* close, and the end of a start that failed *)

Join(r) ==
  /\ At(r, "join") /\ Over(r)
  /\ Goto(r, IF rec[r].encoded THEN "revoke" ELSE "abort")
  /\ UNCHANGED <<queue, page>>

Abort(r) ==
  /\ At(r, "abort")
  /\ IF IsActive(r) THEN Goto(r, "aborting") /\ page' = Dispose(page)
     ELSE Goto(r, "closeDocument") /\ UNCHANGED page
  /\ UNCHANGED queue

Aborted(r) ==
  /\ At(r, "aborting")
  /\ Goto(r, "closeDocument")
  /\ UNCHANGED <<queue, page>>

Revoke(r) ==
  /\ At(r, "revoke")
  /\ Goto(r, "closeDocument")
  /\ page' = [page EXCEPT !.urls = @ \ {r}]
  /\ UNCHANGED queue

\* closeOffscreenDocument closes the document that is open.
CloseDocument(r) ==
  /\ At(r, "closeDocument")
  /\ Goto(r, "detach")
  /\ page' = NoPage
  /\ UNCHANGED queue

\* settleRecordedOperation, and what recordTargetVideo returns.
Answer(s) ==
  CASE ~s.first -> "notStarted"
    [] s.first /\ s.op = "unknown" -> "unknown"
    [] s.first /\ s.op = "error" -> "failed"
    [] s.first /\ s.op = "ok" -> IF s.saved THEN "recorded" ELSE "unrecorded"

\* The session is closed, and the command returns.
Detach(r) ==
  /\ At(r, "detach")
  /\ rec' = [rec EXCEPT ![r].pc = "done", ![r].attached = FALSE, ![r].answer = Answer(rec[r])]
  /\ queue' = IF queue = r THEN None ELSE queue
  /\ UNCHANGED page

-----------------------------------------------------------------------------
(* Losing the target *)

\* The tab is closed, or the user ends the debugger session.
Lost(r) ==
  /\ rec[r].attached
  /\ rec' = [rec EXCEPT ![r].attached = FALSE]
  /\ UNCHANGED <<queue, page>>

\* The operation is held by a browser dialog and its tab is closed, or its state is
\* recovered: handleTabRemoved and recoverInterruptedDialogState forget the operation,
\* which frees the queue and leaves its recorder to finish.
Dropped(r) ==
  /\ queue = r /\ rec[r].attached /\ r \notin Videos
  /\ queue' = None
  /\ rec' = [rec EXCEPT ![r].attached = FALSE, ![r].dropped = TRUE]
  /\ UNCHANGED page

Task(r) ==
  \/ Find(r) \/ Create(r) \/ Reset(r) \/ ResetDone(r) \/ Start(r) \/ First(r)
  \/ Enter(r) \/ Operate(r) \/ PostRoll(r) \/ Drain(r) \/ Encode(r) \/ Encoded(r)
  \/ Download(r) \/ Downloaded(r) \/ Remove(r) \/ Join(r) \/ Abort(r) \/ Aborted(r)
  \/ Revoke(r) \/ CloseDocument(r) \/ Detach(r)

Loop(r) == Capture(r) \/ Submit(r) \/ Draw(r) \/ Sleep(r)

Next == \E r \in Recorders : Begin(r) \/ Task(r) \/ Loop(r) \/ Lost(r) \/ Dropped(r)

\* Both tasks go on, the document answers, and waits and downloads have a timeout.
Fairness == \A r \in Recorders : WF_vars(Task(r)) /\ WF_vars(Loop(r))

Spec == Init /\ [][Next]_vars /\ Fairness

-----------------------------------------------------------------------------
(* Properties *)

Returned(r) == At(r, "done")

\* The mixed failure contract of docs/concepts/video-recording.md, whatever is lost
\* and however recordings overlap: a recording is reported only with its file, which
\* holds frames of its own target alone; no file is left of one that failed; and
\* "did not start" means that the operation has not run.
RecordedTruly ==
  \A r \in Recorders : Returned(r) =>
    /\ rec[r].file = IF rec[r].saved THEN "complete" ELSE "none"
    /\ rec[r].saved => rec[r].film = {r}
    /\ rec[r].answer = "recorded" => rec[r].saved
    /\ rec[r].answer = "notStarted" => ~rec[r].ran

\* When all recordings have returned, the offscreen document is closed and no tab is
\* left under the debugger, however far each of them came.
AllGivenBack ==
  (\A r \in Recorders : rec[r].pc \in {"idle", "done"})
    => page = NoPage /\ \A r \in Recorders : ~rec[r].attached

\* From its first frame to its last a recording is the one the document encodes.
Encodes(r) ==
  (rec[r].first \/ At(r, "first")) /\ rec[r].pc \in {"first", "preRoll", "operate", "postRoll", "drain", "encode"}
    => IsActive(r) /\ page.encoders \subseteq {r}

\* The page-operation queue alone keeps recordings apart: as long as no operation is
\* dropped on the way, nobody resets, stops or closes the document of another.
QueueKeepsApart ==
  (\A r \in Recorders : ~rec[r].dropped) => \A r \in Recorders : Encodes(r)

\* A recording that has begun comes to its end, whatever becomes of its tab, its
\* document and its file, and with it the command that holds the queue.
RecordingReturns == \A r \in Recorders : rec[r].first ~> Returned(r)

\* video-recording.md: "Any detach, tab close, target change, protocol failure, or
\* cancellation must stop capture and execute best-effort final cleanup".  A start that
\* waits for its first frame ends when the session that is to provide it is gone.
DetachEndsStart ==
  \A r \in Recorders : (At(r, "first") /\ ~rec[r].attached) ~> ~At(r, "first")

=============================================================================
