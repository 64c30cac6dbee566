-------------------------- MODULE ExclusiveBrowser --------------------------
(***************************************************************************)
(* What the operation coordinator promises, without how it keeps it: the   *)
(* browser has one holder at a time, requests get it strictly in the order  *)
(* in which they arrived, those that give up are forgotten at once, and the *)
(* browser is free only while nobody waits.  The line is an order on the    *)
(* requests in it, so that nothing is said of how one is stored.            *)
(***************************************************************************)

CONSTANTS Requests, Nobody

VARIABLES
  holder,   \* the request that has the browser
  waiting,  \* the requests in the line
  before    \* the pairs of requests in the line of which the first came first

avars == <<holder, waiting, before>>

Init == holder = Nobody /\ waiting = {} /\ before = {}

\* The order b as far as it concerns the requests in w.
Among(b, w) == b \cap (w \X w)

\* The browser goes to the first in the line w, or stays free when it is empty.
PassTo(w, b) ==
  IF w = {}
  THEN holder' = Nobody /\ waiting' = {} /\ before' = {}
  ELSE \E r \in w :
         /\ \A q \in w : <<q, r>> \notin b
         /\ holder' = r
         /\ waiting' = w \ {r}
         /\ before' = Among(b, w \ {r})

\* A request joins the line, and is served at once if the browser is free.
Arrive(r) ==
  LET w == waiting \cup {r}
      b == before \cup (waiting \X {r})
  IN /\ r \notin waiting
     /\ IF holder = Nobody
        THEN PassTo(w, b)
        ELSE waiting' = w /\ before' = b /\ UNCHANGED holder

\* A request in the line gives up its place.
Leave(r) ==
  /\ r \in waiting
  /\ waiting' = waiting \ {r}
  /\ before' = Among(before, waiting \ {r})
  /\ UNCHANGED holder

\* The holder is done, or has lost the browser: the next in line has it.
HandOver ==
  /\ holder # Nobody
  /\ PassTo(waiting, before)

\* The service stops: whoever waits is turned away.
TurnAway ==
  /\ waiting' = {} /\ before' = {}
  /\ UNCHANGED holder

Next ==
  \/ \E r \in Requests : Arrive(r) \/ Leave(r)
  \/ HandOver
  \/ TurnAway

Spec == Init /\ [][Next]_avars

=============================================================================
