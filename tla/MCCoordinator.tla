--------------------------- MODULE MCCoordinator ---------------------------
(* Coordinator instantiated for TLC, with its refinement of ExclusiveBrowser. *)
EXTENDS Coordinator

CONSTANTS Nobody

ASSUME NobodyFresh == Nobody \notin Singles \cup Sessions

\* The holder of the grant in force.
Holder ==
  IF activeSession # NoLease THEN activeSession
  ELSE IF singleActive THEN CHOOSE r \in Singles : Granted(r)
  ELSE Nobody

\* The line as clients see it: requests whose future is still pending, in the
\* order in which they stand in the deque.
Waiting == {r \in Requests : phase[r] = "waiting"}
Ahead(q, r) == \E i, j \in DOMAIN waiters : i < j /\ waiters[i] = q /\ waiters[j] = r
Before == {e \in Waiting \X Waiting : Ahead(e[1], e[2])}

Exclusive == INSTANCE ExclusiveBrowser
             WITH holder <- Holder, waiting <- Waiting, before <- Before

\* The coordinator implements the exclusive browser: one holder, first come
\* first served, over dead futures left in the deque, grants that race with
\* timeouts and leases that outlive their release.
ImplementsExclusiveBrowser == Exclusive!Spec

=============================================================================
