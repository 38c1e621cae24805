--------------------------- MODULE ConnectionPool ---------------------------
(***************************************************************************)
(* Who holds a pooled database connection, and for how long: the engine    *)
(* and get_db of database/session.py under the endpoints, the chat stream  *)
(* and the two kinds of background work.                                   *)
(*                                                                         *)
(* A session checks a connection out with its first statement and gives it *)
(* back when its transaction ends.  FastAPI leaves get_db once the path    *)
(* function has returned, before a stream or a background task runs, so    *)
(* that stream_chat uses a session that has already been closed: it simply *)
(* begins again, and nobody closes it a second time.                       *)
(***************************************************************************)
EXTENDS Naturals, FiniteSets

CONSTANTS Public,   \* requests without a user: the sign-in endpoints, /health
          Members,  \* requests of a user that do all their work before they answer
          Uploads,  \* POST /documents/upload, each followed by its task
          Chats,    \* POST /research/chat, each followed by stream and storing
          Size      \* connections the pool gives out: pool_size + max_overflow

Requests == Public \cup Members \cup Uploads \cup Chats
Known == Members \cup Uploads \cup Chats

ASSUME ConstantsAssumption ==
    /\ Size \in Nat \ {0}
    /\ Public \cap Known = {}
    /\ Members \cap (Uploads \cup Chats) = {}
    /\ Uploads \cap Chats = {}

VARIABLES pc,   \* where each request stands
          held  \* the sessions that hold a connection

vars == <<pc, held>>

\* The session get_db makes, and the one a background task opens for itself.
Bound(r) == <<r, "request">>
Own(r)   == <<r, "own">>

\* In these places the next statement needs a connection of the pool.
Wants == {"entering", "authenticating", "rereading", "opening", "queued", "persisting"}
Works == {"authenticated", "working", "committed", "reading", "preparing", "answering",
          "embedding", "storing"}

Init == pc = [r \in Requests |-> "idle"] /\ held = {}

Goto(r, place) == pc' = [pc EXCEPT ![r] = place]

Checkout(s) == /\ Cardinality(held) < Size
               /\ held' = held \cup {s}
Return(s) == held' = held \ {s}

------------------------------------------------------------------------------
(* A request up to its answer *)

\* Without a user the IP limit comes first; with one, get_current_user does.
\* A request turned away before its first statement never meets the pool.
Arrive(r) == /\ pc[r] = "idle"
             /\ Goto(r, IF r \in Public THEN "entering" ELSE "authenticating")
             /\ UNCHANGED held

Enter(r) == pc[r] = "entering" /\ Checkout(Bound(r)) /\ Goto(r, "working")

\* get_current_user reads the user; its transaction stays open through the
\* rate limit and all the service awaits before it commits.
Authenticate(r) == pc[r] = "authenticating" /\ Checkout(Bound(r)) /\ Goto(r, "authenticated")

PassLimit(r) == pc[r] = "authenticated" /\ Goto(r, "working") /\ UNCHANGED held

ServiceCommit(r) == /\ r \notin Chats
                    /\ pc[r] = "working"
                    /\ Return(Bound(r))
                    /\ Goto(r, "committed")

\* rename_session counts the messages after its commit, and a Google sign-in
\* goes on after it has dropped a dead link.
ReadAgain(r) == /\ r \in Public \cup Members
                /\ pc[r] = "committed"
                /\ Goto(r, "rereading")
                /\ UNCHANGED held

Reread(r) == pc[r] = "rereading" /\ Checkout(Bound(r)) /\ Goto(r, "reading")

\* What runs once get_db has been left.
Afterwards(r) == IF r \in Uploads THEN "queued" ELSE IF r \in Chats THEN "opening" ELSE "over"

\* The path function returns and get_db closes the session.  An upload
\* returns after its commit, a chat without having touched the database.
Respond(r) == /\ pc[r] \in IF r \in Uploads THEN {"committed"}
                           ELSE {"working", "committed", "reading"}
              /\ Return(Bound(r))
              /\ Goto(r, Afterwards(r))

\* An exception of a dependency or of the path function: get_db rolls back.
Fail(r) == /\ pc[r] \in {"authenticated", "working", "committed", "reading"}
           /\ Return(Bound(r))
           /\ Goto(r, "over")

------------------------------------------------------------------------------
(* stream_chat and _persist_assistant_turn *)

OpenStream(r) == pc[r] = "opening" /\ Checkout(Bound(r)) /\ Goto(r, "preparing")

\* A slip of CommitQuestion: the question is flushed and not committed.
FlushQuestion(r) == pc[r] = "preparing" /\ Goto(r, "answering") /\ UNCHANGED held

\* The commit of the question; the stream touches the database no more.
CommitQuestion(r) == pc[r] = "preparing" /\ Return(Bound(r)) /\ Goto(r, "answering")

\* [DONE] has been read: asyncio.create_task.
SpawnPersist(r) == pc[r] = "answering" /\ Goto(r, "persisting") /\ UNCHANGED held

\* A slip of StreamBreaks: the session is kept where it is never collected.
BreakAndKeep(r) == /\ pc[r] \in {"opening", "preparing", "answering"}
                   /\ Goto(r, "over")
                   /\ UNCHANGED held

\* The client goes away, the session is not found or the database fails: no
\* handler ends the transaction of the stream.
StreamBreaks(r) == /\ pc[r] \in {"opening", "preparing", "answering"}
                   /\ Goto(r, IF pc[r] = "preparing" THEN "abandoned" ELSE "over")
                   /\ UNCHANGED held

\* The abandoned session is garbage: its connection is terminated and its
\* place in the pool is free again.
Collect(r) == pc[r] = "abandoned" /\ Return(Bound(r)) /\ Goto(r, "over")

Persist(r) == pc[r] = "persisting" /\ Checkout(Own(r)) /\ Goto(r, "storing")

\* Commit, or an exception: either way the session's context is left.
PersistEnds(r) == pc[r] = "storing" /\ Return(Own(r)) /\ Goto(r, "over")

------------------------------------------------------------------------------
(* process_document_task *)

\* The document is loaded; the transaction stays open while it is parsed and
\* its chunks are embedded.
TaskBegins(r) == pc[r] = "queued" /\ Checkout(Own(r)) /\ Goto(r, "embedding")

TaskEnds(r) == pc[r] = "embedding" /\ Return(Own(r)) /\ Goto(r, "over")

------------------------------------------------------------------------------
\* Nothing has come free within pool_timeout: the statement raises, and what
\* was waiting ends.
TimesOut(r) == /\ pc[r] \in Wants
               /\ Cardinality(held) = Size
               /\ Goto(r, "over")
               /\ UNCHANGED held

RequestStep(r) == \/ Enter(r) \/ Authenticate(r) \/ PassLimit(r) \/ ServiceCommit(r)
                  \/ ReadAgain(r) \/ Reread(r) \/ Respond(r) \/ Fail(r)
StreamStep(r) == OpenStream(r) \/ CommitQuestion(r) \/ Collect(r) \/ Persist(r) \/ PersistEnds(r)
TaskStep(r) == TaskBegins(r) \/ TaskEnds(r)

Next == \E r \in Requests : \/ Arrive(r) \/ RequestStep(r) \/ StreamStep(r)
                            \/ TaskStep(r) \/ SpawnPersist(r) \/ StreamBreaks(r) \/ TimesOut(r)

\* The event loop, the database, Redis, mail and the embedding provider go on,
\* and garbage is collected.  Not assumed: that an answer ever ends (the model
\* may hang, the client may not read on), and that a wait times out.
Fairness == \A r \in Requests : WF_vars(RequestStep(r) \/ StreamStep(r) \/ TaskStep(r))

Spec == Init /\ [][Next]_vars /\ Fairness

------------------------------------------------------------------------------
\* Every variable keeps to its values, and the pool to its size.
TypeOK ==
    /\ pc \in [Requests -> {"idle", "abandoned", "over"} \cup Wants \cup Works]
    /\ held \subseteq Requests \X {"request", "own"}
    /\ IsFiniteSet(held) /\ Cardinality(held) <= Size

\* Nobody waits for a connection while holding one, not with the session of
\* the request and not with another of his own: the pool cannot deadlock.
NoHoldAndWait == \A r \in Requests : pc[r] \in Wants => Bound(r) \notin held /\ Own(r) \notin held

\* What is over or waits for a model holds nothing: every path out of a
\* request, a stream or a task gives its connection back.
IdleHoldsNothing ==
    \A r \in Requests : pc[r] \in {"idle", "answering", "over"}
                           => Bound(r) \notin held /\ Own(r) \notin held

\* Whoever waits for a connection is served without the help of the timeout,
\* even when every answer in progress hangs.
EveryoneServed == \A r \in Requests : pc[r] \in Wants ~> pc[r] \notin Wants
=============================================================================
