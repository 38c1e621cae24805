---------------------------- MODULE ChatSession ----------------------------
(***************************************************************************)
(* Research sessions: the chat stream, the background task that stores the *)
(* assistant's turn, and the create, rename and delete requests of         *)
(* services/research_service.py, over the sessions and messages tables.    *)
(*                                                                         *)
(* A step is what runs between two awaits that other requests can notice.  *)
(* All requests are the owner's: for anybody else get_owned finds nothing. *)
(* created_at is the start of the inserting transaction, so that messages  *)
(* may be committed in another order than they sort in.                    *)
(***************************************************************************)
EXTENDS Naturals, Sequences, FiniteSets

CONSTANTS Sessions,      \* ids of research sessions: each is created once
          Chats,         \* POST /chat requests: each is served once
          Renames,       \* PATCH /session requests
          Titles,        \* the titles that occur
          DefaultTitle,  \* "New research chat"
          TitleFrom,     \* of each chat, the trimmed and shortened content
          NewTitle,      \* of each rename, the title it carries
          NoSession,     \* what a request that has not started is about
          Window,        \* HISTORY_WINDOW
          Faults         \* the failures this instance is exposed to

FaultKinds == {"disconnect", "db", "crash"}

ASSUME ConstantsAssumption ==
    /\ DefaultTitle \in Titles
    /\ TitleFrom \in [Chats -> Titles]
    /\ NewTitle \in [Renames -> Titles]
    /\ Faults \subseteq FaultKinds
    /\ Window \in Nat \ {0}
    /\ NoSession \notin Sessions
    /\ IsFiniteSet(Chats)

VARIABLES state,   \* of each session: "unused", "draft" (uncommitted), "live" or "deleted"
          title,   \* title of each session
          msgs,    \* committed messages
          chat,    \* progress and local variables of each chat
          ren,     \* progress and local variables of each rename
          clock    \* transaction start times handed out so far

vars == <<state, title, msgs, chat, ren, clock>>

\* chat.pc: stream_chat runs in "idle" .. "closing", then the background task
\* in "pending" .. "titled".
Streaming == {"begun", "recalled", "asked", "answered", "closing"}
Persisting == {"pending", "inserted", "titled"}
Over == {"refused", "aborted", "failed", "lost", "stored"}

Idle == [pc |-> "idle", sess |-> NoSession, orig |-> DefaultTitle, seen |-> DefaultTitle,
         at |-> 0, hist |-> <<>>]

Init ==
    /\ state = [s \in Sessions |-> "unused"]
    /\ title = [s \in Sessions |-> DefaultTitle]
    /\ msgs  = {}
    /\ chat  = [c \in Chats |-> Idle]
    /\ ren   = [r \in Renames |-> [pc |-> "idle", sess |-> NoSession, seen |-> DefaultTitle]]
    /\ clock = 0

------------------------------------------------------------------------------
(* MessageRepository.list_for_session *)

Of(s) == {m \in msgs : m.sess = s}

\* The messages of a set in created_at order.
Chronological(M) ==
    [i \in 1..Cardinality(M) |->
       CHOOSE m \in M : Cardinality({n \in M : n.at < m.at}) = i - 1]

\* order_by(created_at) followed by order_by(created_at.desc()) sorts by
\* created_at alone, ascending; LIMIT keeps the first rows, and the list is
\* reversed before it is returned.
ListForSession(s, limit) ==
    LET rows == SubSeq(Chronological(Of(s)), 1,
                       IF Cardinality(Of(s)) < limit THEN Cardinality(Of(s)) ELSE limit)
    IN  [i \in 1..Len(rows) |-> rows[Len(rows) + 1 - i]]

------------------------------------------------------------------------------
(* POST /session, PATCH /session/{id}, DELETE /session/{id} *)

Create(s) ==
    /\ state[s] = "unused"
    /\ state' = [state EXCEPT ![s] = "live"]
    /\ \E t \in Titles : title' = [title EXCEPT ![s] = t]
    /\ UNCHANGED <<msgs, chat, ren, clock>>

\* get_owned, for a session that exists (the others get a 404).
RenameLoad(r, s) ==
    /\ ren[r].pc = "idle"
    /\ state[s] = "live"
    /\ ren' = [ren EXCEPT ![r] = [pc |-> "loaded", sess |-> s, seen |-> title[s]]]
    /\ UNCHANGED <<state, title, msgs, chat, clock>>

\* update and commit; a row deleted since then raises StaleDataError.  An
\* attribute set to the value it was loaded with is not written.
RenameCommit(r) ==
    LET s == ren[r].sess IN
    /\ ren[r].pc = "loaded"
    /\ IF state[s] = "live"
       THEN /\ title' = [title EXCEPT ![s] = IF ren[r].seen = NewTitle[r] THEN @ ELSE NewTitle[r]]
            /\ ren'   = [ren EXCEPT ![r].pc = "done"]
       ELSE /\ ren' = [ren EXCEPT ![r].pc = "failed"]
            /\ UNCHANGED title
    /\ UNCHANGED <<state, msgs, chat, clock>>

\* A slip of Delete: the messages are not part of the cascade.
DeleteRowOnly(s) ==
    /\ state[s] = "live"
    /\ \A c \in Chats : chat[c].sess = s => chat[c].pc \notin {"inserted", "titled"}
    /\ state' = [state EXCEPT ![s] = "deleted"]
    /\ UNCHANGED <<title, msgs, chat, ren, clock>>

\* Deletes the session and everything that references it; waits for the key
\* lock that an uncommitted message of a background task holds on the row.
Delete(s) ==
    /\ state[s] = "live"
    /\ \A c \in Chats : chat[c].sess = s => chat[c].pc \notin {"inserted", "titled"}
    /\ state' = [state EXCEPT ![s] = "deleted"]
    /\ msgs'  = msgs \ Of(s)
    /\ UNCHANGED <<title, chat, ren, clock>>

------------------------------------------------------------------------------
(* stream_chat *)

\* _get_or_create_session finds the session; its title is kept in memory.
ChatBegin(c, s) ==
    /\ chat[c].pc = "idle"
    /\ state[s] = "live"
    /\ clock' = clock + 1
    /\ chat'  = [chat EXCEPT ![c] = [Idle EXCEPT !.pc = "begun", !.sess = s, !.at = clock + 1,
                                                 !.orig = title[s]]]
    /\ UNCHANGED <<state, title, msgs, ren>>

\* Without a session_id a session is created, in the same transaction.
ChatBeginNew(c, s) ==
    /\ chat[c].pc = "idle"
    /\ state[s] = "unused"
    /\ clock' = clock + 1
    /\ state' = [state EXCEPT ![s] = "draft"]
    /\ chat'  = [chat EXCEPT ![c] = [Idle EXCEPT !.pc = "begun", !.sess = s, !.at = clock + 1]]
    /\ UNCHANGED <<title, msgs, ren>>

\* The session does not exist: NotFoundError, inside the stream.
ChatNotFound(c, s) ==
    /\ chat[c].pc = "idle"
    /\ state[s] = "deleted"
    /\ chat' = [chat EXCEPT ![c].pc = "refused"]
    /\ UNCHANGED <<state, title, msgs, ren, clock>>

\* A slip of ChatRecall: the question is already in the table it reads.
RecallWithQuestion(c) ==
    LET s == chat[c].sess IN
    /\ chat[c].pc = "begun"
    /\ chat' = [chat EXCEPT ![c].pc = "recalled",
          ![c].hist = Append(ListForSession(s, Window),
                             [sess |-> s, role |-> "user", chat |-> c, at |-> chat[c].at])]
    /\ UNCHANGED <<state, title, msgs, ren, clock>>

\* _recent_history, before the question is stored.
ChatRecall(c) ==
    /\ chat[c].pc = "begun"
    /\ chat' = [chat EXCEPT ![c].pc = "recalled",
                            ![c].hist = ListForSession(chat[c].sess, Window)]
    /\ UNCHANGED <<state, title, msgs, ren, clock>>

\* A slip of ChatAsk: the message is dated ahead of the transactions begun.
AskPostdated(c) ==
    LET s == chat[c].sess IN
    /\ chat[c].pc = "recalled"
    /\ state[s] # "deleted"
    /\ chat'  = [chat EXCEPT ![c].pc = "asked"]
    /\ state' = [state EXCEPT ![s] = "live"]
    /\ msgs'  = msgs \cup {[sess |-> s, role |-> "user", chat |-> c, at |-> clock + 1]}
    /\ UNCHANGED <<title, ren, clock>>

\* The question is inserted and committed; a session deleted meanwhile makes
\* the foreign key fail.
ChatAsk(c) ==
    LET s == chat[c].sess IN
    /\ chat[c].pc = "recalled"
    /\ IF state[s] = "deleted"
       THEN /\ chat' = [chat EXCEPT ![c].pc = "failed"]
            /\ UNCHANGED <<state, msgs>>
       ELSE /\ chat'  = [chat EXCEPT ![c].pc = "asked"]
            /\ state' = [state EXCEPT ![s] = "live"]
            /\ msgs'  = msgs \cup {[sess |-> s, role |-> "user", chat |-> c, at |-> chat[c].at]}
    /\ UNCHANGED <<title, ren, clock>>

\* Planner, retriever, token stream and guardrail; a provider that fails
\* leaves a partial answer or the apology, which is judged like any other.
\* An identity question takes the same step with a fixed answer.
ChatAnswer(c) ==
    /\ chat[c].pc = "asked"
    /\ chat' = [chat EXCEPT ![c].pc = "answered"]
    /\ UNCHANGED <<state, title, msgs, ren, clock>>

\* The last events: citations, then [DONE].
ChatDone(c) ==
    /\ chat[c].pc = "answered"
    /\ chat' = [chat EXCEPT ![c].pc = "closing"]
    /\ UNCHANGED <<state, title, msgs, ren, clock>>

\* A slip of ChatSpawn: only the first answer of a session is stored.
SpawnIfUntitled(c) ==
    /\ chat[c].pc = "closing"
    /\ chat' = [chat EXCEPT ![c].pc = IF chat[c].orig = DefaultTitle THEN "pending" ELSE "failed"]
    /\ UNCHANGED <<state, title, msgs, ren, clock>>

\* The generator is resumed after [DONE] and starts the background task.
ChatSpawn(c) ==
    /\ chat[c].pc = "closing"
    /\ chat' = [chat EXCEPT ![c].pc = "pending"]
    /\ UNCHANGED <<state, title, msgs, ren, clock>>

\* What ends the stream early rolls an open transaction back.
DropDraft(c) ==
    state' = [s \in Sessions |->
                IF state[s] = "draft" /\ chat[c].sess = s THEN "deleted" ELSE state[s]]

\* The client goes away: the stream is cancelled where it waits, and a
\* cancellation is not an Exception that stream_chat handles.
ChatDisconnect(c) ==
    /\ "disconnect" \in Faults
    /\ chat[c].pc \in Streaming
    /\ chat' = [chat EXCEPT ![c].pc = "aborted"]
    /\ DropDraft(c)
    /\ UNCHANGED <<title, msgs, ren, clock>>

ChatDbFails(c) ==
    /\ "db" \in Faults
    /\ chat[c].pc \in {"begun", "recalled"}
    /\ chat' = [chat EXCEPT ![c].pc = "failed"]
    /\ DropDraft(c)
    /\ UNCHANGED <<title, msgs, ren, clock>>
------------------------------------------------------------------------------
(* _persist_assistant_turn, in a database session of its own *)

\* A slip of PersistInsert: the answer is dated like its question.
InsertAntedated(c) ==
    /\ chat[c].pc = "pending"
    /\ state[chat[c].sess] = "live"
    /\ chat' = [chat EXCEPT ![c].pc = "inserted"]
    /\ UNCHANGED <<state, title, msgs, ren, clock>>

\* The answer and its report are inserted, not yet committed.
PersistInsert(c) ==
    /\ chat[c].pc = "pending"
    /\ IF state[chat[c].sess] = "live"
       THEN /\ clock' = clock + 1
            /\ chat'  = [chat EXCEPT ![c].pc = "inserted", ![c].at = clock + 1]
       ELSE /\ chat' = [chat EXCEPT ![c].pc = "lost"]
            /\ UNCHANGED clock
    /\ UNCHANGED <<state, title, msgs, ren>>

\* get_by_id reads the session's current title.
PersistLoad(c) ==
    /\ chat[c].pc = "inserted"
    /\ chat' = [chat EXCEPT ![c].pc = "titled", ![c].seen = title[chat[c].sess]]
    /\ UNCHANGED <<state, title, msgs, ren, clock>>

\* A slip of DeriveTitle: the title is derived whatever the session is called.
DeriveAlways(current, c) == TitleFrom[c]

\* The content may well be "New research chat" itself, or white space.
DeriveTitle(current, c) == IF current # DefaultTitle THEN current ELSE TitleFrom[c]

\* A slip of PersistCommit: the task is run again after a commit whose reply
\* was lost.
CommitAndRetry(c) ==
    /\ chat[c].pc = "titled"
    /\ chat' = [chat EXCEPT ![c].pc = "pending"]
    /\ msgs' = msgs \cup {[sess |-> chat[c].sess, role |-> "assistant", chat |-> c,
                           at |-> chat[c].at]}
    /\ UNCHANGED <<state, title, ren, clock>>

\* The title derived from the one stream_chat loaded replaces the row's,
\* unless it is the one just read, and everything is committed.
PersistCommit(c) ==
    LET s == chat[c].sess
        t == DeriveTitle(chat[c].orig, c)
    IN
    /\ chat[c].pc = "titled"
    /\ chat'  = [chat EXCEPT ![c].pc = "stored"]
    /\ title' = [title EXCEPT ![s] = IF chat[c].seen = t THEN @ ELSE t]
    /\ msgs'  = msgs \cup {[sess |-> s, role |-> "assistant", chat |-> c, at |-> chat[c].at]}
    /\ UNCHANGED <<state, ren, clock>>

\* Any exception is logged and swallowed.
PersistDbFails(c) ==
    /\ "db" \in Faults
    /\ chat[c].pc \in Persisting
    /\ chat' = [chat EXCEPT ![c].pc = "lost"]
    /\ UNCHANGED <<state, title, msgs, ren, clock>>

------------------------------------------------------------------------------
\* The process dies: streams, background tasks and open transactions with it.
Crash ==
    /\ "crash" \in Faults
    /\ state' = [s \in Sessions |-> IF state[s] = "draft" THEN "deleted" ELSE state[s]]
    /\ chat'  = [c \in Chats |-> [chat[c] EXCEPT !.pc =
                   IF @ \in Streaming THEN "aborted" ELSE IF @ \in Persisting THEN "lost" ELSE @]]
    /\ ren'   = [r \in Renames |-> [ren[r] EXCEPT !.pc = IF @ = "loaded" THEN "failed" ELSE @]]
    /\ UNCHANGED <<title, msgs, clock>>

ChatStep(c) == ChatRecall(c) \/ ChatAsk(c) \/ ChatAnswer(c) \/ ChatDone(c) \/ ChatSpawn(c)
PersistStep(c) == PersistInsert(c) \/ PersistLoad(c) \/ PersistCommit(c)

Next == \/ \E s \in Sessions : Create(s) \/ Delete(s)
        \/ \E r \in Renames, s \in Sessions : RenameLoad(r, s)
        \/ \E r \in Renames : RenameCommit(r)
        \/ \E c \in Chats, s \in Sessions : ChatBegin(c, s) \/ ChatBeginNew(c, s) \/ ChatNotFound(c, s)
        \/ \E c \in Chats : ChatStep(c) \/ ChatDisconnect(c) \/ ChatDbFails(c)
        \/ \E c \in Chats : PersistStep(c) \/ PersistDbFails(c)
        \/ Crash

\* The event loop resumes what can run; the provider and the database answer.
Fairness == /\ \A c \in Chats : WF_vars(ChatStep(c)) /\ WF_vars(PersistStep(c))
            /\ \A r \in Renames : WF_vars(RenameCommit(r))

Spec == Init /\ [][Next]_vars /\ Fairness

------------------------------------------------------------------------------
Asked(c, s) == \E m \in msgs : m.chat = c /\ m.role = "user" /\ m.sess = s
Answered(c) == \E m \in msgs : m.chat = c /\ m.role = "assistant"

Messages == [sess : Sessions, role : {"user", "assistant"}, chat : Chats, at : 1..clock]

\* Every variable keeps to its values.
TypeOK ==
    /\ state \in [Sessions -> {"unused", "draft", "live", "deleted"}]
    /\ title \in [Sessions -> Titles]
    /\ clock \in Nat
    /\ msgs \subseteq Messages
    /\ chat \in [Chats -> [pc : {"idle"} \cup Streaming \cup Persisting \cup Over,
                           sess : Sessions \cup {NoSession}, orig : Titles, seen : Titles,
                           at : 0..clock, hist : Seq(Messages)]]
    /\ ren \in [Renames -> [pc : {"idle", "loaded", "done", "failed"},
                            sess : Sessions \cup {NoSession}, seen : Titles]]

\* A stored answer stands in its question's session and sorts after it, although
\* another transaction and another database session store it.
AnswerAfterQuestion ==
    \A m \in msgs : m.role = "assistant" =>
        \E q \in msgs : q.role = "user" /\ q.chat = m.chat /\ q.sess = m.sess /\ q.at < m.at

\* A message never outlives its session: not when the session is deleted while
\* a stream runs or while its background task is about to commit.
NoOrphanMessages == \A m \in msgs : state[m.sess] = "live"

\* The history sent to the model is of the chat's own session and never
\* contains the question itself, which build_messages appends once more.
HistoryBeforeQuestion ==
    \A c \in Chats : \A i \in 1..Len(chat[c].hist) :
        chat[c].hist[i].chat # c /\ chat[c].hist[i].sess = chat[c].sess

\* A session has a title of its own, and every chat that may still write one
\* began under it.
Settled(s) ==
    /\ state[s] = "live" /\ title[s] # DefaultTitle
    /\ \A c \in Chats : chat[c].sess = s /\ chat[c].pc \in Streaming \cup Persisting
                            => chat[c].orig = title[s]

RenameDone(s) == \E r \in Renames : ren[r].sess = s /\ ren[r].pc = "loaded" /\ ren'[r].pc = "done"

\* A background task overwrites only the titles its own chat did not know of.
\* Once no chat is under way that began under another title, the title stays
\* until a rename or the end of the session, whatever later chats ask and
\* however their tasks overlap with each other.
TitleSettles ==
    [][\A s \in Sessions : Settled(s) =>
          \/ Settled(s)' /\ title'[s] = title[s]
          \/ RenameDone(s)
          \/ state'[s] = "deleted"]_vars

\* What somebody has called a session it is called until somebody calls it
\* otherwise.
RenameStays ==
    [][\A s \in Sessions :
          (\E r \in Renames : ren[r].sess = s /\ ren[r].pc = "done" /\ title[s] = NewTitle[r])
             => title'[s] = title[s] \/ RenameDone(s)]_vars

\* A stored question has its answer, or a stream or a background task that is
\* going to store it; only a failure of the client, the process or the database
\* leaves it with neither, never an overlapping chat, rename or delete.
AnswerIsUnderWay ==
    \A c \in Chats, s \in Sessions : Asked(c, s) =>
        \/ Answered(c)
        \/ chat[c].pc \in {"asked", "answered", "closing"} \cup Persisting
        \/ chat[c].pc = "aborted" /\ Faults \cap {"disconnect", "crash"} # {}
        \/ chat[c].pc = "lost" /\ Faults \cap {"db", "crash"} # {}

\* A chat whose question was stored gets its answer stored.  What may prevent it
\* is that the session is deleted, that the client leaves before the stream is
\* over, or that the process or the database fails under the stream or the
\* background task - never another chat, a rename or the title.
EveryQuestionAnswered ==
    \A c \in Chats : (\E s \in Sessions : Asked(c, s))
                        ~> \/ Answered(c)
                           \/ \E s \in Sessions : chat[c].sess = s /\ state[s] = "deleted"
                           \/ chat[c].pc \in {"aborted", "lost"}

------------------------------------------------------------------------------
\* The tables as the user's conversations.
Listed == {s \in Sessions : state[s] = "live"}
Gone   == {s \in Sessions : state[s] = "deleted"}

Conversation == INSTANCE Conversation WITH open <- Listed, closed <- Gone, log <- msgs

\* Streams, background tasks, renames, deletes and every failure together amount
\* to a conversation: a question is stored once, answered at most once and later
\* than it was asked, and nothing of it comes back once its session is deleted.
ImplementsConversation == Conversation!Spec

------------------------------------------------------------------------------
\* HISTORY_WINDOW: "most recent messages fed back to the LLM as context".
MostRecent(M) ==
    LET all == Chronological(M)
        k   == IF Len(all) < Window THEN 0 ELSE Len(all) - Window
    IN  SubSeq(all, k + 1, Len(all))

\* What a chat sends as history is the most recent messages of the session in
\* the order of the conversation.
HistoryIsMostRecent ==
    [][\A c \in Chats : ChatRecall(c) => chat'[c].hist = MostRecent(Of(chat[c].sess))]_vars
=============================================================================
