-------------------------- MODULE ChatSessionProofs --------------------------
(***************************************************************************)
(* For any number of sessions, chats and renames, any window and every     *)
(* combination of faults: what ties the messages table to the sessions,    *)
(* the streams and the background tasks of ChatSession, what the history   *)
(* of a chat holds, and that all this amounts to a Conversation.           *)
(***************************************************************************)
EXTENDS ChatSession, FiniteSetTheorems, FunctionTheorems, TLAPS

\* The fields of a chat's locals, and their types but for hist.
ShapePart ==
    /\ DOMAIN chat = Chats /\ DOMAIN state = Sessions /\ DOMAIN title = Sessions
    /\ clock \in Nat
    /\ \A c \in Chats : /\ DOMAIN chat[c] = {"pc", "sess", "orig", "seen", "at", "hist"}
                        /\ chat[c].at \in 0..clock

Asking    == {"begun", "recalled"}
Answering == {"asked", "answered", "closing", "pending", "inserted", "titled"}

\* A chat under way has a session, which can no longer be a draft once the
\* question is stored.
SessPart(c) ==
    /\ chat[c].pc \in Asking \cup Answering => chat[c].sess \in Sessions
    /\ chat[c].pc \in Answering => state[chat[c].sess] \in {"live", "deleted"}
    /\ chat[c].pc \in {"inserted", "titled"} => state[chat[c].sess] = "live"

\* The stored question of a chat, before the moment from which its answer dates.
Question(c, q) ==
    /\ q \in msgs /\ q.role = "user" /\ q.chat = c /\ q.sess = chat[c].sess
    /\ chat[c].pc \in {"inserted", "titled"} => q.at < chat[c].at

\* As long as its session lives the question of a chat is there.
QuestionPart(c) ==
    chat[c].pc \in Answering /\ state[chat[c].sess] = "live" => \E q \in msgs : Question(c, q)

MessagePart == \A m \in msgs : m.sess \in Sessions /\ m.at \in 0..clock

ChatInv == /\ ShapePart
           /\ \A c \in Chats : SessPart(c) /\ QuestionPart(c)
           /\ MessagePart
           /\ NoOrphanMessages
           /\ AnswerAfterQuestion

\* A step of one chat leaves the others where they are.
OthersKept(c) == \A e \in Chats \ {c} : chat'[e] = chat[e]

------------------------------------------------------------------------------
\* Before the first request the tables are empty.
LEMMA InvInit == Init => ChatInv
BY DEF Init, Idle, ChatInv, ShapePart, SessPart, QuestionPart, MessagePart, NoOrphanMessages,
       AnswerAfterQuestion, Asking, Answering

\* A step that leaves sessions, messages and the clock alone keeps the invariant
\* if it moves one chat on without changing what is known of its question.
LEMMA QuietStep ==
    ASSUME ChatInv, NEW c \in Chats,
           UNCHANGED <<state, title, msgs, clock>>,
           DOMAIN chat' = Chats, OthersKept(c),
           DOMAIN chat'[c] = {"pc", "sess", "orig", "seen", "at", "hist"},
           chat'[c].at = chat[c].at, chat'[c].sess = chat[c].sess,
           \/ chat'[c].pc \notin Asking \cup Answering
           \/ chat[c].pc \in Asking /\ chat'[c].pc \in Asking
           \/ chat[c].pc \in Answering /\ chat'[c].pc \in Answering \ {"inserted", "titled"}
           \/ chat[c].pc \in {"inserted", "titled"} /\ chat'[c].pc \in {"inserted", "titled"}
    PROVE  ChatInv'
<1> USE DEF ChatInv, OthersKept, Asking, Answering
<1>1. ShapePart'
  BY DEF ShapePart
<1>2. \A e \in Chats : SessPart(e)'
  BY DEF SessPart
<1>3. \A e \in Chats : QuestionPart(e)'
  <2> SUFFICES ASSUME NEW e \in Chats, chat'[e].pc \in Answering, state[chat'[e].sess] = "live"
               PROVE  \E q \in msgs' : Question(e, q)'
    BY DEF QuestionPart
  <2>1. PICK q \in msgs : Question(e, q)
    BY DEF QuestionPart
  <2>2. Question(e, q)'
    BY <2>1 DEF Question
  <2>3. QED
    BY <2>2 DEF Question
<1>4. MessagePart' /\ NoOrphanMessages' /\ AnswerAfterQuestion'
  BY DEF MessagePart, NoOrphanMessages, AnswerAfterQuestion
<1>5. QED
  BY <1>1, <1>2, <1>3, <1>4

\* The steps of a stream between its question and its background task, and what
\* ends one without touching a table.
LEMMA QuietSteps ==
    ASSUME ChatInv, NEW c \in Chats,
           \/ ChatRecall(c) \/ ChatAnswer(c) \/ ChatDone(c) \/ ChatSpawn(c)
           \/ PersistLoad(c) \/ PersistDbFails(c) \/ \E s \in Sessions : ChatNotFound(c, s)
    PROVE  ChatInv'
<1> USE DEF ChatRecall, ChatAnswer, ChatDone, ChatSpawn, PersistLoad, PersistDbFails, ChatNotFound
<1>1. UNCHANGED <<state, title, msgs, clock>>
  OBVIOUS
<1>2. DOMAIN chat' = Chats /\ OthersKept(c)
  BY DEF ChatInv, ShapePart, OthersKept
<1>3. /\ DOMAIN chat'[c] = {"pc", "sess", "orig", "seen", "at", "hist"}
      /\ chat'[c].at = chat[c].at /\ chat'[c].sess = chat[c].sess
  BY DEF ChatInv, ShapePart
<1>4. \/ chat'[c].pc \notin Asking \cup Answering
      \/ chat[c].pc \in Asking /\ chat'[c].pc \in Asking
      \/ chat[c].pc \in Answering /\ chat'[c].pc \in Answering \ {"inserted", "titled"}
      \/ chat[c].pc \in {"inserted", "titled"} /\ chat'[c].pc \in {"inserted", "titled"}
  BY DEF ChatInv, ShapePart, Asking, Answering
<1>5. QED
  BY <1>1, <1>2, <1>3, <1>4, QuietStep

\* Sessions come, are renamed and go; a delete takes the messages with it and
\* waits for the background task that has inserted one.
LEMMA SessionSteps ==
    ASSUME ChatInv,
           \/ \E s \in Sessions : Create(s) \/ Delete(s)
           \/ \E r \in Renames : RenameCommit(r) \/ \E s \in Sessions : RenameLoad(r, s)
    PROVE  ChatInv'
<1> USE DEF ChatInv
<1>1. ASSUME NEW s \in Sessions, Create(s) PROVE ChatInv'
  <2> USE <1>1 DEF Create
  <2>1. ShapePart'
    BY DEF ShapePart
  <2>2. \A e \in Sessions : state[e] \in {"live", "deleted"} => state'[e] = state[e]
    BY DEF ShapePart
  <2>3. \A c \in Chats : SessPart(c)'
    BY <2>2 DEF SessPart, Asking, Answering
  <2>4. \A c \in Chats : QuestionPart(c)'
    BY <2>2 DEF QuestionPart, SessPart, Question, Asking, Answering
  <2>5. MessagePart' /\ NoOrphanMessages' /\ AnswerAfterQuestion'
    BY <2>2 DEF MessagePart, NoOrphanMessages, AnswerAfterQuestion
  <2>6. QED
    BY <2>1, <2>3, <2>4, <2>5
<1>2. ASSUME NEW s \in Sessions, Delete(s) PROVE ChatInv'
  <2> USE <1>2 DEF Delete
  <2>1. ShapePart'
    BY DEF ShapePart
  <2>2. state'[s] = "deleted" /\ \A e \in Sessions \ {s} : state'[e] = state[e]
    BY DEF ShapePart
  <2>3. \A c \in Chats : SessPart(c)'
    BY <2>2 DEF SessPart, Asking, Answering
  <2>4. \A c \in Chats : QuestionPart(c)'
    <3> SUFFICES ASSUME NEW c \in Chats, chat[c].pc \in Answering, state'[chat[c].sess] = "live"
                 PROVE  \E q \in msgs' : Question(c, q)'
      BY DEF QuestionPart
    <3>1. chat[c].sess # s /\ state[chat[c].sess] = "live"
      BY <2>2 DEF SessPart, Asking, Answering
    <3>2. PICK q \in msgs : Question(c, q)
      BY <3>1 DEF QuestionPart
    <3>3. q \in msgs'
      BY <3>1, <3>2 DEF Question, Of
    <3>4. QED
      BY <3>2, <3>3 DEF Question
  <2>5. MessagePart' /\ NoOrphanMessages'
    BY <2>2 DEF MessagePart, NoOrphanMessages, Of
  <2>6. AnswerAfterQuestion'
    BY DEF AnswerAfterQuestion, Of
  <2>7. QED
    BY <2>1, <2>3, <2>4, <2>5, <2>6
<1>3. ASSUME NEW r \in Renames, RenameCommit(r) \/ \E s \in Sessions : RenameLoad(r, s) PROVE ChatInv'
  <2>1. UNCHANGED <<state, msgs, chat, clock>> /\ DOMAIN title' = Sessions
    BY <1>3 DEF RenameCommit, RenameLoad, ShapePart
  <2>2. ShapePart' /\ MessagePart' /\ NoOrphanMessages' /\ AnswerAfterQuestion'
    BY <2>1 DEF ShapePart, MessagePart, NoOrphanMessages, AnswerAfterQuestion
  <2>3. \A c \in Chats : SessPart(c)' /\ QuestionPart(c)'
    BY <2>1 DEF SessPart, QuestionPart, Question
  <2>4. QED
    BY <2>2, <2>3
<1>4. QED
  BY <1>1, <1>2, <1>3

\* A stream begins with a session that is there, or with a draft of its own.
LEMMA BeginSteps ==
    ASSUME ChatInv, NEW c \in Chats, NEW s \in Sessions, ChatBegin(c, s) \/ ChatBeginNew(c, s)
    PROVE  ChatInv'
<1> USE DEF ChatInv
<1>1. /\ chat'[c].pc = "begun" /\ chat'[c].sess = s /\ chat'[c].at = clock + 1
      /\ DOMAIN chat'[c] = {"pc", "sess", "orig", "seen", "at", "hist"}
      /\ OthersKept(c) /\ DOMAIN chat' = Chats /\ clock' = clock + 1 /\ UNCHANGED <<title, msgs>>
  BY DEF ChatBegin, ChatBeginNew, Idle, OthersKept, ShapePart
<1>2. /\ DOMAIN state' = Sessions
      /\ \A e \in Sessions : state[e] \in {"live", "deleted"} => state'[e] = state[e]
      /\ \A e \in Sessions : state'[e] = "live" => state[e] = "live"
  BY DEF ChatBegin, ChatBeginNew, ShapePart
<1>3. ShapePart'
  BY <1>1, <1>2 DEF ShapePart, OthersKept
<1>4. \A e \in Chats : SessPart(e)'
  BY <1>1, <1>2 DEF SessPart, OthersKept, Asking, Answering
<1>5. \A e \in Chats : QuestionPart(e)'
  BY <1>1, <1>2 DEF QuestionPart, Question, SessPart, OthersKept, Asking, Answering
<1>6. MessagePart' /\ NoOrphanMessages' /\ AnswerAfterQuestion'
  BY <1>1, <1>2 DEF MessagePart, NoOrphanMessages, AnswerAfterQuestion, ShapePart
<1>7. QED
  BY <1>3, <1>4, <1>5, <1>6

\* The question is stored, and with it the draft; or its session is gone.
LEMMA AskStep == ASSUME ChatInv, NEW c \in Chats, ChatAsk(c) PROVE ChatInv'
<1> USE DEF ChatInv
<1> DEFINE s == chat[c].sess
           m == [sess |-> s, role |-> "user", chat |-> c, at |-> chat[c].at]
<1>1. chat[c].pc = "recalled" /\ s \in Sessions /\ UNCHANGED <<title, clock>>
  BY DEF ChatAsk, SessPart, Asking
<1>2. CASE state[s] = "deleted"
  <2>1. /\ UNCHANGED <<state, msgs>> /\ DOMAIN chat' = Chats /\ OthersKept(c)
        /\ DOMAIN chat'[c] = {"pc", "sess", "orig", "seen", "at", "hist"}
        /\ chat'[c].at = chat[c].at /\ chat'[c].sess = chat[c].sess /\ chat'[c].pc = "failed"
    BY <1>2 DEF ChatAsk, ShapePart, OthersKept
  <2>2. QED
    BY <1>1, <2>1, QuietStep DEF Asking, Answering
<1>3. CASE state[s] # "deleted"
  <2>1. /\ DOMAIN chat' = Chats /\ OthersKept(c)
        /\ DOMAIN chat'[c] = {"pc", "sess", "orig", "seen", "at", "hist"}
        /\ chat'[c].at = chat[c].at /\ chat'[c].sess = s /\ chat'[c].pc = "asked"
    BY <1>3 DEF ChatAsk, ShapePart, OthersKept
  <2>2. /\ DOMAIN state' = Sessions /\ state'[s] = "live"
        /\ \A e \in Sessions \ {s} : state'[e] = state[e]
        /\ msgs' = msgs \cup {m}
    BY <1>1, <1>3 DEF ChatAsk, ShapePart
  <2>3. ShapePart'
    BY <1>1, <2>1, <2>2 DEF ShapePart, OthersKept
  <2>4. \A e \in Chats : SessPart(e)'
    BY <1>1, <2>1, <2>2 DEF SessPart, OthersKept, Asking, Answering
  <2>5. \A e \in Chats \ {c} : QuestionPart(e)'
    <3> SUFFICES ASSUME NEW e \in Chats \ {c}, chat[e].pc \in Answering, state'[chat[e].sess] = "live"
                 PROVE  \E q \in msgs' : Question(e, q)'
      BY <2>1 DEF QuestionPart, OthersKept
    <3>1. state[chat[e].sess] = "live"
      BY <1>3, <2>2 DEF SessPart, Asking, Answering
    <3>2. PICK q \in msgs : Question(e, q)
      BY <3>1 DEF QuestionPart
    <3>3. QED
      BY <2>1, <2>2, <3>2 DEF Question, OthersKept
  <2>6. QuestionPart(c)'
    <3>1. PICK q : q = m
      OBVIOUS
    <3>2. q \in msgs' /\ q.role = "user" /\ q.chat = c /\ q.sess = s
      BY <2>2, <3>1
    <3>3. Question(c, q)'
      BY <2>1, <3>2 DEF Question
    <3>4. QED
      BY <3>2, <3>3 DEF QuestionPart
  <2>7. MessagePart' /\ NoOrphanMessages'
    BY <1>1, <2>2 DEF MessagePart, NoOrphanMessages, ShapePart
  <2>8. AnswerAfterQuestion'
    BY <2>2 DEF AnswerAfterQuestion
  <2>9. QED
    BY <2>3, <2>4, <2>5, <2>6, <2>7, <2>8
<1>4. QED
  BY <1>2, <1>3

\* A stream that ends early takes its draft along, and no session that anybody
\* could have stored a message in.
LEMMA DropSteps ==
    ASSUME ChatInv, NEW c \in Chats, ChatDisconnect(c) \/ ChatDbFails(c) PROVE ChatInv'
<1> USE DEF ChatInv
<1>1. /\ UNCHANGED <<title, msgs, clock>> /\ DOMAIN chat' = Chats /\ OthersKept(c)
      /\ DOMAIN chat'[c] = {"pc", "sess", "orig", "seen", "at", "hist"}
      /\ chat'[c].at = chat[c].at /\ chat'[c].pc \in {"aborted", "failed"}
  BY DEF ChatDisconnect, ChatDbFails, ShapePart, OthersKept
<1>2. /\ DOMAIN state' = Sessions
      /\ \A e \in Sessions : state[e] \in {"live", "deleted"} => state'[e] = state[e]
      /\ \A e \in Sessions : state'[e] = "live" => state[e] = "live"
  BY DEF ChatDisconnect, ChatDbFails, DropDraft, ShapePart
<1>3. ShapePart'
  BY <1>1, <1>2 DEF ShapePart, OthersKept
<1>4. \A e \in Chats : SessPart(e)'
  BY <1>1, <1>2 DEF SessPart, OthersKept, Asking, Answering
<1>5. \A e \in Chats : QuestionPart(e)'
  BY <1>1, <1>2 DEF QuestionPart, Question, SessPart, OthersKept, Asking, Answering
<1>6. MessagePart' /\ NoOrphanMessages' /\ AnswerAfterQuestion'
  BY <1>1, <1>2 DEF MessagePart, NoOrphanMessages, AnswerAfterQuestion
<1>7. QED
  BY <1>3, <1>4, <1>5, <1>6

\* The answer is inserted, in a transaction that begins after the question's;
\* without its session the insert fails.
LEMMA InsertStep == ASSUME ChatInv, NEW c \in Chats, PersistInsert(c) PROVE ChatInv'
<1> USE DEF ChatInv
<1>1. chat[c].pc = "pending" /\ chat[c].sess \in Sessions /\ UNCHANGED <<state, title, msgs>>
  BY DEF PersistInsert, SessPart, Answering
<1>2. CASE state[chat[c].sess] # "live"
  <2>1. /\ UNCHANGED clock /\ DOMAIN chat' = Chats /\ OthersKept(c)
        /\ DOMAIN chat'[c] = {"pc", "sess", "orig", "seen", "at", "hist"}
        /\ chat'[c].at = chat[c].at /\ chat'[c].sess = chat[c].sess /\ chat'[c].pc = "lost"
    BY <1>2 DEF PersistInsert, ShapePart, OthersKept
  <2>2. QED
    BY <1>1, <2>1, QuietStep DEF Asking, Answering
<1>3. CASE state[chat[c].sess] = "live"
  <2>1. /\ clock' = clock + 1 /\ DOMAIN chat' = Chats /\ OthersKept(c)
        /\ DOMAIN chat'[c] = {"pc", "sess", "orig", "seen", "at", "hist"}
        /\ chat'[c].at = clock + 1 /\ chat'[c].sess = chat[c].sess /\ chat'[c].pc = "inserted"
    BY <1>3 DEF PersistInsert, ShapePart, OthersKept
  <2>2. ShapePart'
    BY <1>1, <2>1 DEF ShapePart, OthersKept
  <2>3. \A e \in Chats : SessPart(e)'
    BY <1>1, <1>3, <2>1 DEF SessPart, OthersKept, Asking, Answering
  <2>4. \A e \in Chats \ {c} : QuestionPart(e)'
    BY <1>1, <2>1 DEF QuestionPart, Question, OthersKept
  <2>5. QuestionPart(c)'
    <3>1. PICK q \in msgs : Question(c, q)
      BY <1>1, <1>3 DEF QuestionPart, Answering
    <3>2. q.at < clock + 1
      BY <3>1 DEF MessagePart, ShapePart
    <3>3. Question(c, q)'
      BY <1>1, <2>1, <3>1, <3>2 DEF Question
    <3>4. QED
      BY <1>1, <3>3 DEF QuestionPart
  <2>6. MessagePart' /\ NoOrphanMessages' /\ AnswerAfterQuestion'
    BY <1>1, <2>1 DEF MessagePart, NoOrphanMessages, AnswerAfterQuestion, ShapePart
  <2>7. QED
    BY <2>2, <2>3, <2>4, <2>5, <2>6
<1>4. QED
  BY <1>2, <1>3

\* The answer is committed into the session of its question, later than it.
LEMMA CommitStep == ASSUME ChatInv, NEW c \in Chats, PersistCommit(c) PROVE ChatInv'
<1> USE DEF ChatInv
<1> DEFINE s == chat[c].sess
           m == [sess |-> s, role |-> "assistant", chat |-> c, at |-> chat[c].at]
<1>1. /\ chat[c].pc = "titled" /\ s \in Sessions /\ state[s] = "live"
      /\ msgs' = msgs \cup {m} /\ UNCHANGED <<state, clock>> /\ DOMAIN title' = Sessions
  BY DEF PersistCommit, SessPart, Answering, ShapePart
<1>2. /\ DOMAIN chat' = Chats /\ OthersKept(c)
      /\ DOMAIN chat'[c] = {"pc", "sess", "orig", "seen", "at", "hist"}
      /\ chat'[c].at = chat[c].at /\ chat'[c].sess = s /\ chat'[c].pc = "stored"
  BY DEF PersistCommit, ShapePart, OthersKept
<1>3. PICK q \in msgs : Question(c, q)
  BY <1>1 DEF QuestionPart, Answering
<1>4. ShapePart'
  BY <1>1, <1>2 DEF ShapePart, OthersKept
<1>5. \A e \in Chats : SessPart(e)'
  BY <1>1, <1>2 DEF SessPart, OthersKept, Asking, Answering
<1>6. \A e \in Chats : QuestionPart(e)'
  BY <1>1, <1>2 DEF QuestionPart, Question, OthersKept, Answering
<1>7. MessagePart' /\ NoOrphanMessages'
  BY <1>1 DEF MessagePart, NoOrphanMessages, ShapePart
<1>8. AnswerAfterQuestion'
  <2>1. q.role = "user" /\ q.chat = m.chat /\ q.sess = m.sess /\ q.at < m.at
    BY <1>1, <1>3 DEF Question
  <2>2. QED
    BY <1>1, <2>1 DEF AnswerAfterQuestion
<1>9. QED
  BY <1>4, <1>5, <1>6, <1>7, <1>8

\* When the process dies nothing committed is touched.
LEMMA CrashStep == ASSUME ChatInv, Crash PROVE ChatInv'
<1> USE DEF ChatInv
<1>1. /\ UNCHANGED <<title, msgs, clock>> /\ DOMAIN chat' = Chats /\ DOMAIN state' = Sessions
      /\ \A e \in Sessions : state[e] \in {"live", "deleted"} => state'[e] = state[e]
      /\ \A e \in Sessions : state'[e] = "live" => state[e] = "live"
  BY DEF Crash, ShapePart
<1>2. \A c \in Chats : /\ DOMAIN chat'[c] = {"pc", "sess", "orig", "seen", "at", "hist"}
                       /\ chat'[c].at = chat[c].at
                       /\ chat'[c].pc \notin Asking \cup Answering
  BY DEF Crash, ShapePart, Asking, Answering, Streaming, Persisting
<1>3. ShapePart'
  BY <1>1, <1>2 DEF ShapePart
<1>4. \A c \in Chats : SessPart(c)' /\ QuestionPart(c)'
  BY <1>2 DEF SessPart, QuestionPart, Asking, Answering
<1>5. MessagePart' /\ NoOrphanMessages' /\ AnswerAfterQuestion'
  BY <1>1 DEF MessagePart, NoOrphanMessages, AnswerAfterQuestion
<1>6. QED
  BY <1>3, <1>4, <1>5

\* Every step preserves the inductive invariant.
LEMMA InvStep == ChatInv /\ [Next]_vars => ChatInv'
<1> SUFFICES ASSUME ChatInv, [Next]_vars PROVE ChatInv'
  OBVIOUS
<1>1. CASE UNCHANGED vars
  BY <1>1 DEF vars, ChatInv, ShapePart, SessPart, QuestionPart, Question, MessagePart,
              NoOrphanMessages, AnswerAfterQuestion
<1>2. QED
  BY <1>1, QuietSteps, SessionSteps, BeginSteps, AskStep, DropSteps, InsertStep, CommitStep, CrashStep
  DEF Next, ChatStep, PersistStep

------------------------------------------------------------------------------
\* The inductive invariant that ties the messages to streams and sessions.
THEOREM Invariance == Spec => []ChatInv
<1>1. QED
  BY InvInit, InvStep, PTL DEF Spec

\* No message outlives its session, however many streams, background tasks and
\* deletes overlap.
THEOREM NoOrphans == Spec => []NoOrphanMessages
<1>1. ChatInv => NoOrphanMessages
  BY DEF ChatInv
<1>2. QED
  BY <1>1, Invariance, PTL

\* A stored answer always has its question before it in the same session.
THEOREM AnswersFollow == Spec => []AnswerAfterQuestion
<1>1. ChatInv => AnswerAfterQuestion
  BY DEF ChatInv
<1>2. QED
  BY <1>1, Invariance, PTL

------------------------------------------------------------------------------
(* ChatSession implements Conversation: what is new in it is that nothing is *)
(* stored twice.                                                             *)

\* A chat has no message before it asks, and no answer before its background
\* task commits.
OncePart(c) ==
    /\ chat[c].pc \in {"idle"} \cup Asking => \A m \in msgs : m.chat # c
    /\ chat[c].pc \in Answering => \A m \in msgs : m.chat = c => m.role = "user"

OnceInv == \A c \in Chats : OncePart(c)

\* Chats go forward, through the places in which they ask and then those in
\* which they answer.
Forward(c) ==
    \/ chat'[c].pc = chat[c].pc
    \/ chat'[c].pc \in Over
    \/ chat[c].pc \in {"idle"} \cup Asking /\ chat'[c].pc \in Asking
    \/ chat[c].pc \in Answering /\ chat'[c].pc \in Answering

\* Without a new message, going forward keeps OnceInv.
LEMMA OnceForward ==
    ASSUME OnceInv, msgs' \subseteq msgs, \A c \in Chats : Forward(c)
    PROVE  OnceInv'
<1> SUFFICES ASSUME NEW c \in Chats PROVE OncePart(c)'
  BY DEF OnceInv
<1>1. OncePart(c) /\ Forward(c)
  BY DEF OnceInv
<1>2. QED
  BY <1>1 DEF OncePart, Forward, Asking, Answering, Over

\* All steps but those that store a message.
LEMMA StoresNothing ==
    ASSUME ChatInv, [Next]_vars,
           \A c \in Chats : ~PersistCommit(c),
           \A c \in Chats : ChatAsk(c) => state[chat[c].sess] = "deleted"
    PROVE  msgs' \subseteq msgs /\ \A c \in Chats : Forward(c)
<1> USE DEF ChatInv, ShapePart, Forward
<1>1. CASE UNCHANGED <<msgs, chat>>
  BY <1>1
<1>2. CASE \E s \in Sessions : Delete(s)
  BY <1>2 DEF Delete
<1>3. CASE \E c \in Chats : ChatAsk(c)
  <2>1. PICK c \in Chats : ChatAsk(c)
    BY <1>3
  <2>2. state[chat[c].sess] = "deleted"
    BY <2>1
  <2>3. UNCHANGED msgs /\ chat' = [chat EXCEPT ![c].pc = "failed"]
    BY <2>1, <2>2 DEF ChatAsk
  <2>4. QED
    BY <2>3 DEF Over
<1>4. CASE \E c \in Chats, s \in Sessions :
               ChatBegin(c, s) \/ ChatBeginNew(c, s) \/ ChatNotFound(c, s)
  <2>1. PICK c \in Chats, s \in Sessions :
                 ChatBegin(c, s) \/ ChatBeginNew(c, s) \/ ChatNotFound(c, s)
    BY <1>4
  <2>2. /\ UNCHANGED msgs /\ \A e \in Chats \ {c} : chat'[e] = chat[e]
        /\ chat[c].pc = "idle" /\ chat'[c].pc \in {"begun", "refused"}
    BY <2>1 DEF ChatBegin, ChatBeginNew, ChatNotFound, Idle
  <2>3. QED
    BY <2>2 DEF Asking, Over
<1>5. CASE \E c \in Chats : ChatRecall(c) \/ ChatAnswer(c) \/ ChatDone(c) \/ ChatSpawn(c)
  BY <1>5 DEF ChatRecall, ChatAnswer, ChatDone, ChatSpawn, Asking, Answering
<1>6. CASE \E c \in Chats : ChatDisconnect(c) \/ ChatDbFails(c) \/ PersistDbFails(c)
  BY <1>6 DEF ChatDisconnect, ChatDbFails, PersistDbFails, Over
<1>7. CASE \E c \in Chats : PersistInsert(c) \/ PersistLoad(c)
  BY <1>7 DEF PersistInsert, PersistLoad, Answering, Over
<1>8. CASE Crash
  BY <1>8 DEF Crash, Over, Streaming, Persisting
<1>9. QED
  BY <1>1, <1>2, <1>3, <1>4, <1>5, <1>6, <1>7, <1>8
  DEF Next, vars, ChatStep, PersistStep, Create, RenameLoad, RenameCommit

\* Storing the question.
LEMMA AskOnce ==
    ASSUME ChatInv, OnceInv, NEW c \in Chats, ChatAsk(c), state[chat[c].sess] # "deleted"
    PROVE  /\ OnceInv'
           /\ Conversation!Ask(c, chat[c].sess)
<1> DEFINE s == chat[c].sess
           m == [sess |-> s, role |-> "user", chat |-> c, at |-> chat[c].at]
<1>1. /\ chat[c].pc = "recalled" /\ s \in Sessions
      /\ msgs' = msgs \cup {m}
      /\ chat' = [chat EXCEPT ![c].pc = "asked"]
      /\ state' = [state EXCEPT ![s] = "live"]
  BY DEF ChatAsk, ChatInv, SessPart, Asking
<1>2. \A n \in msgs : n.chat # c
  BY <1>1 DEF OnceInv, OncePart, Asking
<1>3. chat'[c].pc = "asked" /\ \A e \in Chats \ {c} : chat'[e] = chat[e]
  BY <1>1 DEF ChatInv, ShapePart
<1>4. OnceInv'
  <2> SUFFICES ASSUME NEW e \in Chats PROVE OncePart(e)'
    BY DEF OnceInv
  <2>1. CASE e = c
    BY <1>1, <1>2, <1>3, <2>1 DEF OncePart, Asking, Answering
  <2>2. CASE e # c
    BY <1>1, <1>3, <2>2 DEF OnceInv, OncePart
  <2>3. QED
    BY <2>1, <2>2
<1>5. Listed' = Listed \cup {s} /\ UNCHANGED Gone
  BY <1>1 DEF Listed, Gone, ChatInv, ShapePart
<1>6. s \notin Gone
  BY DEF Gone
<1>7. Conversation!Of(c, "user") = {} /\ Conversation!Of(c, "assistant") = {}
  BY <1>2 DEF Conversation!Of
<1>8. \E n \in msgs' \ msgs : Conversation!Enter(n, s, c, "user")
  <2>1. PICK n : n = m
    OBVIOUS
  <2>2. n.sess = s /\ n.chat = c /\ n.role = "user"
    BY <2>1
  <2>3. n \in msgs' \ msgs /\ msgs' = msgs \cup {n}
    BY <1>1, <1>2, <2>1, <2>2
  <2>4. QED
    BY <2>2, <2>3 DEF Conversation!Enter
<1>9. QED
  BY <1>4, <1>5, <1>6, <1>7, <1>8 DEF Conversation!Ask

\* Storing the answer.
LEMMA AnswerOnce ==
    ASSUME ChatInv, OnceInv, NEW c \in Chats, PersistCommit(c)
    PROVE  /\ OnceInv'
           /\ Conversation!Answer(c)
<1> DEFINE s == chat[c].sess
           m == [sess |-> s, role |-> "assistant", chat |-> c, at |-> chat[c].at]
<1>1. /\ chat[c].pc = "titled" /\ s \in Sessions /\ state[s] = "live"
      /\ msgs' = msgs \cup {m}
      /\ chat' = [chat EXCEPT ![c].pc = "stored"]
      /\ UNCHANGED state
  BY DEF PersistCommit, ChatInv, SessPart, Answering
<1>2. \A n \in msgs : n.chat = c => n.role = "user"
  BY <1>1 DEF OnceInv, OncePart, Answering
<1>3. chat'[c].pc = "stored" /\ \A e \in Chats \ {c} : chat'[e] = chat[e]
  BY <1>1 DEF ChatInv, ShapePart
<1>4. OnceInv'
  <2> SUFFICES ASSUME NEW e \in Chats PROVE OncePart(e)'
    BY DEF OnceInv
  <2>1. CASE e = c
    BY <1>3, <2>1 DEF OncePart, Asking, Answering
  <2>2. CASE e # c
    BY <1>1, <1>3, <2>2 DEF OnceInv, OncePart
  <2>3. QED
    BY <2>1, <2>2
<1>5. UNCHANGED <<Listed, Gone>>
  BY <1>1 DEF Listed, Gone
<1>6. PICK q \in msgs : q.role = "user" /\ q.chat = c /\ q.sess = s /\ q.at < chat[c].at
  BY <1>1 DEF ChatInv, QuestionPart, Question, Answering
<1>7. q \in Conversation!Of(c, "user") /\ q.sess \in Listed
  BY <1>1, <1>6 DEF Conversation!Of, Listed
<1>8. Conversation!Of(c, "assistant") = {}
  BY <1>2 DEF Conversation!Of
<1>9. \E n \in msgs' \ msgs : Conversation!Enter(n, q.sess, c, "assistant") /\ n.at > q.at
  <2>1. PICK n : n = m
    OBVIOUS
  <2>2. n.sess = s /\ n.chat = c /\ n.role = "assistant" /\ n.at = chat[c].at
    BY <2>1
  <2>3. n \in msgs' \ msgs /\ msgs' = msgs \cup {n}
    BY <1>1, <1>2, <2>1, <2>2
  <2>4. q.at \in Nat /\ chat[c].at \in Nat
    BY <1>6 DEF ChatInv, ShapePart, MessagePart
  <2>5. n.at > q.at
    BY <1>6, <2>2, <2>4
  <2>6. QED
    BY <1>6, <2>2, <2>3, <2>5 DEF Conversation!Enter
<1>10. QED
  BY <1>4, <1>5, <1>7, <1>8, <1>9 DEF Conversation!Answer

\* Nothing is stored twice.
LEMMA OnceStep == ChatInv /\ OnceInv /\ [Next]_vars => OnceInv'
<1> SUFFICES ASSUME ChatInv, OnceInv, [Next]_vars PROVE OnceInv'
  OBVIOUS
<1>1. CASE \E c \in Chats : PersistCommit(c)
  BY <1>1, AnswerOnce
<1>2. CASE \E c \in Chats : ChatAsk(c) /\ state[chat[c].sess] # "deleted"
  BY <1>2, AskOnce
<1>3. CASE /\ \A c \in Chats : ~PersistCommit(c)
           /\ \A c \in Chats : ChatAsk(c) => state[chat[c].sess] = "deleted"
  BY <1>3, StoresNothing, OnceForward
<1>4. QED
  BY <1>1, <1>2, <1>3

\* The invariant of what is stored once.
LEMMA StoredOnce == Spec => []OnceInv
<1>1. Init => OnceInv
  BY DEF Init, Idle, OnceInv, OncePart, Answering
<1>2. QED
  BY <1>1, OnceStep, Invariance, PTL DEF Spec

\* A step that stores no message and lists no session takes some off the list
\* of those that could still come, or nothing.
LEMMA Discards ==
    ASSUME UNCHANGED <<msgs, Listed>>, Gone \subseteq Gone', Gone' \cap Listed = {}
    PROVE  Conversation!Next
<1>1. Gone' \in SUBSET Sessions
  BY DEF Gone
<1>2. Conversation!Discard(Gone')
  BY DEF Conversation!Discard
<1>3. QED
  BY <1>1, <1>2 DEF Conversation!Next

\* A step of ChatSession is a step of the conversation, or a stutter.
LEMMA ConversationStep ==
    ASSUME ChatInv, OnceInv, [Next]_vars
    PROVE  [Conversation!Next]_(Conversation!vars)
<1> USE DEF ChatInv, ShapePart
<1>1. CASE UNCHANGED <<state, msgs>>
  BY <1>1 DEF Conversation!vars, Listed, Gone
<1>2. CASE \E s \in Sessions : Create(s)
  <2>1. PICK s \in Sessions : Create(s)
    BY <1>2
  <2>2. Listed' = Listed \cup {s} /\ s \notin Listed \cup Gone /\ UNCHANGED <<Gone, msgs>>
    BY <2>1 DEF Create, Listed, Gone
  <2>3. Conversation!Open(s)
    BY <2>2 DEF Conversation!Open
  <2>4. QED
    BY <2>3 DEF Conversation!Next
<1>3. CASE \E s \in Sessions : Delete(s)
  <2>1. PICK s \in Sessions : Delete(s)
    BY <1>3
  <2>2. s \in Listed /\ Listed' = Listed \ {s} /\ Gone' = Gone \cup {s}
    BY <2>1 DEF Delete, Listed, Gone
  <2>3. msgs' = {m \in msgs : m.sess # s}
    BY <2>1 DEF Delete, Of
  <2>4. Conversation!Close(s)
    BY <2>2, <2>3 DEF Conversation!Close
  <2>5. QED
    BY <2>4 DEF Conversation!Next
<1>4. CASE \E c \in Chats, s \in Sessions : ChatBeginNew(c, s)
  BY <1>4 DEF ChatBeginNew, Conversation!vars, Listed, Gone
<1>5. CASE (\E c \in Chats : ChatDisconnect(c) \/ ChatDbFails(c)) \/ Crash
  <2>1. UNCHANGED <<msgs, Listed>> /\ Gone \subseteq Gone' /\ Gone' \cap Listed = {}
    BY <1>5 DEF ChatDisconnect, ChatDbFails, DropDraft, Crash, Listed, Gone
  <2>2. QED
    BY <2>1, Discards
<1>6. CASE \E c \in Chats : ChatAsk(c)
  <2>1. PICK c \in Chats : ChatAsk(c)
    BY <1>6
  <2>2. CASE state[chat[c].sess] = "deleted"
    BY <1>1, <2>1, <2>2 DEF ChatAsk
  <2>3. CASE state[chat[c].sess] # "deleted"
    <3>1. chat[c].sess \in Sessions
      BY <2>1 DEF ChatAsk, SessPart, Asking
    <3>2. Conversation!Ask(c, chat[c].sess)
      BY <2>1, <2>3, AskOnce
    <3>3. QED
      BY <3>1, <3>2 DEF Conversation!Next
  <2>4. QED
    BY <2>2, <2>3
<1>7. CASE \E c \in Chats : PersistCommit(c)
  BY <1>7, AnswerOnce DEF Conversation!Next
<1>8. QED
  BY <1>1, <1>2, <1>3, <1>4, <1>5, <1>6, <1>7
  DEF Next, vars, ChatStep, PersistStep, RenameLoad, RenameCommit, ChatBegin, ChatNotFound,
      ChatRecall, ChatAnswer, ChatDone, ChatSpawn, PersistInsert, PersistLoad, PersistDbFails

\* Streams, background tasks, renames, deletes and failures of any number
\* implement the conversation a user may rely on.
THEOREM Refinement == Spec => ImplementsConversation
<1>1. Init => Conversation!Init
  BY DEF Init, Conversation!Init, Listed, Gone
<1>2. ChatInv /\ OnceInv /\ [Next]_vars => [Conversation!Next]_(Conversation!vars)
  BY ConversationStep
<1>3. QED
  BY <1>1, <1>2, Invariance, StoredOnce, PTL DEF Spec, ImplementsConversation, Conversation!Spec

------------------------------------------------------------------------------
(* The history: what list_for_session returns, and what of it a chat keeps.  *)

\* Messages that are told apart by their created_at.
DatedApart(M) == /\ IsFiniteSet(M)
                 /\ \A m \in M : m.at \in Nat
                 /\ \A m, n \in M : m.at = n.at => m = n

Earlier(M, m) == {n \in M : n.at < m.at}

\* A later message has more before it.
LEMMA RankGrows ==
    ASSUME NEW M, DatedApart(M), NEW m \in M, NEW n \in M, m.at < n.at
    PROVE  Cardinality(Earlier(M, m)) < Cardinality(Earlier(M, n))
<1> USE DEF DatedApart, Earlier
<1>1. Earlier(M, m) \cup {m} \in SUBSET Earlier(M, n) /\ m \notin Earlier(M, m)
  OBVIOUS
<1>2. IsFiniteSet(Earlier(M, m)) /\ IsFiniteSet(Earlier(M, n))
  BY FS_Subset
<1>3. Cardinality(Earlier(M, m) \cup {m}) = Cardinality(Earlier(M, m)) + 1
  BY <1>1, <1>2, FS_AddElement
<1>4. Cardinality(Earlier(M, m) \cup {m}) <= Cardinality(Earlier(M, n))
  BY <1>1, <1>2, FS_Subset
<1>5. Cardinality(Earlier(M, m)) \in Nat /\ Cardinality(Earlier(M, n)) \in Nat
  BY <1>2, FS_CardinalityType
<1>6. QED
  BY <1>3, <1>4, <1>5

\* Every place of the chronological order is taken by the message that has as
\* many before it, and the order is that of created_at.
LEMMA ChronologicalRows ==
    ASSUME NEW M, DatedApart(M)
    PROVE  /\ Cardinality(M) \in Nat
           /\ Chronological(M) \in [1..Cardinality(M) -> M]
           /\ \A m \in M : \E i \in 1..Cardinality(M) : Chronological(M)[i] = m
           /\ \A i, j \in 1..Cardinality(M) :
                i < j => Chronological(M)[i].at < Chronological(M)[j].at
<1> DEFINE k == Cardinality(M)
           rank == [m \in M |-> Cardinality(Earlier(M, m))]
<1>1. k \in Nat /\ IsFiniteSet(M)
  BY FS_CardinalityType DEF DatedApart
<1>2. ASSUME NEW m \in M PROVE rank[m] \in 0..(k - 1)
  <2>1. Earlier(M, m) \in SUBSET (M \ {m})
    BY DEF Earlier, DatedApart
  <2>2. IsFiniteSet(M \ {m}) /\ Cardinality(M \ {m}) = k - 1
    BY <1>1, FS_RemoveElement
  <2>3. IsFiniteSet(Earlier(M, m)) /\ Cardinality(Earlier(M, m)) <= k - 1
    BY <2>1, <2>2, FS_Subset
  <2>4. Cardinality(Earlier(M, m)) \in Nat
    BY <2>3, FS_CardinalityType
  <2>5. QED
    BY <1>1, <2>3, <2>4
<1>3. ASSUME NEW m \in M, NEW n \in M, rank[m] = rank[n] PROVE m = n
  <2>1. ~(m.at < n.at) /\ ~(n.at < m.at)
    <3>1. m.at < n.at => rank[m] < rank[n]
      BY RankGrows
    <3>2. n.at < m.at => rank[n] < rank[m]
      BY RankGrows
    <3>3. rank[m] \in Int /\ rank[n] \in Int
      BY <1>1, <1>2
    <3>4. QED
      BY <1>3, <3>1, <3>2, <3>3
  <2>2. QED
    BY <2>1 DEF DatedApart
<1>4. rank \in Injection(M, 0..(k - 1))
  BY <1>2, <1>3 DEF Injection, IsInjective
<1>5. rank \in Surjection(M, 0..(k - 1))
  <2>1. IsFiniteSet(0..(k - 1)) /\ Cardinality(0..(k - 1)) = k
    BY <1>1, FS_Interval
  <2>2. QED
    BY <1>4, <2>1, FS_Injection
<1>6. ASSUME NEW i \in 1..k PROVE \E m \in M : rank[m] = i - 1
  <2>1. i - 1 \in 0..(k - 1)
    BY <1>1
  <2>2. \A f : f \in Surjection(M, 0..(k - 1)) => \A t \in 0..(k - 1) : \E m \in M : f[m] = t
    BY DEF Surjection
  <2>3. QED
    BY <1>5, <2>1, <2>2
<1>7. Chronological(M) = [i \in 1..k |-> CHOOSE m \in M : Cardinality(Earlier(M, m)) = i - 1]
  BY DEF Chronological, Earlier
<1>8. ASSUME NEW i \in 1..k
      PROVE  Chronological(M)[i] \in M /\ rank[Chronological(M)[i]] = i - 1
  BY <1>6, <1>7
<1>9. ASSUME NEW m \in M PROVE \E i \in 1..k : Chronological(M)[i] = m
  <2>1. rank[m] + 1 \in 1..k
    BY <1>1, <1>2
  <2>2. rank[Chronological(M)[rank[m] + 1]] = rank[m]
    BY <1>1, <1>2, <1>8, <2>1
  <2>3. Chronological(M)[rank[m] + 1] = m
    BY <1>3, <1>8, <2>1, <2>2
  <2>4. QED
    BY <2>1, <2>3
<1>10. ASSUME NEW i \in 1..k, NEW j \in 1..k, i < j
       PROVE  Chronological(M)[i].at < Chronological(M)[j].at
  <2> DEFINE m == Chronological(M)[i]
             n == Chronological(M)[j]
  <2>1. m \in M /\ n \in M /\ rank[m] = i - 1 /\ rank[n] = j - 1
    BY <1>8
  <2>2. ~(n.at < m.at)
    BY <1>1, <1>10, <2>1, RankGrows
  <2>3. n.at # m.at
    BY <1>1, <1>10, <2>1 DEF DatedApart
  <2>4. m.at \in Nat /\ n.at \in Nat
    BY <2>1 DEF DatedApart
  <2>5. QED
    BY <2>2, <2>3, <2>4
<1>11. Chronological(M) \in [1..k -> M]
  BY <1>7, <1>8
<1>12. QED
  BY <1>1, <1>9, <1>10, <1>11

\* What list_for_session returns: the oldest rows of the session, as many as the
\* limit allows, the latest of them first.
LEMMA OldestRows ==
    ASSUME NEW s, DatedApart(Of(s)), NEW limit \in Nat
    PROVE  LET k == Cardinality(Of(s))
               n == IF k < limit THEN k ELSE limit
               list == ListForSession(s, limit)
           IN  /\ n \in Nat /\ n <= k
               /\ list \in [1..n -> Of(s)]
               /\ \A i \in 1..n : list[i] = Chronological(Of(s))[n + 1 - i]
<1> DEFINE k == Cardinality(Of(s))
           n == IF k < limit THEN k ELSE limit
           all == Chronological(Of(s))
           rows == SubSeq(all, 1, n)
           list == ListForSession(s, limit)
<1>1. k \in Nat /\ all \in [1..k -> Of(s)]
  BY ChronologicalRows
<1>2. n \in Nat /\ n <= k
  BY <1>1
<1> HIDE DEF k, n, all
<1>3. rows = [i \in 1..n |-> all[i]]
  BY <1>1, <1>2
<1>4. Len(rows) = n
  BY <1>2, <1>3
<1>5. list = [i \in 1..n |-> rows[n + 1 - i]]
  BY <1>4 DEF ListForSession, k, n, all
<1> HIDE DEF rows, list
<1>6. \A i \in 1..n : n + 1 - i \in 1..n /\ list[i] = all[n + 1 - i]
  BY <1>2, <1>3, <1>5
<1>7. list \in [1..n -> Of(s)]
  BY <1>1, <1>2, <1>5, <1>6
<1>8. QED
  BY <1>2, <1>6, <1>7 DEF k, n, all, list

------------------------------------------------------------------------------
(* Types and histories.  A place in the chronological order exists for every *)
(* message only because no two bear the same time: created_at is the start   *)
(* of a transaction that stores one message.                                 *)

\* The places in which a transaction is open that may date a message.
Dating == {"begun", "recalled", "inserted", "titled"}

\* What is going to be dated differs from everything dated so far.
DatePart ==
    /\ IsFiniteSet(msgs)
    /\ \A m, n \in msgs : m.at = n.at => m = n
    /\ \A c \in Chats : chat[c].pc \in Dating =>
         /\ chat[c].at > 0
         /\ \A m \in msgs : m.at # chat[c].at
         /\ \A e \in Chats : chat[e].pc \in Dating /\ chat[e].at = chat[c].at => e = c

TableInv == TypeOK /\ DatePart /\ HistoryBeforeQuestion

\* A message dated by the transaction of chat c, in the chat's session.
Dated(c, m) == /\ chat[c].pc \in Dating /\ chat'[c].pc \notin Dating
               /\ m.at = chat[c].at /\ m.sess = chat[c].sess /\ m.chat = c
               /\ m.role \in {"user", "assistant"}
               /\ msgs' = msgs \cup {m}

\* Chat c keeps its history, and its date if it still has one to give.
Kept(c) == /\ chat'[c].hist = chat[c].hist /\ chat'[c].sess = chat[c].sess
           /\ chat'[c].pc \in Dating => chat[c].pc \in Dating /\ chat'[c].at = chat[c].at

\* Where nothing is stored and no transaction begins.
LEMMA DateKept ==
    ASSUME DatePart, msgs' \subseteq msgs,
           \A c \in Chats : chat'[c].pc \in Dating => chat[c].pc \in Dating /\ chat'[c].at = chat[c].at
    PROVE  DatePart'
<1>1. IsFiniteSet(msgs')
  BY FS_Subset DEF DatePart
<1>2. QED
  BY <1>1 DEF DatePart

\* Where a transaction begins.
LEMMA DateFresh ==
    ASSUME DatePart, TypeOK, NEW c \in Chats, UNCHANGED msgs, OthersKept(c),
           chat'[c].at = clock + 1
    PROVE  DatePart'
<1>1. clock \in Nat /\ \A m \in msgs : m.at \in 1..clock
  BY DEF TypeOK, Messages
<1>2. \A e \in Chats : chat[e].at \in 0..clock
  BY DEF TypeOK
<1>3. clock + 1 > 0 /\ clock + 1 \notin 0..clock /\ clock + 1 \notin 1..clock
  BY <1>1
<1>4. QED
  BY <1>1, <1>2, <1>3 DEF DatePart, OthersKept

\* Where a message is stored.
LEMMA DateStored ==
    ASSUME DatePart, NEW c \in Chats, NEW m, Dated(c, m), OthersKept(c)
    PROVE  DatePart'
<1>1. IsFiniteSet(msgs')
  BY FS_AddElement DEF DatePart, Dated
<1>2. \A n, o \in msgs' : n.at = o.at => n = o
  BY DEF DatePart, Dated
<1>3. ASSUME NEW e \in Chats, chat'[e].pc \in Dating
      PROVE  e # c /\ chat'[e] = chat[e] /\ m.at # chat[e].at
  BY <1>3 DEF DatePart, Dated, OthersKept
<1>4. QED
  BY <1>1, <1>2, <1>3 DEF DatePart, Dated

\* What a chat's locals may be.
Places == {"idle"} \cup Streaming \cup Persisting \cup Over
Locals == [pc : Places, sess : Sessions \cup {NoSession}, orig : Titles, seen : Titles,
           at : 0..clock, hist : Seq(Messages)]

\* As the clock goes on there are more messages and more locals.
LEMMA LocalsGrow ==
    ASSUME clock \in Nat, clock' \in Nat, clock <= clock'
    PROVE  Messages \subseteq Messages' /\ Locals \subseteq Locals'
<1>1. 0..clock \subseteq 0..clock' /\ 1..clock \subseteq 1..clock'
  OBVIOUS
<1>2. Messages \subseteq Messages'
  BY <1>1 DEF Messages
<1>3. ASSUME NEW q \in Seq(Messages) PROVE q \in Seq(Messages')
  <2>1. q \in [1..Len(q) -> Messages] /\ Len(q) \in Nat
    OBVIOUS
  <2>2. q \in [1..Len(q) -> Messages']
    BY <1>2, <2>1
  <2>3. QED
    BY <2>1, <2>2
<1>4. QED
  BY <1>1, <1>2, <1>3 DEF Locals

\* One chat's locals change, and the clock at most goes on.
LEMMA OneTyped ==
    ASSUME TypeOK, NEW c \in Chats, clock' \in {clock, clock + 1},
           DOMAIN chat' = Chats, OthersKept(c), chat' = [e \in Chats |-> chat'[e]],
           chat'[c] \in Locals'
    PROVE  clock' \in Nat /\ Messages \subseteq Messages' /\ chat' \in [Chats -> Locals']
<1>1. clock \in Nat /\ chat \in [Chats -> Locals]
  BY DEF TypeOK, Locals, Places
<1>2. clock' \in Nat /\ clock <= clock'
  BY <1>1
<1>3. Messages \subseteq Messages' /\ Locals \subseteq Locals'
  BY <1>1, <1>2, LocalsGrow
<1>4. \A e \in Chats : chat'[e] \in Locals'
  BY <1>1, <1>3 DEF OthersKept
<1>5. QED
  BY <1>2, <1>3, <1>4

\* A chat that is put in another place, and may have read a title.
LEMMA Placed ==
    ASSUME chat \in [Chats -> Locals], NEW c \in Chats, NEW p \in Places
    PROVE  /\ [chat EXCEPT ![c].pc = p] \in [Chats -> Locals]
           /\ \A t \in Titles : [chat EXCEPT ![c].pc = p, ![c].seen = t] \in [Chats -> Locals]
BY DEF Locals

\* The sessions' and the renames' steps.
LEMMA TypedSessions ==
    ASSUME TypeOK,
           \/ \E s \in Sessions : Create(s) \/ Delete(s)
           \/ \E r \in Renames : RenameCommit(r) \/ \E s \in Sessions : RenameLoad(r, s)
    PROVE  TypeOK'
<1>1. UNCHANGED <<chat, clock>> /\ msgs' \subseteq msgs
  BY DEF Create, Delete, RenameLoad, RenameCommit
<1>2. Messages' = Messages
  BY <1>1 DEF Messages
<1>3. state' \in [Sessions -> {"unused", "draft", "live", "deleted"}]
  BY DEF TypeOK, Create, Delete, RenameLoad, RenameCommit
<1>4. title' \in [Sessions -> Titles]
  <2>1. CASE UNCHANGED title
    BY <2>1 DEF TypeOK
  <2>2. CASE \E s \in Sessions : Create(s)
    <3>1. PICK s \in Sessions, t \in Titles : title' = [title EXCEPT ![s] = t]
      BY <2>2 DEF Create
    <3>2. QED
      BY <3>1 DEF TypeOK
  <2>3. CASE \E r \in Renames : RenameCommit(r)
    <3>1. PICK r \in Renames : RenameCommit(r)
      BY <2>3
    <3>2. \/ UNCHANGED title
          \/ title' = [title EXCEPT ![ren[r].sess] = NewTitle[r]]
      BY <3>1 DEF RenameCommit, TypeOK
    <3>3. QED
      BY <3>2, ConstantsAssumption DEF TypeOK
  <2>4. QED
    BY <2>1, <2>2, <2>3 DEF Delete, RenameLoad
<1>5. ren' \in [Renames -> [pc : {"idle", "loaded", "done", "failed"},
                            sess : Sessions \cup {NoSession}, seen : Titles]]
  <2>1. CASE UNCHANGED ren
    BY <2>1 DEF TypeOK
  <2>2. CASE \E r \in Renames, s \in Sessions : RenameLoad(r, s)
    BY <2>2 DEF RenameLoad, TypeOK
  <2>3. CASE \E r \in Renames : RenameCommit(r)
    <3>1. PICK r \in Renames, p \in {"done", "failed"} : ren' = [ren EXCEPT ![r].pc = p]
      BY <2>3 DEF RenameCommit
    <3>2. QED
      BY <3>1 DEF TypeOK
  <2>4. QED
    BY <2>1, <2>2, <2>3 DEF Create, Delete
<1>6. QED
  BY <1>1, <1>2, <1>3, <1>4, <1>5 DEF TypeOK

\* The steps that move one chat on and touch neither a message nor the clock.
LEMMA TypedMoves ==
    ASSUME TypeOK, ChatInv, NEW c \in Chats,
           \/ ChatAnswer(c) \/ ChatDone(c) \/ ChatSpawn(c) \/ ChatDisconnect(c) \/ ChatDbFails(c)
           \/ PersistLoad(c) \/ PersistDbFails(c) \/ \E s \in Sessions : ChatNotFound(c, s)
    PROVE  TypeOK'
<1> USE DEF ChatAnswer, ChatDone, ChatSpawn, ChatDisconnect, ChatDbFails, PersistLoad,
            PersistDbFails, ChatNotFound
<1>1. UNCHANGED <<title, msgs, ren, clock>>
  OBVIOUS
<1>2. state' \in [Sessions -> {"unused", "draft", "live", "deleted"}]
  BY DEF TypeOK, DropDraft
<1>3. chat \in [Chats -> Locals] /\ Locals' = Locals
  BY <1>1 DEF TypeOK, Locals, Places, Messages
<1>4. chat' \in [Chats -> Locals]
  <2>1. CASE PersistLoad(c)
    <3>1. chat[c].sess \in Sessions /\ title[chat[c].sess] \in Titles
      BY <2>1 DEF TypeOK, ChatInv, SessPart, Answering
    <3>2. PICK t \in Titles : chat' = [chat EXCEPT ![c].pc = "titled", ![c].seen = t]
      BY <2>1, <3>1
    <3>3. "titled" \in Places
      BY DEF Places, Persisting
    <3>4. QED
      BY <1>3, <3>2, <3>3, Placed
  <2>2. CASE ~PersistLoad(c)
    <3> DEFINE To(p) == chat' = [chat EXCEPT ![c].pc = p]
    <3>1. \/ To("refused") \/ To("answered") \/ To("closing") \/ To("pending")
          \/ To("aborted") \/ To("failed") \/ To("lost")
      BY <2>2
    <3>2. {"refused", "answered", "closing", "pending", "aborted", "failed", "lost"} \subseteq Places
      BY DEF Places, Streaming, Persisting, Over
    <3>3. PICK p \in Places : chat' = [chat EXCEPT ![c].pc = p]
      BY <3>1, <3>2
    <3>4. QED
      BY <1>3, <3>3, Placed
  <2>3. QED
    BY <2>1, <2>2
<1>5. QED
  BY <1>1, <1>2, <1>3, <1>4 DEF TypeOK, Locals, Places, Messages

\* A history that is left alone stays one before the question.
LEMMA HistoryKept ==
    ASSUME HistoryBeforeQuestion,
           \A e \in Chats : chat'[e].hist = chat[e].hist /\ chat'[e].sess = chat[e].sess
    PROVE  HistoryBeforeQuestion'
BY DEF HistoryBeforeQuestion

\* Nothing is dated and no history read.
LEMMA QuietTable ==
    ASSUME ChatInv, TableInv,
           \/ \E s \in Sessions : Create(s) \/ Delete(s)
           \/ \E r \in Renames : RenameCommit(r) \/ \E s \in Sessions : RenameLoad(r, s)
           \/ \E c \in Chats : \/ ChatAnswer(c) \/ ChatDone(c) \/ ChatSpawn(c)
                               \/ ChatDisconnect(c) \/ ChatDbFails(c)
                               \/ PersistLoad(c) \/ PersistDbFails(c)
                               \/ \E s \in Sessions : ChatNotFound(c, s)
    PROVE  TableInv'
<1> USE DEF TableInv
<1>1. TypeOK'
  BY TypedSessions, TypedMoves
<1>2. msgs' \subseteq msgs
  BY DEF Create, Delete, RenameLoad, RenameCommit, ChatAnswer, ChatDone, ChatSpawn,
         ChatDisconnect, ChatDbFails, PersistLoad, PersistDbFails, ChatNotFound
<1>3. \A e \in Chats : Kept(e)
  <2> USE DEF Kept, Dating
  <2>1. CASE UNCHANGED chat
    BY <2>1
  <2>2. ASSUME NEW c \in Chats,
               \/ ChatAnswer(c) \/ ChatDone(c) \/ ChatSpawn(c) \/ PersistLoad(c) \/ PersistDbFails(c)
               \/ ChatDisconnect(c) \/ ChatDbFails(c) \/ \E s \in Sessions : ChatNotFound(c, s)
        PROVE  \A e \in Chats : Kept(e)
    BY <2>2 DEF ChatInv, ShapePart, ChatAnswer, ChatDone, ChatSpawn, ChatDisconnect, ChatDbFails,
                PersistLoad, PersistDbFails, ChatNotFound
  <2>3. QED
    BY <2>1, <2>2 DEF Create, Delete, RenameLoad, RenameCommit
<1>4. QED
  BY <1>1, <1>2, <1>3, DateKept, HistoryKept DEF Kept

\* A stream begins, and with it the transaction that dates its question.
LEMMA BeginTable ==
    ASSUME TableInv, NEW c \in Chats, NEW s \in Sessions, ChatBegin(c, s) \/ ChatBeginNew(c, s)
    PROVE  TableInv'
<1> USE DEF TableInv
<1> DEFINE Begun == [pc : {"begun"}, sess : {s}, orig : Titles, seen : Titles,
                     at : {clock + 1}, hist : {<<>>}]
<1>1. PICK x \in Begun : chat' = [chat EXCEPT ![c] = x]
  <2>1. title[s] \in Titles /\ DefaultTitle \in Titles
    BY ConstantsAssumption DEF TypeOK
  <2>2. /\ [Idle EXCEPT !.pc = "begun", !.sess = s, !.at = clock + 1, !.orig = title[s]] \in Begun
        /\ [Idle EXCEPT !.pc = "begun", !.sess = s, !.at = clock + 1] \in Begun
    BY <2>1 DEF Idle
  <2>3. QED
    BY <2>2 DEF ChatBegin, ChatBeginNew
<1>2. clock' = clock + 1 /\ UNCHANGED <<title, msgs, ren>> /\ clock \in Nat
  BY DEF ChatBegin, ChatBeginNew, TypeOK
<1>3. state' \in [Sessions -> {"unused", "draft", "live", "deleted"}]
  BY DEF ChatBegin, ChatBeginNew, TypeOK
<1>4. /\ DOMAIN chat' = Chats /\ OthersKept(c) /\ chat' = [e \in Chats |-> chat'[e]]
      /\ chat'[c] \in Begun
  BY <1>1 DEF TypeOK, OthersKept
<1>5. chat'[c] \in Locals'
  <2>1. clock + 1 \in 0..clock' /\ "begun" \in Places
    BY <1>2 DEF Places, Streaming
  <2>2. <<>> \in Seq(Messages')
    OBVIOUS
  <2>3. QED
    BY <1>4, <2>1, <2>2 DEF Locals
<1>6. TypeOK'
  BY <1>2, <1>3, <1>4, <1>5, OneTyped DEF TypeOK, Locals, Places
<1>7. DatePart'
  BY <1>2, <1>4, DateFresh
<1>8. HistoryBeforeQuestion'
  BY <1>4 DEF HistoryBeforeQuestion, OthersKept
<1>9. QED
  BY <1>6, <1>7, <1>8

\* The history is read before the chat has a message of its own.
LEMMA RecallTable ==
    ASSUME OnceInv, TableInv, NEW c \in Chats, ChatRecall(c)
    PROVE  TableInv'
<1> USE DEF TableInv
<1> DEFINE s == chat[c].sess
           list == ListForSession(s, Window)
<1>1. /\ chat[c].pc = "begun" /\ UNCHANGED <<state, title, msgs, ren, clock>>
      /\ chat' = [chat EXCEPT ![c].pc = "recalled", ![c].hist = list]
  BY DEF ChatRecall
<1>2. DatedApart(Of(s))
  <2>1. IsFiniteSet(Of(s))
    BY FS_Subset DEF DatePart, Of
  <2>2. QED
    BY <2>1 DEF DatedApart, Of, DatePart, TypeOK, Messages
<1>3. PICK n \in Nat : list \in [1..n -> Of(s)]
  BY <1>2, OldestRows, ConstantsAssumption
<1> HIDE DEF list
<1>4. \A i \in 1..Len(list) : list[i] \in Of(s)
  BY <1>3
<1>5. list \in Seq(Messages)
  BY <1>3 DEF TypeOK, Of
<1>6. chat \in [Chats -> Locals] /\ Locals' = Locals
  BY <1>1 DEF TypeOK, Locals, Places, Messages
<1>7. chat' \in [Chats -> Locals]
  <2>1. "recalled" \in Places
    BY DEF Places, Streaming
  <2>2. chat[c] \in Locals
    BY <1>6
  <2>3. [chat[c] EXCEPT !.pc = "recalled", !.hist = list] \in Locals
    BY <1>5, <2>1, <2>2 DEF Locals
  <2>4. QED
    BY <1>1, <1>6, <2>3
<1>8. TypeOK'
  BY <1>1, <1>6, <1>7 DEF TypeOK, Locals, Places, Messages
<1>9. /\ OthersKept(c) /\ chat'[c].hist = list
      /\ chat'[c].sess = s /\ chat'[c].at = chat[c].at /\ chat'[c].pc = "recalled"
  BY <1>1, <1>6 DEF OthersKept, Locals
<1>10. DatePart'
  BY <1>1, <1>9, DateKept DEF OthersKept, Dating
<1>11. \A m \in Of(s) : m.chat # c /\ m.sess = s
  BY <1>1 DEF OnceInv, OncePart, Asking, Of
<1>12. HistoryBeforeQuestion'
  BY <1>4, <1>9, <1>11 DEF HistoryBeforeQuestion, OthersKept
<1>13. QED
  BY <1>8, <1>10, <1>12

\* A question or an answer is stored, with the date of its transaction.
LEMMA StoreTable ==
    ASSUME ChatInv, TableInv, NEW c \in Chats, ChatAsk(c) \/ PersistCommit(c)
    PROVE  TableInv'
<1> USE DEF TableInv
<1> DEFINE s == chat[c].sess
<1>1. /\ chat[c].pc \in {"recalled", "titled"} /\ UNCHANGED <<ren, clock>>
      /\ s \in Sessions /\ DOMAIN chat = Chats
  BY DEF ChatAsk, PersistCommit, ChatInv, ShapePart, SessPart, Asking, Answering
<1>2. chat \in [Chats -> Locals] /\ Locals' = Locals /\ Messages' = Messages
  BY <1>1 DEF TypeOK, Locals, Places, Messages
<1>3. PICK p \in {"failed", "asked", "stored"} : chat' = [chat EXCEPT ![c].pc = p]
  BY DEF ChatAsk, PersistCommit
<1>4. /\ OthersKept(c) /\ chat'[c].pc \notin Dating /\ chat'[c].hist = chat[c].hist
      /\ chat'[c].sess = chat[c].sess
  BY <1>1, <1>2, <1>3 DEF OthersKept, Locals, Dating
<1>5. chat' \in [Chats -> Locals]
  BY <1>2, <1>3, Placed DEF Places, Streaming, Over
<1>6. state' \in [Sessions -> {"unused", "draft", "live", "deleted"}]
  BY DEF ChatAsk, PersistCommit, TypeOK
<1>7. title' \in [Sessions -> Titles]
  <2>1. CASE UNCHANGED title
    BY <2>1 DEF TypeOK
  <2>2. CASE PersistCommit(c)
    <3>1. DeriveTitle(chat[c].orig, c) \in Titles
      BY <1>2, ConstantsAssumption DEF DeriveTitle, Locals
    <3>2. title' = title \/ title' = [title EXCEPT ![s] = DeriveTitle(chat[c].orig, c)]
      BY <2>2 DEF PersistCommit, TypeOK
    <3>3. QED
      BY <3>1, <3>2 DEF TypeOK
  <2>3. QED
    BY <2>1, <2>2 DEF ChatAsk
<1>8. CASE UNCHANGED msgs
  <2>1. DatePart'
    BY <1>4, <1>8, DateKept DEF OthersKept
  <2>2. HistoryBeforeQuestion'
    BY <1>4, HistoryKept DEF Kept, OthersKept
  <2>3. QED
    BY <1>1, <1>2, <1>5, <1>6, <1>7, <1>8, <2>1, <2>2 DEF TypeOK, Locals, Places
<1>9. CASE ~UNCHANGED msgs
  <2>1. PICK role \in {"user", "assistant"} :
               msgs' = msgs \cup {[sess |-> s, role |-> role, chat |-> c, at |-> chat[c].at]}
    BY <1>9 DEF ChatAsk, PersistCommit
  <2>2. PICK m : m = [sess |-> s, role |-> role, chat |-> c, at |-> chat[c].at]
    OBVIOUS
  <2>3. chat[c].at \in 1..clock
    BY <1>1, <1>2 DEF Locals, DatePart, Dating, TypeOK
  <2>4. m \in Messages
    BY <1>1, <2>2, <2>3 DEF Messages
  <2>5. Dated(c, m)
    BY <1>1, <1>4, <2>1, <2>2 DEF Dated, Dating
  <2>6. DatePart'
    BY <1>4, <2>5, DateStored
  <2>7. HistoryBeforeQuestion'
    BY <1>4, HistoryKept DEF Kept, OthersKept
  <2>8. msgs' \subseteq Messages
    BY <2>4, <2>5 DEF Dated, TypeOK
  <2>9. QED
    BY <1>1, <1>2, <1>5, <1>6, <1>7, <2>6, <2>7, <2>8 DEF TypeOK, Locals, Places
<1>10. QED
  BY <1>8, <1>9

\* The transaction of an answer begins, or its insert fails.
LEMMA InsertTable ==
    ASSUME TableInv, NEW c \in Chats, PersistInsert(c)
    PROVE  TableInv'
<1> USE DEF TableInv
<1>1. chat[c].pc = "pending" /\ UNCHANGED <<state, title, msgs, ren>>
  BY DEF PersistInsert
<1>2. chat \in [Chats -> Locals] /\ clock \in Nat
  BY DEF TypeOK, Locals, Places
<1>3. CASE state[chat[c].sess] = "live"
  <2>1. clock' = clock + 1 /\ chat' = [chat EXCEPT ![c].pc = "inserted", ![c].at = clock + 1]
    BY <1>3 DEF PersistInsert
  <2>2. /\ DOMAIN chat' = Chats /\ OthersKept(c) /\ chat' = [e \in Chats |-> chat'[e]]
        /\ chat'[c] = [chat[c] EXCEPT !.pc = "inserted", !.at = clock + 1]
    BY <1>2, <2>1 DEF OthersKept
  <2>3. chat'[c] \in Locals'
    <3>1. chat[c] \in Locals'
      BY <1>2, <2>1, LocalsGrow
    <3>2. clock + 1 \in 0..clock' /\ "inserted" \in Places
      BY <1>2, <2>1 DEF Places, Persisting
    <3>3. QED
      BY <2>2, <3>1, <3>2 DEF Locals
  <2>4. TypeOK'
    BY <1>1, <2>1, <2>2, <2>3, OneTyped DEF TypeOK, Locals, Places
  <2>5. chat'[c].at = clock + 1 /\ chat'[c].hist = chat[c].hist /\ chat'[c].sess = chat[c].sess
    BY <1>2, <2>2 DEF Locals
  <2>6. DatePart'
    BY <1>1, <2>2, <2>5, DateFresh
  <2>7. HistoryBeforeQuestion'
    BY <2>2, <2>5, HistoryKept DEF OthersKept
  <2>8. QED
    BY <2>4, <2>6, <2>7
<1>4. CASE state[chat[c].sess] # "live"
  <2>1. chat' = [chat EXCEPT ![c].pc = "lost"] /\ UNCHANGED clock
    BY <1>4 DEF PersistInsert
  <2>2. chat' \in [Chats -> Locals] /\ Locals' = Locals
    BY <1>2, <2>1, Placed DEF Places, Over, Locals, Messages
  <2>3. \A e \in Chats : Kept(e)
    BY <1>2, <2>1 DEF Kept, Locals, Dating
  <2>4. TypeOK'
    BY <1>1, <2>1, <2>2 DEF TypeOK, Locals, Places, Messages
  <2>5. QED
    BY <1>1, <2>3, <2>4, DateKept, HistoryKept DEF Kept
<1>5. QED
  BY <1>3, <1>4

\* What dies with the process is dated no more.
LEMMA CrashTable == ASSUME TableInv, Crash PROVE TableInv'
<1> USE DEF TableInv, Crash
<1>1. UNCHANGED <<title, msgs, clock>> /\ Locals' = Locals
  BY DEF Locals, Messages
<1>2. state' \in [Sessions -> {"unused", "draft", "live", "deleted"}]
  BY DEF TypeOK
<1>3. ren' \in [Renames -> [pc : {"idle", "loaded", "done", "failed"},
                            sess : Sessions \cup {NoSession}, seen : Titles]]
  BY DEF TypeOK
<1>4. chat \in [Chats -> Locals]
  BY DEF TypeOK, Locals, Places
<1>5. ASSUME NEW c \in Chats PROVE chat'[c] \in Locals /\ Kept(c)
  <2>1. PICK p \in Places : chat'[c] = [chat[c] EXCEPT !.pc = p] /\ p \in {chat[c].pc} \cup Over
    <3>1. chat[c].pc \in Places /\ "aborted" \in Over /\ "lost" \in Over /\ Over \subseteq Places
      BY <1>4 DEF Locals, Places, Over
    <3>2. QED
      BY <3>1
  <2>2. chat[c] \in Locals
    BY <1>4
  <2>3. chat'[c] \in Locals
    BY <2>1, <2>2 DEF Locals
  <2>4. Kept(c)
    BY <2>1, <2>2 DEF Kept, Locals, Dating, Over
  <2>5. QED
    BY <2>3, <2>4
<1>6. chat' \in [Chats -> Locals]
  BY <1>5
<1>7. TypeOK'
  BY <1>1, <1>2, <1>3, <1>6 DEF TypeOK, Locals, Places, Messages
<1>8. DatePart' /\ HistoryBeforeQuestion'
  BY <1>1, <1>5, DateKept, HistoryKept DEF Kept
<1>9. QED
  BY <1>7, <1>8

\* Every step preserves it.
LEMMA TableStep == ChatInv /\ OnceInv /\ TableInv /\ [Next]_vars => TableInv'
<1> SUFFICES ASSUME ChatInv, OnceInv, TableInv, [Next]_vars PROVE TableInv'
  OBVIOUS
<1>1. CASE UNCHANGED vars
  BY <1>1 DEF vars, TableInv, TypeOK, Messages, DatePart, HistoryBeforeQuestion
<1>2. QED
  BY <1>1, QuietTable, BeginTable, RecallTable, StoreTable, InsertTable, CrashTable
  DEF Next, ChatStep, PersistStep

\* The invariant of the dates, the types and the histories.
LEMMA TableInvariance == Spec => []TableInv
<1>1. Init => TableInv
  <2> SUFFICES ASSUME Init PROVE TableInv
    OBVIOUS
  <2>1. TypeOK
    BY ConstantsAssumption DEF Init, Idle, TypeOK
  <2>2. IsFiniteSet(msgs)
    BY FS_EmptySet DEF Init
  <2>3. DatePart /\ HistoryBeforeQuestion
    BY <2>2 DEF Init, Idle, DatePart, Dating, HistoryBeforeQuestion
  <2>4. QED
    BY <2>1, <2>3 DEF TableInv
<1>2. QED
  BY <1>1, TableStep, Invariance, StoredOnce, PTL DEF Spec

\* Every variable keeps to its values: the histories too are messages that
\* were stored.
THEOREM Typing == Spec => []TypeOK
<1>1. TableInv => TypeOK
  BY DEF TableInv
<1>2. QED
  BY <1>1, TableInvariance, PTL

\* No history a chat sends contains its own question or a message of another
\* session, whatever has been stored and deleted in between.
THEOREM HistoryOwn == Spec => []HistoryBeforeQuestion
<1>1. TableInv => HistoryBeforeQuestion
  BY DEF TableInv
<1>2. QED
  BY <1>1, TableInvariance, PTL

\* A chat that was not under way is not now, and one that is began as it did.
Unmoved(c) ==
    /\ chat'[c].sess = chat[c].sess /\ chat'[c].orig = chat[c].orig
    /\ chat'[c].pc \in Streaming \cup Persisting => chat[c].pc \in Streaming \cup Persisting

\* Of a settled session only a rename or its end changes the title: what a
\* background task writes is the title it began under.
THEOREM TitleHolds == Spec => TitleSettles
<1>1. ASSUME ChatInv, TypeOK, Next, NEW s \in Sessions, Settled(s)
      PROVE  \/ Settled(s)' /\ title'[s] = title[s]
             \/ RenameDone(s)
             \/ state'[s] = "deleted"
  <2> USE DEF TypeOK
  <2>1. state[s] = "live" /\ title[s] # DefaultTitle
    BY <1>1 DEF Settled
  <2>2. ASSUME title'[s] = title[s], state'[s] = "live",
               \A c \in Chats : Unmoved(c) \/ chat'[c].orig = title[s] \/ chat'[c].sess # s
        PROVE  Settled(s)'
    BY <1>1, <2>1, <2>2 DEF Settled, Unmoved
  <2>3. CASE \E e \in Sessions : Create(e) \/ Delete(e)
    <3>1. PICK e \in Sessions : Create(e) \/ Delete(e)
      BY <2>3
    <3>2. CASE e = s
      BY <1>1, <2>1, <3>1, <3>2 DEF Create, Delete
    <3>3. CASE e # s
      <4>1. title'[s] = title[s] /\ state'[s] = "live" /\ UNCHANGED chat
        BY <1>1, <2>1, <3>1, <3>3 DEF Create, Delete
      <4>2. QED
        BY <2>2, <4>1 DEF Unmoved
    <3>4. QED
      BY <3>2, <3>3
  <2>4. CASE \E r \in Renames : RenameCommit(r) \/ \E e \in Sessions : RenameLoad(r, e)
    <3>1. PICK r \in Renames : RenameCommit(r) \/ \E e \in Sessions : RenameLoad(r, e)
      BY <2>4
    <3>2. CASE RenameCommit(r) /\ ren[r].sess = s
      BY <1>1, <2>1, <3>2 DEF RenameCommit, RenameDone
    <3>3. CASE ~(RenameCommit(r) /\ ren[r].sess = s)
      <4>1. title'[s] = title[s] /\ UNCHANGED <<state, chat>>
        BY <1>1, <3>1, <3>3 DEF RenameCommit, RenameLoad
      <4>2. QED
        BY <2>1, <2>2, <4>1 DEF Unmoved
    <3>4. QED
      BY <3>2, <3>3
  <2>5. CASE \E c \in Chats, e \in Sessions : ChatBegin(c, e) \/ ChatBeginNew(c, e) \/ ChatNotFound(c, e)
    <3>1. PICK c \in Chats, e \in Sessions : ChatBegin(c, e) \/ ChatBeginNew(c, e) \/ ChatNotFound(c, e)
      BY <2>5
    <3>2. UNCHANGED title /\ state'[s] = "live"
      BY <1>1, <2>1, <3>1 DEF ChatBegin, ChatBeginNew, ChatNotFound
    <3>3. \A o \in Chats \ {c} : chat'[o] = chat[o]
      BY <1>1, <3>1 DEF ChatBegin, ChatBeginNew, ChatNotFound
    <3>4. Unmoved(c) \/ chat'[c].orig = title[s] \/ chat'[c].sess # s
      <4>1. CASE ChatBegin(c, e)
        BY <1>1, <4>1 DEF ChatBegin, Idle
      <4>2. CASE ChatBeginNew(c, e)
        BY <1>1, <2>1, <4>2 DEF ChatBeginNew, Idle
      <4>3. CASE ChatNotFound(c, e)
        BY <1>1, <4>3 DEF ChatNotFound, Unmoved, Streaming, Persisting
      <4>4. QED
        BY <3>1, <4>1, <4>2, <4>3
    <3>5. QED
      BY <2>2, <3>2, <3>3, <3>4 DEF Unmoved
  <2>6. CASE \E c \in Chats : \/ ChatStep(c) \/ PersistInsert(c) \/ PersistLoad(c)
                              \/ ChatDisconnect(c) \/ ChatDbFails(c) \/ PersistDbFails(c)
    <3>1. PICK c \in Chats : \/ ChatStep(c) \/ PersistInsert(c) \/ PersistLoad(c)
                             \/ ChatDisconnect(c) \/ ChatDbFails(c) \/ PersistDbFails(c)
      BY <2>6
    <3> USE DEF ChatStep, ChatRecall, ChatAsk, ChatAnswer, ChatDone, ChatSpawn, PersistInsert,
                PersistLoad, ChatDisconnect, ChatDbFails, PersistDbFails, DropDraft
    <3>2. UNCHANGED title /\ state'[s] = "live"
      BY <1>1, <2>1, <3>1
    <3>3. \A o \in Chats \ {c} : chat'[o] = chat[o]
      BY <1>1, <3>1
    <3>4. Unmoved(c)
      BY <1>1, <3>1 DEF Unmoved, Streaming, Persisting
    <3>5. QED
      BY <2>2, <3>2, <3>3, <3>4 DEF Unmoved
  <2>7. CASE \E c \in Chats : PersistCommit(c)
    <3>1. PICK c \in Chats : PersistCommit(c)
      BY <2>7
    <3>2. UNCHANGED state /\ \A o \in Chats : Unmoved(o)
      BY <1>1, <3>1 DEF PersistCommit, Unmoved, Streaming, Persisting
    <3>3. title'[s] = title[s]
      <4>1. ASSUME chat[c].sess = s PROVE DeriveTitle(chat[c].orig, c) = title[s]
        <5>1. chat[c].orig = title[s]
          BY <1>1, <3>1, <4>1 DEF PersistCommit, Settled, Persisting
        <5>2. QED
          BY <2>1, <5>1 DEF DeriveTitle
      <4>2. QED
        BY <1>1, <3>1, <4>1 DEF PersistCommit
    <3>4. QED
      BY <2>1, <2>2, <3>2, <3>3
  <2>8. CASE Crash
    <3>1. UNCHANGED title /\ state'[s] = "live"
      BY <1>1, <2>1, <2>8 DEF Crash
    <3>2. \A c \in Chats : Unmoved(c)
      BY <1>1, <2>8 DEF Crash, Unmoved, Streaming, Persisting
    <3>3. QED
      BY <2>2, <3>1, <3>2
  <2>9. QED
    BY <1>1, <2>3, <2>4, <2>5, <2>6, <2>7, <2>8 DEF Next, PersistStep
<1>2. ChatInv /\ TypeOK /\ [Next]_vars =>
        [\A s \in Sessions : Settled(s) =>
            \/ Settled(s)' /\ title'[s] = title[s]
            \/ RenameDone(s)
            \/ state'[s] = "deleted"]_vars
  BY <1>1
<1>3. QED
  BY <1>2, Invariance, Typing, PTL DEF Spec, TitleSettles
------------------------------------------------------------------------------
(* Where the answers are.  EveryQuestionAnswered is about time; what it rests *)
(* on is that nobody but those it excuses drops a question.                   *)

\* The messages of a chat are in its session and it has asked; a chat that is
\* over has its answer there, unless its session went or something failed.
ExcusePart(c) ==
    /\ \A m \in msgs : m.chat = c =>
         m.sess = chat[c].sess /\ chat[c].pc \in Answering \cup {"aborted", "lost", "stored"}
    /\ chat[c].pc \in {"lost", "stored"} => chat[c].sess \in Sessions
    /\ chat[c].pc = "stored" =>
         state[chat[c].sess] = "deleted" \/ \E a \in msgs : a.chat = c /\ a.role = "assistant"
    /\ chat[c].pc = "aborted" => Faults \cap {"disconnect", "crash"} # {}
    /\ chat[c].pc = "lost" =>
         state[chat[c].sess] = "deleted" \/ Faults \cap {"db", "crash"} # {}

\* What others do to the tables: a deleted session stays so, messages go only
\* with their session, and none is stored on behalf of c.
Apart(c) ==
    /\ \A s \in Sessions : state[s] = "deleted" => state'[s] = "deleted"
    /\ \A m \in msgs : m \in msgs' \/ state'[m.sess] = "deleted"
    /\ \A m \in msgs' : m \in msgs \/ m.chat # c

\* It does not touch what is known of a chat that stays where it is.
LEMMA ExcuseKept ==
    ASSUME NEW c \in Chats, ExcusePart(c), Apart(c), chat'[c] = chat[c]
    PROVE  ExcusePart(c)'
<1>1. ASSUME chat[c].pc = "stored", state'[chat[c].sess] # "deleted"
      PROVE  \E a \in msgs' : a.chat = c /\ a.role = "assistant"
  <2>1. PICK a \in msgs : a.chat = c /\ a.role = "assistant"
    BY <1>1 DEF ExcusePart, Apart
  <2>2. a \in msgs'
    BY <1>1, <2>1 DEF ExcusePart, Apart
  <2>3. QED
    BY <2>1, <2>2
<1>2. QED
  BY <1>1 DEF ExcusePart, Apart

\* Nor of one that goes on to a place where nothing is excused yet.
LEMMA ExcuseForth ==
    ASSUME NEW c \in Chats, ExcusePart(c), OncePart(c), Apart(c),
           \/ chat'[c].pc \in Asking \cup {"refused", "failed"} /\ chat[c].pc \in {"idle"} \cup Asking
           \/ chat'[c].pc \in Answering /\ chat[c].pc \in Answering /\ chat'[c].sess = chat[c].sess
    PROVE  ExcusePart(c)'
BY DEF ExcusePart, OncePart, Apart, Asking, Answering

\* Every step keeps it.
LEMMA ExcuseStep ==
    ASSUME ChatInv, OnceInv, \A c \in Chats : ExcusePart(c), [Next]_vars
    PROVE  \A c \in Chats : ExcusePart(c)'
<1> USE DEF ChatInv, ShapePart
<1>1. CASE UNCHANGED vars
  BY <1>1 DEF vars, ExcusePart
<1>2. CASE \/ \E s \in Sessions : Create(s) \/ Delete(s)
           \/ \E r \in Renames : RenameCommit(r) \/ \E s \in Sessions : RenameLoad(r, s)
  <2>1. UNCHANGED chat
    BY <1>2 DEF Create, Delete, RenameCommit, RenameLoad
  <2>2. \A s \in Sessions : state[s] = "deleted" => state'[s] = "deleted"
    BY <1>2 DEF Create, Delete, RenameCommit, RenameLoad
  <2>3. msgs' \subseteq msgs /\ \A m \in msgs : m \in msgs' \/ state'[m.sess] = "deleted"
    BY <1>2 DEF Create, Delete, RenameCommit, RenameLoad, Of
  <2>4. \A c \in Chats : Apart(c)
    BY <2>2, <2>3 DEF Apart
  <2>5. QED
    BY <2>1, <2>4, ExcuseKept
<1>3. ASSUME NEW c \in Chats, OthersKept(c), \A e \in Chats \ {c} : Apart(e), ExcusePart(c)'
      PROVE  \A e \in Chats : ExcusePart(e)'
  BY <1>3, ExcuseKept DEF OthersKept
<1>4. ASSUME NEW c \in Chats,
             \/ \E s \in Sessions : ChatBegin(c, s) \/ ChatBeginNew(c, s) \/ ChatNotFound(c, s)
             \/ ChatRecall(c) \/ ChatAnswer(c) \/ ChatDone(c) \/ ChatSpawn(c) \/ PersistLoad(c)
             \/ ChatDbFails(c)
      PROVE  \A e \in Chats : ExcusePart(e)'
  <2>1. UNCHANGED msgs /\ OthersKept(c)
    BY <1>4 DEF ChatBegin, ChatBeginNew, ChatNotFound, ChatRecall, ChatAnswer, ChatDone, ChatSpawn,
                PersistLoad, ChatDbFails, OthersKept
  <2>2. \A s \in Sessions : state[s] = "deleted" => state'[s] = "deleted"
    BY <1>4 DEF ChatBegin, ChatBeginNew, ChatNotFound, ChatRecall, ChatAnswer, ChatDone, ChatSpawn,
                PersistLoad, ChatDbFails, DropDraft
  <2>3. \A e \in Chats : Apart(e)
    BY <2>1, <2>2 DEF Apart
  <2>4. \/ chat'[c].pc \in Asking \cup {"refused", "failed"} /\ chat[c].pc \in {"idle"} \cup Asking
        \/ chat'[c].pc \in Answering /\ chat[c].pc \in Answering /\ chat'[c].sess = chat[c].sess
    <3>1. CASE \E s \in Sessions : ChatBegin(c, s) \/ ChatBeginNew(c, s) \/ ChatNotFound(c, s)
      BY <3>1 DEF ChatBegin, ChatBeginNew, ChatNotFound, Idle, Asking
    <3>2. CASE ChatRecall(c) \/ ChatDbFails(c)
      BY <3>2 DEF ChatRecall, ChatDbFails, Asking
    <3>3. CASE ChatAnswer(c) \/ ChatDone(c) \/ ChatSpawn(c) \/ PersistLoad(c)
      <4>1. chat'[c].sess = chat[c].sess
        BY <3>3 DEF ChatAnswer, ChatDone, ChatSpawn, PersistLoad
      <4>2. chat'[c].pc \in Answering /\ chat[c].pc \in Answering
        BY <3>3 DEF ChatAnswer, ChatDone, ChatSpawn, PersistLoad, Answering
      <4>3. QED
        BY <4>1, <4>2
    <3>4. QED
      BY <1>4, <3>1, <3>2, <3>3
  <2>5. ExcusePart(c)'
    BY <2>3, <2>4, ExcuseForth DEF OnceInv
  <2>6. QED
    BY <1>3, <2>1, <2>3, <2>5
<1>5. ASSUME NEW c \in Chats, ChatAsk(c) PROVE \A e \in Chats : ExcusePart(e)'
  <2> DEFINE s == chat[c].sess
             m == [sess |-> s, role |-> "user", chat |-> c, at |-> chat[c].at]
  <2>1. chat[c].pc = "recalled" /\ s \in Sessions
    BY <1>5 DEF ChatAsk, SessPart, Asking
  <2>2. CASE state[s] = "deleted"
    <3>1. UNCHANGED <<state, msgs>> /\ OthersKept(c) /\ chat'[c].pc = "failed"
      BY <1>5, <2>2 DEF ChatAsk, OthersKept
    <3>2. \A e \in Chats : Apart(e)
      BY <3>1 DEF Apart
    <3>3. ExcusePart(c)'
      BY <2>1, <3>1, <3>2, ExcuseForth DEF OnceInv, Asking
    <3>4. QED
      BY <1>3, <3>1, <3>2, <3>3
  <2>3. CASE state[s] # "deleted"
    <3>1. /\ OthersKept(c) /\ chat'[c].pc = "asked" /\ chat'[c].sess = s
          /\ msgs' = msgs \cup {m} /\ state' = [state EXCEPT ![s] = "live"]
      BY <1>5, <2>3 DEF ChatAsk, OthersKept
    <3>2. \A e \in Chats \ {c} : Apart(e)
      BY <2>3, <3>1 DEF Apart
    <3>3. \A n \in msgs : n.chat # c
      BY <2>1 DEF OnceInv, OncePart, Asking
    <3>4. ExcusePart(c)'
      BY <3>1, <3>3 DEF ExcusePart, Answering
    <3>5. QED
      BY <1>3, <3>1, <3>2, <3>4
  <2>4. QED
    BY <2>2, <2>3
<1>6. ASSUME NEW c \in Chats, ChatDisconnect(c) PROVE \A e \in Chats : ExcusePart(e)'
  <2>1. /\ "disconnect" \in Faults /\ chat[c].pc \in Streaming /\ UNCHANGED msgs
        /\ OthersKept(c) /\ chat'[c].pc = "aborted" /\ chat'[c].sess = chat[c].sess
        /\ \A s \in Sessions : state[s] = "deleted" => state'[s] = "deleted"
    BY <1>6 DEF ChatDisconnect, DropDraft, OthersKept
  <2>2. \A e \in Chats \ {c} : Apart(e)
    BY <2>1 DEF Apart
  <2>3. ExcusePart(c)'
    BY <2>1 DEF ExcusePart
  <2>4. QED
    BY <1>3, <2>1, <2>2, <2>3
<1>7. ASSUME NEW c \in Chats, PersistInsert(c) \/ PersistDbFails(c)
      PROVE  \A e \in Chats : ExcusePart(e)'
  <2>1. UNCHANGED <<state, msgs>> /\ OthersKept(c) /\ chat'[c].sess = chat[c].sess
    BY <1>7 DEF PersistInsert, PersistDbFails, OthersKept
  <2>2. \A e \in Chats : Apart(e)
    BY <2>1 DEF Apart
  <2>3. chat[c].pc \in Answering /\ chat[c].sess \in Sessions
        /\ state[chat[c].sess] \in {"live", "deleted"}
    BY <1>7 DEF PersistInsert, PersistDbFails, Persisting, Answering, SessPart
  <2>4. \/ chat'[c].pc = "inserted"
        \/ chat'[c].pc = "lost" /\ (state[chat[c].sess] # "live" \/ "db" \in Faults)
    BY <1>7 DEF PersistInsert, PersistDbFails
  <2>5. CASE chat'[c].pc = "inserted"
    <3>1. ExcusePart(c)'
      BY <2>1, <2>2, <2>3, <2>5, ExcuseForth DEF OnceInv, Answering
    <3>2. QED
      BY <1>3, <2>1, <2>2, <3>1
  <2>6. CASE chat'[c].pc = "lost" /\ (state[chat[c].sess] # "live" \/ "db" \in Faults)
    <3>1. ExcusePart(c)'
      BY <2>1, <2>3, <2>6 DEF ExcusePart
    <3>2. QED
      BY <1>3, <2>1, <2>2, <3>1
  <2>7. QED
    BY <2>4, <2>5, <2>6
<1>8. ASSUME NEW c \in Chats, PersistCommit(c) PROVE \A e \in Chats : ExcusePart(e)'
  <2> DEFINE m == [sess |-> chat[c].sess, role |-> "assistant", chat |-> c, at |-> chat[c].at]
  <2>1. /\ chat[c].pc = "titled" /\ chat[c].sess \in Sessions /\ UNCHANGED state
        /\ msgs' = msgs \cup {m} /\ OthersKept(c)
        /\ chat'[c].pc = "stored" /\ chat'[c].sess = chat[c].sess
    BY <1>8 DEF PersistCommit, SessPart, Answering, OthersKept
  <2>2. \A e \in Chats \ {c} : Apart(e)
    BY <2>1 DEF Apart
  <2>3. \E a \in msgs' : a.chat = c /\ a.role = "assistant"
    <3>1. PICK a : a = m
      OBVIOUS
    <3>2. a \in msgs' /\ a.chat = c /\ a.role = "assistant"
      BY <2>1, <3>1
    <3>3. QED
      BY <3>2
  <2>4. \A n \in msgs' : n.chat = c => n.sess = chat[c].sess
    BY <2>1 DEF ExcusePart
  <2>5. ExcusePart(c)'
    BY <2>1, <2>3, <2>4 DEF ExcusePart
  <2>6. QED
    BY <1>3, <2>1, <2>2, <2>5
<1>9. CASE Crash
  <2> SUFFICES ASSUME NEW c \in Chats PROVE ExcusePart(c)'
    OBVIOUS
  <2>1. /\ "crash" \in Faults /\ UNCHANGED msgs /\ chat'[c].sess = chat[c].sess
        /\ \A s \in Sessions : state[s] = "deleted" => state'[s] = "deleted"
        /\ chat'[c].pc = IF chat[c].pc \in Streaming THEN "aborted"
                         ELSE IF chat[c].pc \in Persisting THEN "lost" ELSE chat[c].pc
    BY <1>9 DEF Crash
  <2>2. chat[c].pc \in Persisting => chat[c].sess \in Sessions
    BY DEF SessPart, Persisting, Answering
  <2>3. ExcusePart(c)'
    BY <2>1, <2>2 DEF ExcusePart, Streaming, Persisting, Answering
  <2>4. QED
    BY <2>3
<1>10. QED
  BY <1>1, <1>2, <1>4, <1>5, <1>6, <1>7, <1>8, <1>9 DEF Next, ChatStep, PersistStep

\* A stored question is not dropped: it has its answer, or a stream or a task
\* under way to it, unless the client, the process or the database failed.
THEOREM AnswersAccounted == Spec => []AnswerIsUnderWay
<1> DEFINE ExcuseInv == \A c \in Chats : ExcusePart(c)
<1>1. Init => ExcuseInv
  BY DEF Init, Idle, ExcusePart
<1>2. ChatInv /\ OnceInv /\ ExcuseInv /\ [Next]_vars => ExcuseInv'
  BY ExcuseStep
<1>3. ChatInv /\ ExcuseInv => AnswerIsUnderWay
  <2> SUFFICES ASSUME ChatInv, ExcuseInv, NEW c \in Chats, NEW q \in msgs, q.chat = c, ~Answered(c)
               PROVE  \/ chat[c].pc \in {"asked", "answered", "closing"} \cup Persisting
                      \/ chat[c].pc = "aborted" /\ Faults \cap {"disconnect", "crash"} # {}
                      \/ chat[c].pc = "lost" /\ Faults \cap {"db", "crash"} # {}
    BY DEF AnswerIsUnderWay, Asked
  <2>1. state[chat[c].sess] = "live" /\ chat[c].pc \in Answering \cup {"aborted", "lost", "stored"}
    BY DEF ExcusePart, ChatInv, NoOrphanMessages
  <2>2. chat[c].pc # "stored"
    BY <2>1 DEF ExcusePart, Answered
  <2>3. QED
    BY <2>1, <2>2 DEF ExcusePart, Answering, Persisting
<1>4. QED
  BY <1>1, <1>2, <1>3, Invariance, StoredOnce, PTL DEF Spec
=============================================================================
