----------------------------- MODULE Conversation -----------------------------
(***************************************************************************)
(* What a user may rely on about the history of a research session, with   *)
(* no stream, no transaction and no background task in sight: a question   *)
(* is entered once, answered at most once and later than it was asked, and *)
(* all of it goes when the session goes.  ChatSession implements this      *)
(* (ImplementsConversation there).                                         *)
(***************************************************************************)
EXTENDS Naturals

CONSTANTS Sessions, Chats

VARIABLES open,    \* the sessions listed
          closed,  \* those deleted, or dropped before their first question
          log      \* the messages: session, role, chat and time of each

vars == <<open, closed, log>>

Init == open = {} /\ closed = {} /\ log = {}

Of(c, role) == {m \in log : m.chat = c /\ m.role = role}

\* One more message, which bears some time.
Enter(m, s, c, role) == log' = log \cup {m} /\ m.sess = s /\ m.chat = c /\ m.role = role

Open(s) == /\ s \notin open \cup closed
           /\ open' = open \cup {s}
           /\ UNCHANGED <<closed, log>>

\* A question opens its session if it is the first; it is never asked twice.
Ask(c, s) == /\ s \notin closed
             /\ Of(c, "user") = {} /\ Of(c, "assistant") = {}
             /\ \E m \in log' \ log : Enter(m, s, c, "user")
             /\ open' = open \cup {s}
             /\ UNCHANGED closed

\* The answer goes to where the question is, if it is there, and only once.
Answer(c) == \E q \in Of(c, "user") : /\ q.sess \in open
                                      /\ Of(c, "assistant") = {}
                                      /\ \E m \in log' \ log :
                                            Enter(m, q.sess, c, "assistant") /\ m.at > q.at
                                      /\ UNCHANGED <<open, closed>>

Close(s) == /\ s \in open
            /\ open'   = open \ {s}
            /\ closed' = closed \cup {s}
            /\ log'    = {m \in log : m.sess # s}

\* Sessions that were never listed are given up.
Discard(S) == /\ S \cap open = {}
              /\ closed' = closed \cup S
              /\ UNCHANGED <<open, log>>

Next == \/ \E s \in Sessions : Open(s) \/ Close(s)
        \/ \E c \in Chats, s \in Sessions : Ask(c, s)
        \/ \E c \in Chats : Answer(c)
        \/ \E S \in SUBSET Sessions : Discard(S)

Spec == Init /\ [][Next]_vars
=============================================================================
