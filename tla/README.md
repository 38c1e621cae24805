# Formal verification of the Researcher backend

TLA+ models of the parts of this program whose correctness depends on what happens
between two awaits, the TLC instances that check them, and TLAPS proofs of every
safety property the instances check. `PROJECT.json` ties every definition to its
source lines, every property to a run and to a slip of the code that would break it.

    tlc -workers 2 -config DocumentLifecycle.cfg MCDocumentLifecycle    # check an instance
    tlapm DocumentLifecycleProofs.tla                                   # check the proofs

## 1. The system

A FastAPI process with one event loop serves a research assistant: users upload
documents, ask questions in research sessions and get streamed answers with
citations from their documents. It keeps state in PostgreSQL (SQLAlchemy,
async), in Redis, in a Chroma collection and in an upload directory; no
transaction spans two of them. Two kinds of work outlive their request: the
background task that indexes a document (FastAPI `BackgroundTasks`) and the task
that stores an answer (`asyncio.create_task`). Neither is persisted or retried.

| Component | State | Operations | Meets the others through |
|---|---|---|---|
| Documents (`services/document_service.py`, `utils/file_storage.py`, `agents/rag/vector_store.py`) | `documents` rows, uploaded files, chunks in Chroma | upload, `process_document_task`, list, delete | the retriever reads Chroma |
| Parsing and chunking (`agents/rag/parser.py`, `chunking.py`) | none | cut pages into numbered, overlapping chunks | called by the background task |
| Research sessions and chat (`services/research_service.py`, `repositories/message_repository.py`) | `research_sessions`, `messages`, reports | create, rename, delete, `stream_chat`, `_persist_assistant_turn` | runs the agent nodes |
| Agent nodes (`agents/graph`) | the state of one run | plan, retrieve, generate, guard, evaluate | LLM, Chroma |
| Tokens (`services/auth_service.py`, `core/security.py`) | revocation keys in Redis | issue, refresh, logout, reset link, verification link, authenticate | guards every endpoint |
| Rate limits (`core/rate_limits.py`) | counters in Redis | `enforce_fixed_window` | dependencies of the endpoints |
| Sign-in backoff (`core/rate_limits.py`, `AuthService.login`) | counter and block in Redis | ensure clear, record failure, clear | sign-in, registration, reset |
| Accounts (`services/auth_service.py`, `core/google_auth.py`) | `users`, `oauth_accounts` | register, Google sign-in, link, unlink, set password | issues tokens |
| Database sessions (`database/session.py`, `get_db`) | the connection pool | check out, commit, roll back, close | every endpoint, stream and task takes its connection there |
| Migrations and container (`alembic/`, `docker-compose.yml`, `docker-entrypoint.sh`) | the schema, `alembic_version` | upgrade, downgrade, start, restart | the models name the columns; accounts restrict a downgrade |
| Settings, model list, LLM and embedding providers, e-mail, middleware, wiring | little or none | | |

What makes this code hard, and what is correct:

* **Documents.** Three stores, a background task that suspends in the embedding
  call, deletes that do not look at the task, and failures between any two
  stores. Correct: a listed document has its file; READY means searchable with
  exactly the chunk count shown; ERROR and deleted mean not searchable; a status
  never moves back; PROCESSING ends.
* **Chat.** The answer is stored by another task, in another database session, with
  data the stream read long before; meanwhile the session may be renamed, deleted or
  chatted in; the client may leave and the process may die. Correct: answers follow
  their questions, nothing outlives its session, titles that were given stay (they
  do only once no older chat is under way, section 5), the model gets the latest
  messages, every question is answered.
* **Agent nodes.** The compiled workflow is not what runs: `stream_chat` has a
  pipeline of its own, and its tokens reach the client before the guardrail has
  judged them. Correct: both do the same; what is stored is what was shown, or
  the client was told; chunk numbers and citations agree; nothing leaves the
  user's scope.
* **Tokens.** Lookup and revocation are separate Redis commands; the claim and
  the key are rounded to seconds; a reset commits before it revokes. Correct: a
  spent token is refused, keys end with tokens.
* **Accounts.** Five endpoints look first and write later, on rows another
  request may have changed; only unique constraints hold them together. Correct:
  nobody loses the last way to sign in, links are one to one, an address matches
  an account only once it is verified.
* **Limits and backoff.** INCR and EXPIRE are two commands and requests
  interleave with each other, with the clock and with outages. Correct: a window
  admits no more than its limit, counters and blocks go away, a running block is
  not lifted by those it holds off.
* **Connections.** FastAPI leaves `get_db` when the path function returns, so the
  chat stream works with a session that is closed already, while an answer may
  take minutes and the pool has few connections. Correct: nobody waits for a
  connection while holding one, nothing keeps one while it waits for the model or
  is over, everybody is served.
* **Migrations.** Written by hand beside the models, meant to be run by the container
  on every start. Correct: they add up to the models both ways, an account never
  loses its last way to sign in, an upgrade arrives after every crash and downgrade,
  and the container comes up (it does not, section 5).
* **Chunking.** Interval arithmetic with two boundaries. Correct: no word is
  lost, indexes are unique positions, every chunk advances, the loop ends.

## 2. Modules

One module a component; a step is what the event loop runs between two awaits
that another request can notice, and each Redis command is a step. Failures
are members of the constant `Faults`, so that an instance says what it is
exposed to. `MC*` modules hold model values; `MCRateLimits` and `MCDatabase` also put
two components that share no state side by side. Definitions
introduced by "A slip of ..." are variants of an action with a bug a programmer
could make; `PROJECT.json` lists which property each of them breaks, and no
specification uses them.

**DocumentLifecycle.** `row`, `count` and `noted` are the committed columns
`status`, `chunk_count` and "error_message says indexing is unavailable"; `file`
and `index` are the upload directory and Chroma; `upl`, `task` and `del` are the
program counters of the upload, the background task and the DELETE requests.
`Upload*` follow `upload_document` (validated and drafted, file written, row
committed and task queued), `Task*` follow `process_document_task` (load, parse,
embed and add, mark), `Delete*` follow `delete_document` (load, purge file and
chunks, delete the row). Disk, embedding, Chroma and database failures and a
crash are actions; a Chroma failure may or may not have had its effect. A row
that is gone under the task is `TaskRowGone`: the flush raises, and the update
of the handler raises again.

**Catalogue** is what a user may rely on: a document is accepted, listed, in time
searchable or failed, and withdrawn; only processing makes it findable; once off
the list it stays off. `DocumentLifecycle` implements it (`ImplementsCatalogue`):
`Listed` is a row, `Found` is a chunk in Chroma, `Shelf` reads the place from row,
task and deletes. Two places are honest about the code: `"unsure"`, a document
that is READY with the note that indexing failed and may be findable or not, and
`"doomed"`, one that a delete has overtaken while its task runs, which may become
findable again.

**Chunking.** `_split_text` and `chunk_pages` with words for characters, as in
the code, on pages given by their number of words.

**ChatSession.** `state`, `title` and `msgs` are the two tables, `chat` holds the
program counter and the locals of each `stream_chat` and, from `"pending"` on,
of its `_persist_assistant_turn`; `ren` is a PATCH between its load and its
commit. `created_at` is PostgreSQL's `now()`, the start of the inserting
transaction: `clock` counts those, so that rows may be committed in another
order than they sort in. Titles are abstract: `TitleFrom` is what a chat's content
comes to and `NewTitle` what a rename carries, either of which may be the default
title itself. A session made by the chat itself is a `"draft"` until
the question commits. SQLAlchemy writes only attributes that differ from what
was loaded, hence `seen`. The agent nodes are one step here: the same run seen from
within is StreamChat.

**Conversation** is what a user may rely on about the history: a question is
entered once, answered at most once and later than it was asked, and everything
goes with its session, for good. `ChatSession` implements it
(`ImplementsConversation`) with the live and the deleted sessions and the messages
table; drafts are not there yet.

**AgentNodes, ResearchGraph, StreamChat.** `AgentNodes` holds what the nodes
compute, as operators on a question, the retrieved chunks and an answer; which
chunks match and what the model says is open. `ResearchGraph` is the workflow
that `workflow.py` compiles, one action a node; the program never invokes it,
which makes it the abstract specification of `StreamChat`: the same operators in
the order `stream_chat` calls them, with the tokens and events it yields, a
provider that raises, and a client that leaves. `Graph` is the refinement mapping:
the planner's edge is taken with the planner's step, the tokens are a stutter
until the answer is complete, and a question for the assistant's name never
leaves the planner.

**TokenLifecycle.** `exp` and `key` are the claim and the expiry of
`revoked_token:<jti>`; time has `TPS` ticks a second because the code floors.
`req` is each request's progress, and its `late` says whether the token had been
spent before it came.

**Accounts.** `member`, `pw` and `verified` are the `users` table, `links` the
`oauth_accounts` rows with their primary keys, `req` the locals of each request:
what it read, which may be old by the time it writes. An insert and its commit
are one step because a conflicting insert waits for that commit, then fails. A
request that goes no further is one that failed.

**FixedWindow** and **LoginBackoff.** One counter (and one block) in Redis with
its TTL, and the requests that share it. `keys`/`era` number the incarnations of
a counter or the blocks set, so that properties can tell them apart. Both are
parts of one class and are proved about in one module, so the names they would
share carry `FW` in the first. No endpoint
passes `request_ip` to `AuthService`, so the e-mail is the only identifier of the
backoff.

**ConnectionPool.** `pc` is where a request, its stream and its background task
stand as far as the pool can tell; `held` are the sessions that have a connection.
A session takes one with its first statement and gives it back when its
transaction ends: in the commit of the service, when `get_db` is left, or, for a
stream abandoned in a transaction, when the garbage collector finds it
(`Collect`). The endpoints differ in whether a user is loaded before the rate
limit, in whether they read again after their commit, and in what runs after them.

**Migrations.** `db` holds the committed tables (mandatory and nullable columns,
foreign keys, enum types) and, of every account, the ways to sign in; a migration
is a list of the statements of `alembic/versions`, executed one by one on a copy
that replaces `db` at the commit, as PostgreSQL's transactional DDL does. `Operate` is
somebody's `alembic` by hand, as README.md:124 has it. `Boot` is a start of the
container: a command is a list of arguments of which one may be a script
(`Command`), `docker-entrypoint.sh` joins them into one line (`Entrypoint`), and what
runs is what a shell makes of that line (`FirstProgram`): for the command of
docker-compose.yml a bare `alembic`, for the image's own `CMD` the server. The
account requests are those of Accounts, reduced to the ways to sign in. Names that
ConnectionPool has too carry `MG`.

## 3. Runs

| Run | Module, cfg | Checks | Shows |
|---|---|---|---|
| documents | MCDocumentLifecycle, DocumentLifecycle | `RowHasFile`, `ReadyIsIndexed`, `DeletedHasNoFile`, `SettledDeleteDeindexes`, `ImplementsCatalogue`, `ProcessingEnds` | the stores agree as far as the code promises and together behave like a catalogue; only a failing process or database leaves a document PROCESSING |
| documents_delete_race | MCDocumentLifecycle, DocumentDeleteRace | `DeleteDeindexes` violated | see section 5 |
| chunking | MCChunking, Chunking | `EveryWordCovered`, `ChunksAdvance`, `PassAdvances`, `Terminates` | every document of up to two pages around all boundaries |
| chat | MCChatSession, ChatSession | `TypeOK`, `AnswerAfterQuestion`, `NoOrphanMessages`, `HistoryBeforeQuestion`, `TitleSettles`, `EveryQuestionAnswered`, `ImplementsConversation` | the tables behave like a conversation under disconnects, database failures and crashes; a stored question is answered unless its session, its client, the process or the database goes |
| chat_history | MCChatSession, ChatHistory | `HistoryIsMostRecent` violated | see section 5 |
| chat_rename | MCChatSession, ChatRename | `RenameStays` violated | see section 5 |
| stream_chat | MCStreamChat, StreamChat | `StoredWasShown`, `CitationsMatchPrompt`, `OwnScopeOnly`, `ImplementsGraph` | the inlined pipeline does what the workflow does, and the history holds what the client was sent |
| tokens | MCTokenLifecycle, TokenLifecycle | `KeyEndsWithToken`, `SpentTokenRejected` | revocation holds but for the last second of a token |
| accounts | MCAccounts, Accounts | `SignInPossible`, `LinksUnique`, `MatchedOnlyVerified` | nobody is locked out and links stay one to one, however requests overlap |
| rate_limits | MCRateLimits, RateLimits | `RefusedOverLimit`, `LimitPerWindow`, `BurstBounded`, `WindowEnds`, `OnlyBrokenImmortal`, `LiftedOnlyByEarlier`, `BlockEnds` | the limit holds and nobody is refused early; a running block is undone only by attempts let in before it; counter and block go away unless an outage came between INCR and EXPIRE |
| database | MCDatabase, Database | `NoHoldAndWait`, `IdleHoldsNothing`, `EveryoneServed`, `SchemaFollowsRevision`, `FailsOnlyForGoogleOnly`, `NobodyStranded`, `UpgradeArrives` | the pool cannot deadlock, nothing leaks a connection, and everybody is served although answers may hang; the hand-written migrations give the schema of the models, strand nobody and arrive |
| container_boot | Migrations, ContainerBoot | `ApiComesUp` violated | see section 5 |

Every `TypeOK` is a theorem; a run checks it where a slip of the code could break
it. `rate_limits` and `database` each check two components that share no state: in
every behaviour one of them stays as it was in the beginning (`RLNext`, `DBNext`),
since steps of the other could neither enable nor disturb its own.
`ErrorNeverIndexed`, `StatusMovesForward`, `IndexIsPosition`, `ChunkBounded`,
`WordsLeft`, `ProcessingIsUnderWay`, `AnswerIsUnderWay` and `OnlyBrokenStays` are
theorems for all values of the constants and are in no run.

**Bounds.** Two documents of different owners and two DELETEs: two deletes of one
document, and one of each, both race with the task; `MaxChunks = 2` separates "no
text", "some chunks" and "the right number". Documents touch each other only through
requests, so more add nothing. The chunking instance uses the code's 166 and 25
words and page sizes next to every boundary. Two chats over two sessions with a
rename and unlimited deletes give every pair of overlapping operations; a third chat
only repeats a pair. One of the two asks "New research chat", so that the title
derived may be the default again. `chat_history` sets `Window = 1`, which two chats
exceed; no property of the `chat` run depends on which rows the window keeps. The
stream is one run: two documents of the user, the first with two chunks, and one of
somebody else, so that sections, numbers and scope can be confused; answers of up to
two tokens cover none, white space, flagged, grounded and ungrounded ones, and
`MinOverlap = 1` stands for the code's 3. The pool has two connections for one
request of each kind and two chats, so that it runs out while streams, tasks and
requests hold and want connections. Migrations: three people, so that one with a
password, one with only a Google link and one with neither account can meet a
downgrade, and two crashes, so that an upgrade after a crash can crash again; starts
by docker compose and by the image alone both occur. `container_boot` needs neither
crashes nor more than one person, `chat_rename` one chat and one rename. Tokens: two
pairs and a reset link, lifetimes of one and two seconds, half-second ticks:
rounding, the last second and expiry all occur. Five requests against a limit of two
with a window of three seconds reach a third incarnation of the counter; four
sign-ins with threshold two reach the capped delay (`1, 2, 3` of at most 3).
Accounts: two addresses and two Google accounts with the same one, as after an
address was recycled; five requests suffice to register, verify, sign in by Google,
link and unlink around each other, and to have two of one kind race. Counters of
transactions and blocks are bounded by the finite number of requests, time in
TokenLifecycle by `MaxClock`.

**Fairness.** DocumentLifecycle and ChatSession assume weak fairness of the steps of
a request or task that has begun: the event loop resumes a coroutine whose await has
completed, and a call of the embedder, the LLM or a store is assumed to return or
raise in the end. No user is obliged to send a request, no failure to happen.
FixedWindow and LoginBackoff assume that time passes (`Second` and `Tick`);
FixedWindow also that a request goes on, LoginBackoff nothing else. ConnectionPool
assumes that the event loop goes on and that the database, the embedding provider
and the garbage collector do their part; it assumes neither that an answer ever ends
nor that a wait times out. Migrations assumes that a migration that has begun goes
on (`GoesOn`) and that the container is started again whenever it has exited
(`restart: unless-stopped`); nobody is obliged to call alembic. TokenLifecycle,
Accounts and StreamChat state safety only and assume nothing. Runs over finite sets
of requests come to rest when all are served, hence `CHECK_DEADLOCK FALSE` where
time is not modelled or bounded.

## 4. Proofs

`DocumentLifecycleProofs` proves for all sets of documents, users and requests,
every `MaxChunks` and every combination of faults, from `ConstantsAssumption`
alone:

* `Typing`: `Spec => []TypeOK`.
* `Invariance`: `Spec => []DocInv`, the inductive invariant. `RowHasFile` and its
  companions are not inductive: whether a step may write `ready` depends on how
  the task got there. `DocInv` adds, per document, that row and task exist only
  once the upload has committed and that the file is whole from `save_upload`'s
  return until a delete (`FilePart`); at which stages of the task Chroma may hold
  chunks and that a settled status means the task is over (`IndexPart`); and, per
  request, that holding a document implies a committed upload and, if its row was
  seen settled, a finished task (`DeletePart`).
* `ListedHasFile`, `ReadyIndexed`, `ErrorNotIndexed` and `DeletedIsGone` follow from
  it; `StatusForward` is the action property, by cases on the step.
  `DeleteDeindexed` is what a delete of a settled document gives.
* `Refinement`: `Spec => ImplementsCatalogue`. A step that concerns one document
  changes one place of the catalogue (`OnePlace`), and one lemma a group of actions
  says which action of the catalogue that is; `DocInv` supplies what the mapping
  cannot see, such as that a document with a live task that no delete has purged is
  still listed as PROCESSING (`LiveShelf`).

`ChunkingProofs` proves for documents of any length and all sizes with
`OverlapWords < WordsPerChunk` (`SizesAssumption`, `OverlapAssumption`,
`DocumentAssumption`): `Invariance` of `ChunkInv`, which says where the loop
stands relative to the last chunk (`LoopPart`) and up to which word each page is
covered (`CoverPart`); from it `Coverage` (no word is lost) and
`ChunksWellFormed`.

`StreamChatProofs` proves for any documents, chunks, words, `TopK`, `MinOverlap`
and lengths, from `ConstantsAssumption` and `TextsAssumption`: `Invariance` of
`PipeInv`, which says for each point of the pipeline what has been retrieved
(`StagePart`), that the answer is what has been shown and the citations those of
the retrieved chunks (`TextPart`), and what the verdict makes of them (`EndPart`);
from it `ShownIsStored`, `CitationsAgree`, `ScopeSound`, and `Refinement`:
`Spec => ImplementsGraph`, an action of the pipeline at a time (`GraphStep`).

`AccountsProofs` proves for any addresses, Google accounts and number of
requests, from `ConstantsAssumption`: `Invariance` of `AccInv`. `SignInPossible`
is not inductive, since an unlink deletes by what it read earlier: `ReadPart` adds
what every request still knows after its reads (a password seen is still there,
the row it found has not become another user's), `RowPart` why it does (rows are
inserted once, by requests that end with it). From it `NobodyLockedOut`,
`LinksSound` and `MatchesSound`.

`ChatSessionProofs` proves for any sessions, chats, renames, windows and faults,
from `ConstantsAssumption`: `Invariance` of `ChatInv`. That no message outlives its
session depends on what a stream or task that is about to insert one still knows
(`SessPart`), and that an answer has its question on the question's being there
until the session goes (`QuestionPart`). From it `NoOrphans`, `AnswersFollow`,
`TitleHolds`: a background task that belongs to a settled session writes the title
it began under. `Refinement` (`Spec => ImplementsConversation`) needs `OnceInv` as
well: before it asks a chat has no message, before its task commits no answer
(`StoredOnce`). `Typing` and `HistoryOwn` follow from `TableInvariance`, which adds
that no two messages bear the same time and no open transaction one that is in the
table already (`DatePart`): only then has every message a place in the chronological
order, and sorting, cutting and reversing rows makes rows of the table again
(`ChronologicalRows`, `OldestRows`).

`TokenLifecycleProofs` proves for any tokens, lifetimes and ticks a second:
`Floored`, how the two divisions of the code round; `Invariance` of `TokInv`, in
which a spent token is `Dead` (its key was entered, or its last second had begun)
and stays so; from it `Typing`, `KeysEnd`, `SpentRejected`.

`RateLimitProofs` holds the proofs about both halves of `core/rate_limits.py`. For
any requests, limit and period (`FWAssumption`), `WindowInvariance` of `WindowInv`:
none of the three limits is inductive, since they speak of requests already let
through, and the code decides by a number. `WindowInv` ties the number to them:
the counter says how many places of its incarnation are taken, until all are
(`CountPart`), and none has more than `Limit` (`LimitPart`); whoever counted did so in
an incarnation there was, and the request that is about to set the expiry finds its
counter without one (`KeyPart`, `FirstPart`); and whoever an earlier incarnation let
through will be a window old when the present one ends (`AgePart`), so that at most
two incarnations meet in any `Period`. From it
`LimitHolds`, `RefusalsJust` and `BurstHolds`, with the library's facts about
cardinality. For every threshold, base, maximum and window of the backoff,
`BackoffInvariance` of `BackInv`, which says what an attempt at each place knows of
the counter and the block; from it `BackoffTyping`, `CounterExpires` and the action
property `BlockHolds`.

`DatabaseProofs` holds the proofs about the two ways to the database. For any
requests and any size of the pool: `PoolInvariance` of `PoolInv` - a session holds a
connection exactly in those places where its code has a transaction open - and from
it `PoolTyping` (the pool is never exceeded), `NoDeadlock` and `NothingLeftBehind`.
For any users and number of crashes: `MigrationInvariance` of `MigrationInv`. The
eleven statements from base to head pass through twelve schemas, `Database(0, ..)`
to `Database(11, ..)`; `Statements` shows that the three upgrades and the three
downgrades, as they are written out, are stretches of that one way and back,
`Routes` that what alembic walks between any two revisions is, and `GoesForth` and
`GoesBack` that every statement can run on the schema before it and makes the one
behind it. `MigrationInv` says that the committed schema is that of the revision and
that a migration in progress has what its next statement expects, with the accounts
it started from or, once a downgrade has dropped the links, those without Google.
The one exception is the statement that makes the password mandatory again, between
two schemas no revision has. From it `MigrationTyping`, `SchemaHolds`,
`OnlyGoogleFails` and `NoneStranded`. `Programs` computes what the shell of the image
starts for either command, and `ComposeNeverServes` draws the consequence: with docker
compose alone the container never migrates and never serves, whatever operators do.

Only model-checked: the liveness properties (`ProcessingEnds`, `Terminates`,
`EveryQuestionAnswered`, `WindowEnds`, `BlockEnds`, `EveryoneServed`,
`UpgradeArrives`), which are beyond the proof system here. What they rest on is
proved as far as it is safety, namely that no order of events but the failure named
leaves anybody without a step to take:

* `ProcessingAccounted` (`ProcessingIsUnderWay`): a document listed as PROCESSING has
  a live task unless the process or the database failed under it; no delete or
  second upload takes it away.
* `AnswersAccounted` (`AnswerIsUnderWay`): a stored question has its answer or a
  stream or task on the way to it, unless client, process or database failed; no
  overlapping chat, rename or delete is a reason.
* `Measure` (`WordsLeft`, `PassAdvances`): until every page is cut a pass of the
  chunking loop is possible, and each comes closer to the end of its page; an overlap
  as large as a chunk would break it (`OverlapAssumption`).
* `ExpirySet` (`OnlyBrokenStays`): a counter without an expiry is about to get one,
  or the request that created it broke off there.
* `NoDeadlock`: whoever waits for a connection holds none.
* `OnlyGoogleFails`: no statement of an upgrade fails, so that only a crash keeps one
  from its end.

That the steps which are possible are then taken is fairness, and TLC's part.

## 5. Where the code and its words part

* `documents_delete_race`: `process_document_task` does not look at the row again
  after `embed`, so a DELETE answered meanwhile leaves chunks in Chroma for good,
  against README.md:90 "Delete (and de-index)". `SettledDeleteDeindexes` is what
  does hold.
* `chat_history`: `list_for_session` appends `created_at.desc()` to a query that
  already sorts ascending, so LIMIT keeps the oldest rows, against
  research_service.py:30 "most recent messages".
* `chat_rename`: `_persist_assistant_turn` hands `_derive_title` the title read when
  the stream began, not the present one, so a rename answered while the first answer
  streams is overwritten (research_service.py:312), although a title other than the
  default is to be left alone (research_service.py:251) and
  tests/test_research_sessions.py:38 expects a session to be called what the PATCH
  said. `TitleSettles` is what does hold.
* `container_boot`: docker-entrypoint.sh:10 runs `su app -s /bin/sh -c "$*"`, which
  joins the arguments of docker-compose.yml:75-77 (docker-compose.prod.yml:65-67 has
  the same) into `sh -c alembic upgrade head && uvicorn ...`. The inner shell takes
  `alembic` for its whole script; alembic without a command ends with a usage error,
  so that `&&` starts nothing and the container exits and is restarted for ever,
  against README.md:106-107 "the API (which runs `alembic upgrade head` on boot).
  API available at". With the quotes kept, TLC finds `ApiComesUp` to hold.

Noticed while modelling, and not given a run:

* Two overlapping refreshes with one token both get a pair: the lookup and the
  revocation are two Redis commands (tests/test_auth.py:120 presents the token
  twice, one after the other).
* Two overlapping `set_initial_password` both succeed and the later wins, although
  the endpoint refuses when a password is set.
* README.md:66-71 has message and report stored before the final citations event
  and `[DONE]`; the code creates the task that stores them after `[DONE]` has been
  taken, so a client that closes the stream there loses the answer (`"aborted"` in
  the excuse of `EveryQuestionAnswered`).
* A blocked answer is graded as it was generated, and its scores are stored beside
  the fallback. Two documents with one name share a section of the prompt.
* A token revoked in its last second is never entered (`SpentTokenRejected` states
  the exact limit); a reset link whose use fails between commit and revocation can
  be used again.
* An outage between INCR and EXPIRE leaves a counter for good (the excuse in
  `WindowEnds` and in `OnlyBrokenImmortal`, which names the place of the outage).
* A failing process or database excuses `EveryQuestionAnswered` and `ProcessingEnds`,
  because the code says so: the docstring of `_persist_assistant_turn` accepts the
  loss of an answer, and nothing takes up a task whose process died.
* A downgrade from revision 0003 fails while somebody has only Google to sign in
  with (`FailsOnlyForGoogleOnly`); the transaction keeps the links it had dropped.
* A stream abandoned between its first statement and the commit of the question
  keeps its connection until it is garbage collected: no handler in `stream_chat`
  or `get_db` closes that session any more.
* A first question of white space gives the title `""`, which `SessionRead` refuses; an
  answer of more than 8000 characters is stored and refused by `MessageRead`.
* README.md:142-144 says Redis is not used for rate limits, but
  `core/rate_limits.py` uses it; the slowapi limiter is configured and used by no
  route.

## 6. Not modelled

* LLM and embedding providers: calls of a library behind singletons that are made
  without an await, so that no two requests interleave in it. That they fail, or
  hang, is part of DocumentLifecycle, StreamChat and ConnectionPool.
* Settings and the model list: one column, last write wins; nothing reads it twice.
* Middleware, error handlers, schemas: functions of one request. The slowapi
  limiter is configured and used by no route.
* E-mail: rendering and SMTP, whose failures are logged and ignored.
* Application wiring, configuration, health, logging: set up once and never changed.
  That `/health` takes a connection is in ConnectionPool.
* Text extraction and OCR, Google's token verification, HTTP framing: library work.
* Of the migrations, column types, lengths, defaults, indexes and unique
  constraints, and alembic's offline mode.
* Ownership other than a document's: `get_owned` makes a stranger's request equal to
  one for something that does not exist. Several server processes: the deployment
  starts one.

## 7. Plan

1. Done: DocumentLifecycle with Catalogue, Chunking, ChatSession with Conversation,
   StreamChat with ResearchGraph, TokenLifecycle, Accounts, FixedWindow,
   LoginBackoff, ConnectionPool and Migrations, each with the proofs of its safety
   properties.
2. Proofs that remain: for the pool that whoever waits waits for requests that hold
   and go on, and for the backoff that a running block is counted down.
3. Composition: DocumentLifecycle with Chunking (the count the task stores is the
   number of chunks cut) and with the retriever (an answer under way while its
   document is deleted).
