----------------------------- MODULE Migrations -----------------------------
(***************************************************************************)
(* The schema of the database and the accounts in it through upgrades,     *)
(* downgrades and starts of the container: alembic/, the model classes,    *)
(* docker-compose.yml, Dockerfile and docker-entrypoint.sh.                *)
(*                                                                         *)
(* A migration runs statement by statement in one transaction, on a copy   *)
(* that becomes the database when it commits.  What it has altered is      *)
(* locked, so requests come before or after it.  One migration runs at a   *)
(* time: alembic itself does not look, whoever calls it has to.            *)
(***************************************************************************)
EXTENDS Naturals, Sequences

CONSTANTS Users,      \* people who may have an account
          MaxCrashes, \* bound on the number of crashes
          Deployments \* how the container is started

ASSUME MGAssumption == MaxCrashes \in Nat /\ Deployments \subseteq {"compose", "image"}

VARIABLES db,       \* the committed tables, enum types, and accounts
          rev,      \* alembic_version, 0 before the first migration
          run,      \* the migration in progress, or None
          api,      \* the api container
          crashes   \* crashes so far

MGvars == <<db, rev, run, api, crashes>>

------------------------------------------------------------------------------
(* Tables: which columns must have a value, which may be null, which tables *)
(* the foreign keys refer to, and which enum types are used.                *)

Table(required, optional, refs, enums) ==
    [required |-> required \cup {"id", "created_at", "updated_at"},
     optional |-> optional, refs |-> refs, enums |-> enums]

\* What app/models declares, and every query names.
Models ==
    [users |-> Table({"email", "name", "is_active", "is_verified", "default_model"},
                     {"hashed_password"}, {}, {}),
     oauth_accounts |-> Table({"user_id", "provider", "provider_account_id", "email"},
                              {}, {"users"}, {}),
     research_sessions |-> Table({"user_id", "title", "model", "pinned"}, {}, {"users"}, {}),
     messages |-> Table({"session_id", "role", "content"}, {"citations", "error"},
                        {"research_sessions"}, {"message_role"}),
     documents |-> Table({"user_id", "name", "type", "status", "size_bytes", "storage_path"},
                         {"page_count", "chunk_count", "error_message"},
                         {"users"}, {"document_type", "document_status"}),
     research_reports |-> Table({"session_id", "provider", "model", "used_retrieval",
                                 "guardrail_passed"},
                                {"message_id", "faithfulness", "relevance", "latency_ms",
                                 "prompt_tokens", "completion_tokens", "total_tokens",
                                 "retrieved_chunk_ids"},
                                {"research_sessions", "messages"}, {})]

Create(t, def)  == [op |-> "create", on |-> t, def |-> def]
Drop(t)         == [op |-> "drop", on |-> t]
CreateType(e)   == [op |-> "create type", on |-> e]
DropType(e)     == [op |-> "drop type", on |-> e]
AddRequired(c)  == [op |-> "add column", on |-> c]
DropRequired(c) == [op |-> "drop column", on |-> c]
DropNotNull(c)  == [op |-> "drop not null", on |-> c]
SetNotNull(c)   == [op |-> "set not null", on |-> c]

Upgrade0001 ==
    << Create("users", Table({"email", "hashed_password", "name", "is_active",
                              "default_model"}, {}, {}, {})),
       Create("research_sessions", Table({"user_id", "title", "model", "pinned"},
                                         {}, {"users"}, {})),
       CreateType("message_role"),
       Create("messages", Table({"session_id", "role", "content"}, {"citations", "error"},
                                {"research_sessions"}, {"message_role"})),
       CreateType("document_type"),
       CreateType("document_status"),
       Create("documents", Table({"user_id", "name", "type", "status", "size_bytes",
                                  "storage_path"},
                                 {"page_count", "chunk_count", "error_message"},
                                 {"users"}, {"document_type", "document_status"})),
       Create("research_reports", Table({"session_id", "provider", "model", "used_retrieval",
                                         "guardrail_passed"},
                                        {"message_id", "faithfulness", "relevance",
                                         "latency_ms", "prompt_tokens", "completion_tokens",
                                         "total_tokens", "retrieved_chunk_ids"},
                                        {"research_sessions", "messages"}, {})) >>

\* A slip of Downgrade0001: the tables go in the order they came.
DowngradeInOrder ==
    << Drop("users"), Drop("research_sessions"), DropType("message_role"), Drop("messages"),
       DropType("document_type"), DropType("document_status"), Drop("documents"),
       Drop("research_reports") >>

Downgrade0001 ==
    << Drop("research_reports"), Drop("documents"), DropType("document_status"),
       DropType("document_type"), Drop("messages"), DropType("message_role"),
       Drop("research_sessions"), Drop("users") >>

\* A slip of Downgrade0002: nothing is taken back.
DowngradeEmpty == << >>

Upgrade0002   == << AddRequired("is_verified") >>
Downgrade0002 == << DropRequired("is_verified") >>

OAuthAccounts == Table({"user_id", "provider", "provider_account_id", "email"}, {}, {"users"}, {})

\* A slip of Upgrade0003: the password stays mandatory.
UpgradeKeepsNotNull == << Create("oauth_accounts", OAuthAccounts) >>

Upgrade0003   == << DropNotNull("hashed_password"), Create("oauth_accounts", OAuthAccounts) >>
Downgrade0003 == << Drop("oauth_accounts"), SetNotNull("hashed_password") >>

HeadRev == 3

\* The statements between two revisions, in the order alembic walks them.
Path(from, to) ==
    LET Up(n, s)   == IF from < n /\ n <= to THEN s ELSE << >>
        Down(n, s) == IF to < n /\ n <= from THEN s ELSE << >>
    IN  Up(1, Upgrade0001) \o Up(2, Upgrade0002) \o Up(3, Upgrade0003)
          \o Down(3, Downgrade0003) \o Down(2, Downgrade0002) \o Down(1, Downgrade0001)

------------------------------------------------------------------------------
(* What PostgreSQL makes of a statement.  Types are created and dropped with *)
(* checkfirst; an account is the set of ways its user can sign in.           *)

HasAccount(accounts, u) == "account" \in accounts[u]

CanRun(s, d) ==
    CASE s.op = "create" -> /\ s.on \notin DOMAIN d.tables
                            /\ s.def.refs \subseteq DOMAIN d.tables
                            /\ s.def.enums \subseteq d.types
      [] s.op = "drop" -> /\ s.on \in DOMAIN d.tables
                          /\ \A t \in DOMAIN d.tables : s.on \notin d.tables[t].refs
      [] s.op = "create type" -> TRUE
      [] s.op = "drop type" -> \A t \in DOMAIN d.tables : s.on \notin d.tables[t].enums
      [] s.op = "add column" -> s.on \notin d.tables["users"].required
      [] s.op = "drop column" -> s.on \in d.tables["users"].required
      [] s.op = "drop not null" -> TRUE
      [] s.op = "set not null" ->
            \A u \in Users : HasAccount(d.accounts, u) => "password" \in d.accounts[u]

WithUsers(d, required, optional) ==
    [d EXCEPT !.tables["users"] = [required |-> required, optional |-> optional,
                                   refs |-> @.refs, enums |-> @.enums]]

\* The database after a statement that can run.
After(s, d) ==
    LET required == d.tables["users"].required
        optional == d.tables["users"].optional
        others   == DOMAIN d.tables \ {s.on}
    IN  CASE s.op = "create" -> [d EXCEPT !.tables = [t \in others \cup {s.on} |->
                                    IF t = s.on THEN s.def ELSE d.tables[t]]]
          [] s.op = "drop" -> [d EXCEPT !.tables = [t \in others |-> d.tables[t]],
                                 !.accounts = [u \in Users |->
                                    CASE s.on = "users" -> {}
                                      [] s.on = "oauth_accounts" -> d.accounts[u] \ {"google"}
                                      [] OTHER -> d.accounts[u]]]
          [] s.op = "create type"   -> [d EXCEPT !.types = @ \cup {s.on}]
          [] s.op = "drop type"     -> [d EXCEPT !.types = @ \ {s.on}]
          [] s.op = "add column"    -> WithUsers(d, required \cup {s.on}, optional)
          [] s.op = "drop column"   -> WithUsers(d, required \ {s.on}, optional)
          [] s.op = "drop not null" -> WithUsers(d, required \ {s.on}, optional \cup {s.on})
          [] s.op = "set not null"  -> WithUsers(d, required \cup {s.on}, optional \ {s.on})

------------------------------------------------------------------------------
None == [todo |-> <<>>, by |-> "nobody"]
Idle == run = None

MGInit == /\ db = [tables |-> [t \in {} |-> {}], types |-> {}, accounts |-> [u \in Users |-> {}]]
        /\ rev = 0
        /\ run = None
        /\ api = "stopped"
        /\ crashes = 0

Begin(who, target) ==
    run' = [todo |-> Path(rev, target), by |-> who, to |-> target, work |-> db]

\* alembic upgrade or downgrade called by hand (README.md, "Locally"), whatever
\* the container is doing.
Operate == /\ Idle
           /\ \E target \in (0..HeadRev) \ {rev} : Begin("operator", target)
           /\ UNCHANGED <<db, rev, api, crashes>>

------------------------------------------------------------------------------
(* The start of the container.  A command is a list of arguments, of which   *)
(* one may be a script of several words.                                     *)

\* command: of docker-compose.yml, or the image's own CMD.
Command(d) ==
    IF d = "compose"
    THEN [words |-> <<"sh", "-c">>, script |-> <<"alembic", "upgrade", "head", "&&", "uvicorn">>]
    ELSE [words |-> <<"uvicorn">>,  script |-> << >>]

\* exec su app -s /bin/sh -c "$*": the arguments become one line, in which
\* nothing marks any more where the script began.
Entrypoint(command) == command.words \o command.script

UpToAnd(line) ==
    SubSeq(line, 1, CHOOSE n \in 0..Len(line) : /\ \A i \in 1..n : line[i] # "&&"
                                                /\ n < Len(line) => line[n + 1] = "&&")

\* The program a shell starts on such a line.  "sh -c" takes the next word for
\* its script and those behind for the script's parameters.
FirstProgram(line) == IF line[1] = "sh" THEN <<line[3]>> ELSE UpToAnd(line)

\* The container is started: a migration goes before whatever && puts behind it,
\* the server stays, anything else (alembic without a command is a usage error)
\* ends the container.
Boot(d) ==
    LET program == FirstProgram(Entrypoint(Command(d))) IN
    /\ api = "stopped"
    /\ IF program = <<"alembic", "upgrade", "head">>
       THEN Idle /\ Begin("api", HeadRev) /\ api' = "migrating"
       ELSE /\ api' = IF program[1] = "uvicorn" THEN "serving" ELSE "failing"
            /\ UNCHANGED run
    /\ UNCHANGED <<db, rev, crashes>>

\* The container exits; restart: unless-stopped starts it again.
Exit == /\ api = "failing"
        /\ api' = "stopped"
        /\ UNCHANGED <<db, rev, run, crashes>>

------------------------------------------------------------------------------
\* A slip of Statement: every statement is committed by itself.
Autocommit ==
    /\ run.todo # <<>>
    /\ CanRun(Head(run.todo), run.work)
    /\ run' = [run EXCEPT !.todo = Tail(@), !.work = After(Head(run.todo), @)]
    /\ db'  = run'.work
    /\ UNCHANGED <<rev, api, crashes>>

Statement ==
    /\ run.todo # <<>>
    /\ CanRun(Head(run.todo), run.work)
    /\ run' = [run EXCEPT !.todo = Tail(@), !.work = After(Head(run.todo), @)]
    /\ UNCHANGED <<db, rev, api, crashes>>

\* The statement fails: the transaction is rolled back, alembic exits, and so
\* does the container if it was starting.
StatementFails ==
    /\ run.todo # <<>>
    /\ ~CanRun(Head(run.todo), run.work)
    /\ run' = None
    /\ api' = IF run.by = "api" THEN "stopped" ELSE api
    /\ UNCHANGED <<db, rev, crashes>>

Commit ==
    /\ ~Idle /\ run.todo = <<>>
    /\ db'  = run.work
    /\ rev' = run.to
    /\ run' = None
    /\ api' = IF run.by = "api" THEN "serving" ELSE api
    /\ UNCHANGED crashes

Crash == /\ crashes < MaxCrashes
         /\ crashes' = crashes + 1
         /\ api' = "stopped"
         /\ run' = None
         /\ UNCHANGED <<db, rev>>

------------------------------------------------------------------------------
(* The requests that change how somebody signs in; they name every column    *)
(* of the models, and fail while the schema is another one.                  *)

Fits == db.tables = Models

Become(u, ways) == /\ api = "serving" /\ Idle /\ Fits
                   /\ db' = [db EXCEPT !.accounts[u] = ways]
                   /\ UNCHANGED <<rev, run, api, crashes>>

Register(u)     == ~HasAccount(db.accounts, u) /\ Become(u, {"account", "password"})
GoogleSignUp(u) == ~HasAccount(db.accounts, u) /\ Become(u, {"account", "google"})
LinkGoogle(u)   == HasAccount(db.accounts, u) /\ Become(u, db.accounts[u] \cup {"google"})
UnlinkGoogle(u) == "password" \in db.accounts[u] /\ Become(u, db.accounts[u] \ {"google"})
SetPassword(u)  == HasAccount(db.accounts, u) /\ Become(u, db.accounts[u] \cup {"password"})

Request(u) == Register(u) \/ GoogleSignUp(u) \/ LinkGoogle(u) \/ UnlinkGoogle(u) \/ SetPassword(u)

Start == \E d \in Deployments : Boot(d)

MGNext == \/ Start \/ Exit \/ Operate \/ Statement \/ StatementFails \/ Commit \/ Crash
        \/ \E u \in Users : Request(u)

\* A migration that has begun goes on.
GoesOn == WF_MGvars(Statement) /\ WF_MGvars(StatementFails) /\ WF_MGvars(Commit)

\* restart: unless-stopped.  Nobody is obliged to call alembic.
MGFairness == GoesOn /\ WF_MGvars(Start) /\ WF_MGvars(Exit)

MGSpec == MGInit /\ [][MGNext]_MGvars /\ MGFairness

------------------------------------------------------------------------------
\* Every variable keeps to its values.
MGTypeOK ==
    /\ rev \in 0..HeadRev
    /\ DOMAIN db.tables \subseteq DOMAIN Models
    /\ db.accounts \in [Users -> SUBSET {"account", "password", "google"}]
    /\ api \in {"stopped", "migrating", "serving", "failing"}
    /\ run.by \in {"nobody", "api", "operator"}
    /\ run.by = "api" <=> api = "migrating"
    /\ crashes \in 0..MaxCrashes

\* At the head revision the tables, columns, foreign keys and enum types are
\* those of the models, on whatever way the database got there, and at base
\* nothing is left: what the README asks to be confirmed of the migrations.
SchemaFollowsRevision ==
    /\ rev = HeadRev => Fits /\ db.types = UNION {Models[t].enums : t \in DOMAIN Models}
    /\ rev = 0 => DOMAIN db.tables = {} /\ db.types = {}

\* No migration fails, from any revision and with any accounts, but one: the
\* downgrade from 0003 while somebody has only Google to sign in with.
FailsOnlyForGoogleOnly ==
    run.todo # <<>> /\ ~CanRun(Head(run.todo), run.work) =>
        /\ rev = 3 /\ run.to < 3
        /\ \E u \in Users : db.accounts[u] = {"account", "google"}

\* No account is left without a way to sign in by a migration, whether it
\* commits, fails or dies half way.
NobodyStranded ==
    \A u \in Users : HasAccount(db.accounts, u) => db.accounts[u] # {"account"}

\* An upgrade to head arrives there, whatever revision and accounts it sets out
\* from and however earlier migrations ended; only a crash can stop it on the way.
UpgradeArrives ==
    \A n \in 0..MaxCrashes :
        (~Idle /\ run.to = HeadRev /\ crashes = n) ~> (rev = HeadRev \/ crashes > n)

\* "This starts [...] the API (which runs alembic upgrade head on boot)": left to
\* itself, the container is serving in the end after every start and restart.
ApiComesUp == <>[][~Operate]_MGvars => (api # "serving" ~> api = "serving")
=============================================================================
