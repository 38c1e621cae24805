--------------------------- MODULE DatabaseProofs ---------------------------
(***************************************************************************)
(* The two ways to the database, for any requests, pool size and users.    *)
(*                                                                         *)
(* The connection pool: a session holds a connection only in the places    *)
(* between its first statement and the end of its transaction, from which  *)
(* it follows that nobody holds and waits and that nothing is left behind. *)
(*                                                                         *)
(* The migrations: the eleven statements from base to head pass through    *)
(* twelve schemas, and the downgrades through the same ones backwards, so  *)
(* that a migration in progress has always the schema its next statement   *)
(* expects.                                                                *)
(***************************************************************************)
EXTENDS ConnectionPool, Migrations, FiniteSetTheorems, TLAPS

------------------------------------------------------------------------------
(* The connection pool.                                                     *)

\* Where the request's session, and where a background session, is in a
\* transaction.
BoundPlaces == {"authenticated", "working", "reading", "preparing", "abandoned"}
OwnPlaces   == {"embedding", "storing"}

Places == {"idle", "abandoned", "over"} \cup Wants \cup Works

\* A connection is held in those places only.
HeldExactly == \A r \in Requests : /\ Bound(r) \in held => pc[r] \in BoundPlaces
                                   /\ Own(r) \in held   => pc[r] \in OwnPlaces

PoolInv == TypeOK /\ HeldExactly

USE DEF Bound, Own, Goto

------------------------------------------------------------------------------
\* The two ways the set of held connections changes keep it within the pool.

\* A connection that is checked out was to be had.
LEMMA CheckoutFits ==
    ASSUME TypeOK, NEW s \in Requests \X {"request", "own"}, Checkout(s)
    PROVE  /\ held' \subseteq Requests \X {"request", "own"}
           /\ IsFiniteSet(held') /\ Cardinality(held') <= Size
<1>1. IsFiniteSet(held) /\ Cardinality(held) \in Nat
  BY FS_CardinalityType DEF TypeOK
<1>2. IsFiniteSet(held \cup {s})
      /\ Cardinality(held \cup {s}) \in {Cardinality(held), Cardinality(held) + 1}
  BY <1>1, FS_AddElement
<1>3. Size \in Nat
  BY ConstantsAssumption
<1> QED BY <1>1, <1>2, <1>3 DEF TypeOK, Checkout

\* A connection that is given back makes room.
LEMMA ReturnFits ==
    ASSUME TypeOK, NEW s, Return(s)
    PROVE  /\ held' \subseteq Requests \X {"request", "own"}
           /\ IsFiniteSet(held') /\ Cardinality(held') <= Size
<1>1. IsFiniteSet(held) /\ Cardinality(held) \in Nat
  BY FS_CardinalityType DEF TypeOK
<1>2. IsFiniteSet(held \ {s}) /\ Cardinality(held \ {s}) <= Cardinality(held)
      /\ Cardinality(held \ {s}) \in Nat
  <2>1. held \ {s} \subseteq held
    OBVIOUS
  <2> QED BY <1>1, <2>1, FS_Subset, FS_CardinalityType
<1>3. Size \in Nat
  BY ConstantsAssumption
<1> QED BY <1>1, <1>2, <1>3 DEF TypeOK, Return

\* One request moves; what it holds then fits the place it has come to.
LEMMA MoveKeeps ==
    ASSUME PoolInv, NEW r \in Requests, NEW p \in Places, Goto(r, p),
           held' \subseteq Requests \X {"request", "own"},
           IsFiniteSet(held'), Cardinality(held') <= Size,
           held' \subseteq held \cup {Bound(r), Own(r)},
           Bound(r) \in held' => p \in BoundPlaces,
           Own(r) \in held' => p \in OwnPlaces
    PROVE  PoolInv'
<1>1. TypeOK'
  BY DEF PoolInv, TypeOK, Places
<1>2. ASSUME NEW q \in Requests
      PROVE  /\ Bound(q) \in held' => pc'[q] \in BoundPlaces
             /\ Own(q) \in held'   => pc'[q] \in OwnPlaces
  <2>1. CASE q = r
    BY <2>1 DEF PoolInv, TypeOK
  <2>2. CASE q # r
    BY <2>2 DEF PoolInv, TypeOK, HeldExactly
  <2> QED BY <2>1, <2>2
<1> QED BY <1>1, <1>2 DEF PoolInv, HeldExactly

------------------------------------------------------------------------------
LEMMA RequestKeeps == ASSUME PoolInv, NEW r \in Requests, RequestStep(r) PROVE PoolInv'
<1> USE DEF PoolInv, HeldExactly, BoundPlaces, OwnPlaces, Places, Wants, Works
<1>1. CASE Enter(r)
  <2>1. Checkout(Bound(r)) /\ Goto(r, "working") /\ pc[r] = "entering"
    BY <1>1 DEF Enter
  <2> QED BY <2>1, CheckoutFits, MoveKeeps DEF Checkout
<1>2. CASE Authenticate(r)
  <2>1. Checkout(Bound(r)) /\ Goto(r, "authenticated") /\ pc[r] = "authenticating"
    BY <1>2 DEF Authenticate
  <2> QED BY <2>1, CheckoutFits, MoveKeeps DEF Checkout
<1>3. CASE PassLimit(r)
  BY <1>3, MoveKeeps DEF PassLimit, TypeOK
<1>4. CASE ServiceCommit(r)
  <2>1. Return(Bound(r)) /\ Goto(r, "committed") /\ pc[r] = "working"
    BY <1>4 DEF ServiceCommit
  <2> QED BY <2>1, ReturnFits, MoveKeeps DEF Return
<1>5. CASE ReadAgain(r)
  BY <1>5, MoveKeeps DEF ReadAgain, TypeOK
<1>6. CASE Reread(r)
  <2>1. Checkout(Bound(r)) /\ Goto(r, "reading") /\ pc[r] = "rereading"
    BY <1>6 DEF Reread
  <2> QED BY <2>1, CheckoutFits, MoveKeeps DEF Checkout
<1>7. CASE Respond(r)
  <2>1. Return(Bound(r)) /\ Goto(r, Afterwards(r)) /\ pc[r] \in {"working", "committed", "reading"}
    BY <1>7 DEF Respond
  <2>2. Afterwards(r) \in Places
    BY DEF Afterwards
  <2> QED BY <2>1, <2>2, ReturnFits, MoveKeeps DEF Return
<1>8. CASE Fail(r)
  <2>1. Return(Bound(r)) /\ Goto(r, "over")
        /\ pc[r] \in {"authenticated", "working", "committed", "reading"}
    BY <1>8 DEF Fail
  <2> QED BY <2>1, ReturnFits, MoveKeeps DEF Return
<1> QED BY <1>1, <1>2, <1>3, <1>4, <1>5, <1>6, <1>7, <1>8 DEF RequestStep

LEMMA StreamKeeps == ASSUME PoolInv, NEW r \in Requests, StreamStep(r) PROVE PoolInv'
<1> USE DEF PoolInv, HeldExactly, BoundPlaces, OwnPlaces, Places, Wants, Works
<1>1. CASE OpenStream(r)
  <2>1. Checkout(Bound(r)) /\ Goto(r, "preparing") /\ pc[r] = "opening"
    BY <1>1 DEF OpenStream
  <2> QED BY <2>1, CheckoutFits, MoveKeeps DEF Checkout
<1>2. CASE CommitQuestion(r)
  <2>1. Return(Bound(r)) /\ Goto(r, "answering") /\ pc[r] = "preparing"
    BY <1>2 DEF CommitQuestion
  <2> QED BY <2>1, ReturnFits, MoveKeeps DEF Return
<1>3. CASE Collect(r)
  <2>1. Return(Bound(r)) /\ Goto(r, "over") /\ pc[r] = "abandoned"
    BY <1>3 DEF Collect
  <2> QED BY <2>1, ReturnFits, MoveKeeps DEF Return
<1>4. CASE Persist(r)
  <2>1. Checkout(Own(r)) /\ Goto(r, "storing") /\ pc[r] = "persisting"
    BY <1>4 DEF Persist
  <2> QED BY <2>1, CheckoutFits, MoveKeeps DEF Checkout
<1>5. CASE PersistEnds(r)
  <2>1. Return(Own(r)) /\ Goto(r, "over") /\ pc[r] = "storing"
    BY <1>5 DEF PersistEnds
  <2> QED BY <2>1, ReturnFits, MoveKeeps DEF Return
<1> QED BY <1>1, <1>2, <1>3, <1>4, <1>5 DEF StreamStep

LEMMA TaskKeeps == ASSUME PoolInv, NEW r \in Requests, TaskStep(r) PROVE PoolInv'
<1> USE DEF PoolInv, HeldExactly, BoundPlaces, OwnPlaces, Places, Wants, Works
<1>1. CASE TaskBegins(r)
  <2>1. Checkout(Own(r)) /\ Goto(r, "embedding") /\ pc[r] = "queued"
    BY <1>1 DEF TaskBegins
  <2> QED BY <2>1, CheckoutFits, MoveKeeps DEF Checkout
<1>2. CASE TaskEnds(r)
  <2>1. Return(Own(r)) /\ Goto(r, "over") /\ pc[r] = "embedding"
    BY <1>2 DEF TaskEnds
  <2> QED BY <2>1, ReturnFits, MoveKeeps DEF Return
<1> QED BY <1>1, <1>2 DEF TaskStep

\* The steps that leave the held connections alone.
LEMMA OthersKeep ==
    ASSUME PoolInv, NEW r \in Requests,
           Arrive(r) \/ SpawnPersist(r) \/ StreamBreaks(r) \/ TimesOut(r)
    PROVE  PoolInv'
<1> USE DEF PoolInv, HeldExactly, BoundPlaces, OwnPlaces, Places, Wants, Works
<1>1. CASE Arrive(r)
  BY <1>1, MoveKeeps DEF Arrive, TypeOK
<1>2. CASE SpawnPersist(r)
  BY <1>2, MoveKeeps DEF SpawnPersist, TypeOK
<1>3. CASE StreamBreaks(r)
  BY <1>3, MoveKeeps DEF StreamBreaks, TypeOK
<1>4. CASE TimesOut(r)
  BY <1>4, MoveKeeps DEF TimesOut, TypeOK
<1> QED BY <1>1, <1>2, <1>3, <1>4

------------------------------------------------------------------------------
\* PoolInv is inductive.
THEOREM PoolInvariance == Spec => []PoolInv
<1>1. Init => PoolInv
  <2> SUFFICES ASSUME Init PROVE PoolInv
    OBVIOUS
  <2>1. IsFiniteSet({}) /\ Cardinality({}) = 0
    BY FS_EmptySet
  <2>2. Size \in Nat
    BY ConstantsAssumption
  <2> QED BY <2>1, <2>2 DEF Init, PoolInv, TypeOK, HeldExactly
<1>2. PoolInv /\ [Next]_vars => PoolInv'
  <2> SUFFICES ASSUME PoolInv, [Next]_vars PROVE PoolInv'
    OBVIOUS
  <2>1. CASE Next
    BY <2>1, RequestKeeps, StreamKeeps, TaskKeeps, OthersKeep DEF Next
  <2>2. CASE UNCHANGED vars
    BY <2>2 DEF vars, PoolInv, TypeOK, HeldExactly
  <2> QED BY <2>1, <2>2
<1> QED BY <1>1, <1>2, PTL DEF Spec

\* The pool never gives out more connections than it has, and every variable
\* keeps to its values.
THEOREM PoolTyping == Spec => []TypeOK
<1>1. PoolInv => TypeOK
  BY DEF PoolInv
<1> QED BY <1>1, PoolInvariance, PTL

\* No request, stream or task waits for a connection with one in its hands,
\* whatever their number and the size of the pool.
THEOREM NoDeadlock == Spec => []NoHoldAndWait
<1>1. PoolInv => NoHoldAndWait
  BY DEF PoolInv, HeldExactly, NoHoldAndWait, BoundPlaces, OwnPlaces, Wants
<1> QED BY <1>1, PoolInvariance, PTL

\* A hanging answer holds no connection, and nothing that is over keeps one.
THEOREM NothingLeftBehind == Spec => []IdleHoldsNothing
<1>1. PoolInv => IdleHoldsNothing
  BY DEF PoolInv, HeldExactly, IdleHoldsNothing, BoundPlaces, OwnPlaces
<1> QED BY <1>1, PoolInvariance, PTL

HIDE DEF Bound, Own, Goto

------------------------------------------------------------------------------
(* Migrations: the eleven statements from base to head pass through twelve   *)
(* schemas, and the downgrades pass through the same schemas backwards.      *)

\* The schema a revision has.
Stage(r) == IF r = 0 THEN 0 ELSE IF r = 1 THEN 8 ELSE IF r = 2 THEN 9 ELSE 11

Names == {"users", "research_sessions", "messages", "documents", "research_reports",
          "oauth_accounts"}
Enums == {"message_role", "document_type", "document_status"}

\* The schema that is the first to have a table or an enum type.
Since(n) ==
    CASE n = "users" -> 1 [] n = "research_sessions" -> 2 [] n = "message_role" -> 3
      [] n = "messages" -> 4 [] n = "document_type" -> 5 [] n = "document_status" -> 6
      [] n = "documents" -> 7 [] n = "research_reports" -> 8 [] n = "oauth_accounts" -> 11

UsersAt(k) ==
    Table({"email", "name", "is_active", "default_model"}
             \cup (IF k >= 9 THEN {"is_verified"} ELSE {})
             \cup (IF k >= 10 THEN {} ELSE {"hashed_password"}),
          IF k >= 10 THEN {"hashed_password"} ELSE {}, {}, {})

TableAt(k, t) == IF t = "users" THEN UsersAt(k) ELSE Models[t]
Present(k) == {t \in Names : Since(t) <= k}

\* The database with the k-th schema.
Database(k, a) == [tables   |-> [t \in Present(k) |-> TableAt(k, t)],
                   types    |-> {e \in Enums : Since(e) <= k},
                   accounts |-> a]

\* Every table and every enum type comes in one of the eleven steps.
LEMMA SinceRange == \A n \in Names \cup Enums : Since(n) \in 1..11
BY DEF Names, Enums, Since

\* A table refers to what was there before it.
LEMMA Refers ==
    ASSUME NEW k \in 0..11, NEW t \in Names
    PROVE  /\ TableAt(k, t).refs \subseteq {x \in Names : Since(x) < Since(t)}
           /\ TableAt(k, t).enums \subseteq {e \in Enums : Since(e) < Since(t)}
<1>1. CASE t = "users"
  BY <1>1 DEF TableAt, UsersAt, Table
<1>2. CASE t # "users"
  BY <1>2 DEF TableAt, Models, Table, Names, Enums, Since
<1>3. QED
  BY <1>1, <1>2

\* The table of the accounts changes in the ninth and tenth step only.
LEMMA TableStays ==
    ASSUME NEW k \in 0..10, NEW t \in Names, t # "users" \/ k \notin {8, 9}
    PROVE  TableAt(k + 1, t) = TableAt(k, t)
BY DEF TableAt, UsersAt

------------------------------------------------------------------------------
\* A table that is created is there from the next schema on, and what it
\* refers to is there already.
LEMMA Creates ==
    ASSUME NEW k \in 0..10, NEW a, NEW t \in Names, Since(t) = k + 1
    PROVE  /\ CanRun(Create(t, TableAt(k + 1, t)), Database(k, a))
           /\ After(Create(t, TableAt(k + 1, t)), Database(k, a)) = Database(k + 1, a)
<1> DEFINE s == Create(t, TableAt(k + 1, t))
           d == Database(k, a)
<1>1. s.op = "create" /\ s.on = t /\ s.def = TableAt(k + 1, t)
  BY DEF Create
<1>2. /\ DOMAIN d.tables = Present(k) /\ d.types = {e \in Enums : Since(e) <= k}
      /\ d.accounts = a /\ \A x \in Present(k) : d.tables[x] = TableAt(k, x)
  BY DEF Database
<1>3. t \notin Present(k) /\ Present(k) \cup {t} = Present(k + 1) /\ k \notin {8, 9}
  BY SinceRange DEF Present, Since, Names, Enums
<1>4. CanRun(s, d)
  <2>1. s.def.refs \subseteq Present(k) /\ s.def.enums \subseteq d.types
    BY <1>1, <1>2, Refers, SinceRange DEF Present
  <2>2. QED
    BY <1>1, <1>2, <1>3, <2>1 DEF CanRun
<1>5. \A x \in Present(k) : TableAt(k, x) = TableAt(k + 1, x)
  BY <1>3, TableStays DEF Present
<1>6. [x \in (Present(k) \ {t}) \cup {t} |-> IF x = t THEN s.def ELSE d.tables[x]]
          = [x \in Present(k + 1) |-> TableAt(k + 1, x)]
  BY <1>1, <1>2, <1>3, <1>5
<1>7. d.types = {e \in Enums : Since(e) <= k + 1}
  BY <1>2 DEF Enums, Since, Names
<1>8. QED
  BY <1>1, <1>2, <1>4, <1>6, <1>7 DEF After, Database

\* What a dropped table takes with it.
Without(t, a) == [u \in Users |-> CASE t = "users" -> {}
                                    [] t = "oauth_accounts" -> a[u] \ {"google"}
                                    [] OTHER -> a[u]]

\* A table that is dropped was the last to come, so nothing refers to it.
LEMMA Drops ==
    ASSUME NEW k \in 1..11, NEW a, NEW t \in Names, Since(t) = k
    PROVE  /\ CanRun(Drop(t), Database(k, a))
           /\ After(Drop(t), Database(k, a)) = Database(k - 1, Without(t, a))
<1> DEFINE s == Drop(t)
           d == Database(k, a)
<1>1. s.op = "drop" /\ s.on = t
  BY DEF Drop
<1>2. /\ DOMAIN d.tables = Present(k) /\ d.types = {e \in Enums : Since(e) <= k}
      /\ d.accounts = a /\ \A x \in Present(k) : d.tables[x] = TableAt(k, x)
  BY DEF Database
<1>3. t \in Present(k) /\ Present(k) \ {t} = Present(k - 1) /\ k - 1 \in 0..10
      /\ k - 1 \notin {8, 9} /\ (k - 1) + 1 = k
  BY SinceRange DEF Present, Since, Names, Enums
<1>4. CanRun(s, d)
  <2>1. ASSUME NEW x \in Present(k) PROVE t \notin d.tables[x].refs
    <3>1. x \in Names /\ Since(x) <= k /\ Since(x) \in 1..11
      BY SinceRange DEF Present
    <3>2. t \in d.tables[x].refs => Since(t) < Since(x)
      BY <1>2, <3>1, Refers
    <3>3. QED
      BY <3>1, <3>2
  <2>2. QED
    BY <1>1, <1>2, <1>3, <2>1 DEF CanRun
<1>5. \A x \in Present(k) : TableAt(k, x) = TableAt(k - 1, x)
  BY <1>3, TableStays DEF Present
<1>6. [x \in Present(k) \ {t} |-> d.tables[x]] = [x \in Present(k - 1) |-> TableAt(k - 1, x)]
  BY <1>1, <1>2, <1>3, <1>5
<1>7. d.types = {e \in Enums : Since(e) <= k - 1}
  BY <1>2 DEF Enums, Since, Names
<1>8. QED
  BY <1>1, <1>2, <1>4, <1>6, <1>7 DEF After, Database, Without

\* No table changes in the steps of an enum type.
LEMMA SameTables ==
    ASSUME NEW k \in 0..10, NEW e \in Enums, Since(e) = k + 1
    PROVE  [t \in Present(k + 1) |-> TableAt(k + 1, t)] = [t \in Present(k) |-> TableAt(k, t)]
<1>1. Present(k + 1) = Present(k) /\ k \notin {8, 9}
  BY DEF Present, Names, Enums, Since
<1>2. \A x \in Present(k) : TableAt(k, x) = TableAt(k + 1, x)
  BY <1>1, TableStays DEF Present
<1>3. QED
  BY <1>1, <1>2

\* An enum type that is created is there from the next schema on.
LEMMA CreatesType ==
    ASSUME NEW k \in 0..10, NEW a, NEW e \in Enums, Since(e) = k + 1
    PROVE  /\ CanRun(CreateType(e), Database(k, a))
           /\ After(CreateType(e), Database(k, a)) = Database(k + 1, a)
<1>1. CreateType(e).op = "create type" /\ CreateType(e).on = e
  BY DEF CreateType
<1>2. {x \in Enums : Since(x) <= k} \cup {e} = {x \in Enums : Since(x) <= k + 1}
  BY DEF Enums, Names, Since
<1>3. QED
  BY <1>1, <1>2, SameTables DEF CanRun, After, Database

\* An enum type that is dropped has lost the table that used it.
LEMMA DropsType ==
    ASSUME NEW k \in 1..11, NEW a, NEW e \in Enums, Since(e) = k
    PROVE  /\ CanRun(DropType(e), Database(k, a))
           /\ After(DropType(e), Database(k, a)) = Database(k - 1, a)
<1> DEFINE d == Database(k, a)
<1>1. DropType(e).op = "drop type" /\ DropType(e).on = e
  BY DEF DropType
<1>2. {x \in Enums : Since(x) <= k} \ {e} = {x \in Enums : Since(x) <= k - 1}
  BY DEF Enums, Names, Since
<1>3. ASSUME NEW t \in DOMAIN d.tables PROVE e \notin d.tables[t].enums
  <2>1. t \in Names /\ Since(t) <= k /\ Since(t) \in 1..11 /\ d.tables[t] = TableAt(k, t)
    BY SinceRange DEF Present, Database
  <2>2. e \in TableAt(k, t).enums => Since(e) < Since(t)
    BY <2>1, Refers
  <2>3. QED
    BY <2>1, <2>2
<1>4. k - 1 \in 0..10 /\ (k - 1) + 1 = k
  OBVIOUS
<1>5. QED
  BY <1>1, <1>2, <1>3, <1>4, SameTables DEF CanRun, After, Database

\* The steps that alter the table of the accounts.
LEMMA Alters ==
    ASSUME NEW k \in 8..10, NEW l \in 8..10, NEW a
    PROVE  /\ "users" \in Present(k)
           /\ Database(k, a).tables["users"] = UsersAt(k)
           /\ WithUsers(Database(k, a), UsersAt(l).required, UsersAt(l).optional) = Database(l, a)
<1> DEFINE d == Database(k, a)
<1>1. Present(k) = Present(l) /\ "users" \in Present(k)
  BY DEF Present, Names, Since
<1>2. {e \in Enums : Since(e) <= k} = {e \in Enums : Since(e) <= l}
  BY DEF Enums, Since
<1>3. d.tables["users"] = UsersAt(k)
  BY <1>1 DEF Database, TableAt
<1>4. \A x \in Present(k) \ {"users"} : TableAt(k, x) = TableAt(l, x)
  BY DEF TableAt
<1>5. [required |-> UsersAt(l).required, optional |-> UsersAt(l).optional,
       refs |-> UsersAt(k).refs, enums |-> UsersAt(k).enums] = UsersAt(l)
  BY DEF UsersAt, Table
<1>6. [d.tables EXCEPT !["users"] = UsersAt(l)] = [x \in Present(l) |-> TableAt(l, x)]
  BY <1>1, <1>4 DEF Database, TableAt
<1>7. WithUsers(d, UsersAt(l).required, UsersAt(l).optional)
        = [d EXCEPT !.tables = [d.tables EXCEPT !["users"] = UsersAt(l)]]
  BY <1>3, <1>5 DEF WithUsers
<1>8. QED
  BY <1>1, <1>2, <1>3, <1>6, <1>7 DEF Database

\* is_verified comes, then the password becomes optional.
LEMMA AltersForth ==
    ASSUME NEW a
    PROVE  /\ CanRun(AddRequired("is_verified"), Database(8, a))
           /\ After(AddRequired("is_verified"), Database(8, a)) = Database(9, a)
           /\ CanRun(DropNotNull("hashed_password"), Database(9, a))
           /\ After(DropNotNull("hashed_password"), Database(9, a)) = Database(10, a)
<1>1. /\ UsersAt(9).required = UsersAt(8).required \cup {"is_verified"}
      /\ UsersAt(9).optional = UsersAt(8).optional
      /\ "is_verified" \notin UsersAt(8).required
  BY DEF UsersAt, Table
<1>2. /\ UsersAt(10).required = UsersAt(9).required \ {"hashed_password"}
      /\ UsersAt(10).optional = UsersAt(9).optional \cup {"hashed_password"}
  BY DEF UsersAt, Table
<1>3. /\ CanRun(AddRequired("is_verified"), Database(8, a))
      /\ After(AddRequired("is_verified"), Database(8, a)) = Database(9, a)
  <2> DEFINE s == AddRequired("is_verified")
  <2>1. s.op = "add column" /\ s.on = "is_verified"
    BY DEF AddRequired
  <2>2. /\ Database(8, a).tables["users"] = UsersAt(8)
        /\ WithUsers(Database(8, a), UsersAt(9).required, UsersAt(9).optional) = Database(9, a)
    BY Alters
  <2> HIDE DEF s
  <2>3. CanRun(s, Database(8, a))
    BY <1>1, <2>1, <2>2 DEF CanRun
  <2>4. After(s, Database(8, a)) = Database(9, a)
    BY <1>1, <2>1, <2>2 DEF After
  <2>5. QED
    BY <2>3, <2>4 DEF s
<1>4. /\ CanRun(DropNotNull("hashed_password"), Database(9, a))
      /\ After(DropNotNull("hashed_password"), Database(9, a)) = Database(10, a)
  <2> DEFINE s == DropNotNull("hashed_password")
  <2>1. s.op = "drop not null" /\ s.on = "hashed_password"
    BY DEF DropNotNull
  <2>2. /\ Database(9, a).tables["users"] = UsersAt(9)
        /\ WithUsers(Database(9, a), UsersAt(10).required, UsersAt(10).optional) = Database(10, a)
    BY Alters
  <2> HIDE DEF s
  <2>3. CanRun(s, Database(9, a))
    BY <1>2, <2>1, <2>2 DEF CanRun
  <2>4. After(s, Database(9, a)) = Database(10, a)
    BY <1>2, <2>1, <2>2 DEF After
  <2>5. QED
    BY <2>3, <2>4 DEF s
<1>5. QED
  BY <1>3, <1>4

\* An account in use has a password.
Secured(ways) == "account" \in ways => "password" \in ways

\* Backwards the same, but that the password can be made mandatory only once
\* every account has one.
LEMMA AltersBack ==
    ASSUME NEW a
    PROVE  /\ CanRun(DropRequired("is_verified"), Database(9, a))
           /\ After(DropRequired("is_verified"), Database(9, a)) = Database(8, a)
           /\ CanRun(SetNotNull("hashed_password"), Database(10, a)) <=> \A u \in Users : Secured(a[u])
           /\ After(SetNotNull("hashed_password"), Database(10, a)) = Database(9, a)
<1>1. /\ UsersAt(8).required = UsersAt(9).required \ {"is_verified"}
      /\ UsersAt(8).optional = UsersAt(9).optional
      /\ "is_verified" \in UsersAt(9).required
  BY DEF UsersAt, Table
<1>2. /\ UsersAt(9).required = UsersAt(10).required \cup {"hashed_password"}
      /\ UsersAt(9).optional = UsersAt(10).optional \ {"hashed_password"}
  BY DEF UsersAt, Table
<1>3. /\ CanRun(DropRequired("is_verified"), Database(9, a))
      /\ After(DropRequired("is_verified"), Database(9, a)) = Database(8, a)
  <2> DEFINE s == DropRequired("is_verified")
  <2>1. s.op = "drop column" /\ s.on = "is_verified"
    BY DEF DropRequired
  <2>2. /\ Database(9, a).tables["users"] = UsersAt(9)
        /\ WithUsers(Database(9, a), UsersAt(8).required, UsersAt(8).optional) = Database(8, a)
    BY Alters
  <2> HIDE DEF s
  <2>3. CanRun(s, Database(9, a))
    BY <1>1, <2>1, <2>2 DEF CanRun
  <2>4. After(s, Database(9, a)) = Database(8, a)
    BY <1>1, <2>1, <2>2 DEF After
  <2>5. QED
    BY <2>3, <2>4 DEF s
<1>4. After(SetNotNull("hashed_password"), Database(10, a)) = Database(9, a)
  <2> DEFINE s == SetNotNull("hashed_password")
  <2>1. s.op = "set not null" /\ s.on = "hashed_password"
    BY DEF SetNotNull
  <2>2. /\ Database(10, a).tables["users"] = UsersAt(10)
        /\ WithUsers(Database(10, a), UsersAt(9).required, UsersAt(9).optional) = Database(9, a)
    BY Alters
  <2> HIDE DEF s
  <2>3. After(s, Database(10, a)) = Database(9, a)
    BY <1>2, <2>1, <2>2 DEF After
  <2>4. QED
    BY <2>3 DEF s
<1>5. CanRun(SetNotNull("hashed_password"), Database(10, a)) <=> \A u \in Users : Secured(a[u])
  <2>1. SetNotNull("hashed_password").op = "set not null" /\ Database(10, a).accounts = a
    BY DEF SetNotNull, Database
  <2>2. QED
    BY <2>1 DEF CanRun, Secured, HasAccount
<1>6. QED
  BY <1>3, <1>4, <1>5

------------------------------------------------------------------------------
\* The statement from the k-th schema to the next, and the one back.
Forth(k) ==
    CASE k = 2 -> CreateType("message_role")
      [] k = 4 -> CreateType("document_type")
      [] k = 5 -> CreateType("document_status")
      [] k = 8 -> AddRequired("is_verified")
      [] k = 9 -> DropNotNull("hashed_password")
      [] k = 0 -> Create("users", TableAt(1, "users"))
      [] k = 1 -> Create("research_sessions", TableAt(2, "research_sessions"))
      [] k = 3 -> Create("messages", TableAt(4, "messages"))
      [] k = 6 -> Create("documents", TableAt(7, "documents"))
      [] k = 7 -> Create("research_reports", TableAt(8, "research_reports"))
      [] k = 10 -> Create("oauth_accounts", TableAt(11, "oauth_accounts"))
Back(k) ==
    CASE k = 3 -> DropType("message_role")
      [] k = 5 -> DropType("document_type")
      [] k = 6 -> DropType("document_status")
      [] k = 9 -> DropRequired("is_verified")
      [] k = 10 -> SetNotNull("hashed_password")
      [] k = 1 -> Drop("users")
      [] k = 2 -> Drop("research_sessions")
      [] k = 4 -> Drop("messages")
      [] k = 7 -> Drop("documents")
      [] k = 8 -> Drop("research_reports")
      [] k = 11 -> Drop("oauth_accounts")

\* The statements from the k-th schema up to the l-th, and those down to it.
Upwards(k, l)   == [i \in 1..(l - k) |-> Forth(k + i - 1)]
Downwards(k, l) == [i \in 1..(k - l) |-> Back(k + 1 - i)]

\* What is left of a migration.
Ahead(k, l) == IF k <= l THEN Upwards(k, l) ELSE Downwards(k, l)

\* What the migrations write out is what the model classes declare, but for
\* the two columns of the accounts.
LEMMA Definitions ==
    /\ Table({"email", "hashed_password", "name", "is_active", "default_model"}, {}, {}, {})
          = TableAt(1, "users")
    /\ OAuthAccounts = TableAt(11, "oauth_accounts")
    /\ \A k \in 0..11 : /\ TableAt(k, "research_sessions") = Models.research_sessions
                        /\ TableAt(k, "messages") = Models.messages
                        /\ TableAt(k, "documents") = Models.documents
                        /\ TableAt(k, "research_reports") = Models.research_reports
<1>1. Table({"email", "hashed_password", "name", "is_active", "default_model"}, {}, {}, {})
          = TableAt(1, "users")
  BY DEF TableAt, UsersAt, Table
<1>2. OAuthAccounts = TableAt(11, "oauth_accounts")
  BY DEF OAuthAccounts, TableAt, Models
<1>3. QED
  BY <1>1, <1>2 DEF TableAt

\* Each upgrade goes from one revision's schema to the next one's, and each
\* downgrade back.
LEMMA Statements ==
    /\ Upgrade0001 = Upwards(0, 8) /\ Upgrade0002 = Upwards(8, 9) /\ Upgrade0003 = Upwards(9, 11)
    /\ Downgrade0001 = Downwards(8, 0) /\ Downgrade0002 = Downwards(9, 8)
    /\ Downgrade0003 = Downwards(11, 9)
<1>1. Upgrade0001 = << Forth(0), Forth(1), Forth(2), Forth(3), Forth(4), Forth(5), Forth(6), Forth(7) >>
  BY Definitions DEF Upgrade0001, Forth, Models
<1>2. Upgrade0002 = << Forth(8) >> /\ Upgrade0003 = << Forth(9), Forth(10) >>
  BY Definitions DEF Upgrade0002, Upgrade0003, Forth
<1>3. Downgrade0001 = << Back(8), Back(7), Back(6), Back(5), Back(4), Back(3), Back(2), Back(1) >>
  BY DEF Downgrade0001, Back
<1>4. Downgrade0002 = << Back(9) >> /\ Downgrade0003 = << Back(11), Back(10) >>
  BY DEF Downgrade0002, Downgrade0003, Back
<1>5. QED
  BY <1>1, <1>2, <1>3, <1>4 DEF Upwards, Downwards

\* Two sequences make a third.
LEMMA Concatenates ==
    ASSUME NEW S, NEW s \in Seq(S), NEW t \in Seq(S), NEW r \in Seq(S),
           Len(r) = Len(s) + Len(t),
           \A i \in 1..Len(s) : r[i] = s[i],
           \A i \in 1..Len(t) : r[Len(s) + i] = t[i]
    PROVE  s \o t = r
<1>1. s \o t \in Seq(S) /\ Len(s \o t) = Len(r)
  OBVIOUS
<1>2. ASSUME NEW i \in 1..Len(r) PROVE (s \o t)[i] = r[i]
  <2>1. CASE i <= Len(s)
    BY <2>1
  <2>2. CASE i > Len(s)
    <3>1. i - Len(s) \in 1..Len(t) /\ Len(s) + (i - Len(s)) = i
      BY <2>2
    <3>2. (s \o t)[i] = t[i - Len(s)]
      BY <2>2
    <3>3. QED
      BY <3>1, <3>2
  <2>3. QED
    BY <2>1, <2>2
<1>3. QED
  BY <1>1, <1>2

\* Two ways up, one after the other, are one way.
LEMMA JoinsUp ==
    ASSUME NEW k \in 0..11, NEW m \in 0..11, NEW l \in 0..11, k <= m, m <= l
    PROVE  Upwards(k, m) \o Upwards(m, l) = Upwards(k, l)
<1> DEFINE S == {Forth(i) : i \in 0..11}
           s == Upwards(k, m)
           t == Upwards(m, l)
           r == Upwards(k, l)
<1>1. s \in Seq(S) /\ Len(s) = m - k /\ \A i \in 1..(m - k) : s[i] = Forth(k + i - 1)
  BY DEF Upwards
<1>2. t \in Seq(S) /\ Len(t) = l - m /\ \A i \in 1..(l - m) : t[i] = Forth(m + i - 1)
  BY DEF Upwards
<1>3. r \in Seq(S) /\ Len(r) = l - k /\ \A i \in 1..(l - k) : r[i] = Forth(k + i - 1)
  BY DEF Upwards
<1> HIDE DEF S, s, t, r
<1>4. \A i \in 1..Len(t) : r[Len(s) + i] = t[i]
  <2> SUFFICES ASSUME NEW i \in 1..Len(t) PROVE r[Len(s) + i] = t[i]
    OBVIOUS
  <2>1. (m - k) + i \in 1..(l - k) /\ k + ((m - k) + i) - 1 = m + i - 1
    BY <1>2
  <2>2. QED
    BY <1>1, <1>2, <1>3, <2>1
<1>5. Len(r) = Len(s) + Len(t) 
  BY <1>1, <1>2, <1>3
<1>6. \A i \in 1..Len(s) : r[i] = s[i]
  <2> SUFFICES ASSUME NEW i \in 1..Len(s) PROVE r[i] = s[i]
    OBVIOUS
  <2>1. i \in 1..(m - k) /\ i \in 1..(l - k)
    BY <1>1
  <2>2. QED
    BY <1>1, <1>3, <2>1
<1>7. s \o t = r
  BY <1>1, <1>2, <1>3, <1>4, <1>5, <1>6, Concatenates
<1>8. QED
  BY <1>7 DEF s, t, r

\* Two ways down, one after the other, are one way.
LEMMA JoinsDown ==
    ASSUME NEW k \in 0..11, NEW m \in 0..11, NEW l \in 0..11, k >= m, m >= l
    PROVE  Downwards(k, m) \o Downwards(m, l) = Downwards(k, l)
<1> DEFINE S == {Back(i) : i \in 0..11}
           s == Downwards(k, m)
           t == Downwards(m, l)
           r == Downwards(k, l)
<1>1. s \in Seq(S) /\ Len(s) = k - m /\ \A i \in 1..(k - m) : s[i] = Back(k + 1 - i)
  BY DEF Downwards
<1>2. t \in Seq(S) /\ Len(t) = m - l /\ \A i \in 1..(m - l) : t[i] = Back(m + 1 - i)
  BY DEF Downwards
<1>3. r \in Seq(S) /\ Len(r) = k - l /\ \A i \in 1..(k - l) : r[i] = Back(k + 1 - i)
  BY DEF Downwards
<1> HIDE DEF S, s, t, r
<1>4. \A i \in 1..Len(t) : r[Len(s) + i] = t[i]
  <2> SUFFICES ASSUME NEW i \in 1..Len(t) PROVE r[Len(s) + i] = t[i]
    OBVIOUS
  <2>1. (k - m) + i \in 1..(k - l) /\ k + 1 - ((k - m) + i) = m + 1 - i
    BY <1>2
  <2>2. QED
    BY <1>1, <1>2, <1>3, <2>1
<1>5. Len(r) = Len(s) + Len(t) 
  BY <1>1, <1>2, <1>3
<1>6. \A i \in 1..Len(s) : r[i] = s[i]
  <2> SUFFICES ASSUME NEW i \in 1..Len(s) PROVE r[i] = s[i]
    OBVIOUS
  <2>1. i \in 1..(k - m) /\ i \in 1..(k - l)
    BY <1>1
  <2>2. QED
    BY <1>1, <1>3, <2>1
<1>7. s \o t = r
  BY <1>1, <1>2, <1>3, <1>4, <1>5, <1>6, Concatenates
<1>8. QED
  BY <1>7 DEF s, t, r

\* alembic's path between two revisions is the way between their schemas.
LEMMA Routes ==
    ASSUME NEW from \in 0..HeadRev, NEW to \in 0..HeadRev
    PROVE  Path(from, to) = Ahead(Stage(from), Stage(to))
<1> DEFINE S == {Forth(i) : i \in 0..11} \cup {Back(i) : i \in 0..11}
           ups(n, s) == IF from < n /\ n <= to THEN s ELSE << >>
           downs(n, s) == IF to < n /\ n <= from THEN s ELSE << >>
<1>1. \A k, l \in 0..11 : /\ k <= l => Upwards(k, l) \in Seq(S)
                          /\ k >= l => Downwards(k, l) \in Seq(S)
  BY DEF Upwards, Downwards
<1>2. \A k \in 0..11 : Upwards(k, k) = << >> /\ Downwards(k, k) = << >>
  BY DEF Upwards, Downwards
<1>3. \A s \in Seq(S) : s \o << >> = s /\ << >> \o s = s
  OBVIOUS
<1>4. /\ << >> \in Seq(S) /\ Upwards(0, 8) \in Seq(S) /\ Upwards(8, 9) \in Seq(S)
      /\ Upwards(9, 11) \in Seq(S) /\ Upwards(0, 9) \in Seq(S)
      /\ Downwards(11, 9) \in Seq(S) /\ Downwards(9, 8) \in Seq(S)
      /\ Downwards(8, 0) \in Seq(S) /\ Downwards(11, 8) \in Seq(S)
  BY <1>1
<1>5. Path(from, to) = ups(1, Upwards(0, 8)) \o ups(2, Upwards(8, 9)) \o ups(3, Upwards(9, 11))
                         \o downs(3, Downwards(11, 9)) \o downs(2, Downwards(9, 8))
                         \o downs(1, Downwards(8, 0))
  BY Statements, Zenon DEF Path
<1> HIDE DEF S
<1>6. /\ Upwards(0, 8) \o Upwards(8, 9) = Upwards(0, 9)
      /\ Upwards(0, 9) \o Upwards(9, 11) = Upwards(0, 11)
      /\ Upwards(8, 9) \o Upwards(9, 11) = Upwards(8, 11)
      /\ Downwards(11, 9) \o Downwards(9, 8) = Downwards(11, 8)
      /\ Downwards(11, 8) \o Downwards(8, 0) = Downwards(11, 0)
      /\ Downwards(9, 8) \o Downwards(8, 0) = Downwards(9, 0)
  <2>1. /\ 0 \in 0..11 /\ 8 \in 0..11 /\ 9 \in 0..11 /\ 11 \in 0..11
        /\ 0 <= 8 /\ 8 <= 9 /\ 0 <= 9 /\ 9 <= 11 /\ 11 >= 9 /\ 9 >= 8 /\ 11 >= 8 /\ 8 >= 0
    OBVIOUS
  <2>2. Upwards(0, 8) \o Upwards(8, 9) = Upwards(0, 9)
    BY <2>1, JoinsUp, Zenon
  <2>3. Upwards(0, 9) \o Upwards(9, 11) = Upwards(0, 11)
    BY <2>1, JoinsUp, Zenon
  <2>4. Upwards(8, 9) \o Upwards(9, 11) = Upwards(8, 11)
    BY <2>1, JoinsUp, Zenon
  <2>5. Downwards(11, 9) \o Downwards(9, 8) = Downwards(11, 8)
    BY <2>1, JoinsDown, Zenon
  <2>6. Downwards(11, 8) \o Downwards(8, 0) = Downwards(11, 0)
    BY <2>1, JoinsDown, Zenon
  <2>7. Downwards(9, 8) \o Downwards(8, 0) = Downwards(9, 0)
    BY <2>1, JoinsDown, Zenon
  <2>8. QED
    BY <2>2, <2>3, <2>4, <2>5, <2>6, <2>7, Zenon
<1>7. from \in {0, 1, 2, 3} /\ to \in {0, 1, 2, 3}
  BY DEF HeadRev
<1>8. CASE from <= to
  <2> DEFINE p == ups(1, Upwards(0, 8))
             q == ups(2, Upwards(8, 9))
             r == ups(3, Upwards(9, 11))
  <2>1. /\ downs(3, Downwards(11, 9)) = << >> /\ downs(2, Downwards(9, 8)) = << >>
        /\ downs(1, Downwards(8, 0)) = << >>
    BY <1>7, <1>8
  <2>2. /\ p = IF from = 0 /\ to # 0 THEN Upwards(0, 8) ELSE << >>
        /\ q = IF from \in {0, 1} /\ to \in {2, 3} THEN Upwards(8, 9) ELSE << >>
        /\ r = IF from # 3 /\ to = 3 THEN Upwards(9, 11) ELSE << >>
    BY <1>7
  <2> HIDE DEF p, q, r
  <2>3. p \in Seq(S) /\ q \in Seq(S) /\ r \in Seq(S)
    BY <1>1, <1>4, <2>2
  <2>4. p \o q \o r \in Seq(S)
    BY <2>3
  <2>5. p \o q \o r = Upwards(Stage(from), Stage(to))
    <3>1. CASE from = to
      <4>1. p = << >> /\ q = << >> /\ r = << >>
        BY <1>7, <2>2, <3>1
      <4>2. p \o q \o r = << >>
        BY <1>3, <1>4, <4>1, Zenon
      <4>3. Stage(from) \in 0..11
        BY DEF Stage
      <4>4. QED
        BY <1>2, <3>1, <4>2, <4>3
    <3>2. CASE from = 0 /\ to = 1
      <4>1. p = Upwards(0, 8) /\ q = << >> /\ r = << >>
        BY <2>2, <3>2
      <4>2. Stage(from) = 0 /\ Stage(to) = 8
        BY <3>2 DEF Stage
      <4>3. QED
        BY <1>3, <1>4, <1>6, <4>1, <4>2, Zenon
    <3>3. CASE from = 0 /\ to = 2
      <4>1. p = Upwards(0, 8) /\ q = Upwards(8, 9) /\ r = << >>
        BY <2>2, <3>3
      <4>2. Stage(from) = 0 /\ Stage(to) = 9
        BY <3>3 DEF Stage
      <4>3. QED
        BY <1>3, <1>4, <1>6, <4>1, <4>2, Zenon
    <3>4. CASE from = 0 /\ to = 3
      <4>1. p = Upwards(0, 8) /\ q = Upwards(8, 9) /\ r = Upwards(9, 11)
        BY <2>2, <3>4
      <4>2. Stage(from) = 0 /\ Stage(to) = 11
        BY <3>4 DEF Stage
      <4>3. QED
        BY <1>3, <1>4, <1>6, <4>1, <4>2, Zenon
    <3>5. CASE from = 1 /\ to = 2
      <4>1. p = << >> /\ q = Upwards(8, 9) /\ r = << >>
        BY <2>2, <3>5
      <4>2. Stage(from) = 8 /\ Stage(to) = 9
        BY <3>5 DEF Stage
      <4>3. QED
        BY <1>3, <1>4, <1>6, <4>1, <4>2, Zenon
    <3>6. CASE from = 1 /\ to = 3
      <4>1. p = << >> /\ q = Upwards(8, 9) /\ r = Upwards(9, 11)
        BY <2>2, <3>6
      <4>2. Stage(from) = 8 /\ Stage(to) = 11
        BY <3>6 DEF Stage
      <4>3. QED
        BY <1>3, <1>4, <1>6, <4>1, <4>2, Zenon
    <3>7. CASE from = 2 /\ to = 3
      <4>1. p = << >> /\ q = << >> /\ r = Upwards(9, 11)
        BY <2>2, <3>7
      <4>2. Stage(from) = 9 /\ Stage(to) = 11
        BY <3>7 DEF Stage
      <4>3. QED
        BY <1>3, <1>4, <1>6, <4>1, <4>2, Zenon
    <3>8. QED
      BY <1>7, <1>8, <3>1, <3>2, <3>3, <3>4, <3>5, <3>6, <3>7
  <2>6. Path(from, to) = p \o q \o r \o << >> \o << >> \o << >>
    BY <1>5, <2>1 DEF p, q, r
  <2>7. Path(from, to) = p \o q \o r
    BY <1>3, <2>4, <2>6
  <2>8. Stage(from) <= Stage(to)
    BY <1>7, <1>8 DEF Stage
  <2>9. QED
    BY <2>5, <2>7, <2>8 DEF Ahead
<1>9. CASE to < from
  <2> DEFINE p == downs(3, Downwards(11, 9))
             q == downs(2, Downwards(9, 8))
             r == downs(1, Downwards(8, 0))
  <2>1. /\ ups(1, Upwards(0, 8)) = << >> /\ ups(2, Upwards(8, 9)) = << >>
        /\ ups(3, Upwards(9, 11)) = << >>
    BY <1>7, <1>9
  <2>2. /\ p = IF from = 3 /\ to # 3 THEN Downwards(11, 9) ELSE << >>
        /\ q = IF from \in {2, 3} /\ to \in {0, 1} THEN Downwards(9, 8) ELSE << >>
        /\ r = IF from # 0 /\ to = 0 THEN Downwards(8, 0) ELSE << >>
    BY <1>7
  <2> HIDE DEF p, q, r
  <2>3. p \in Seq(S) /\ q \in Seq(S) /\ r \in Seq(S)
    BY <1>1, <1>4, <2>2
  <2>4. p \o q \o r = Downwards(Stage(from), Stage(to))
    <3>1. CASE from = 1 /\ to = 0
      <4>1. p = << >> /\ q = << >> /\ r = Downwards(8, 0)
        BY <2>2, <3>1
      <4>2. Stage(from) = 8 /\ Stage(to) = 0
        BY <3>1 DEF Stage
      <4>3. QED
        BY <1>3, <1>4, <1>6, <4>1, <4>2, Zenon
    <3>2. CASE from = 2 /\ to = 0
      <4>1. p = << >> /\ q = Downwards(9, 8) /\ r = Downwards(8, 0)
        BY <2>2, <3>2
      <4>2. Stage(from) = 9 /\ Stage(to) = 0
        BY <3>2 DEF Stage
      <4>3. QED
        BY <1>3, <1>4, <1>6, <4>1, <4>2, Zenon
    <3>3. CASE from = 2 /\ to = 1
      <4>1. p = << >> /\ q = Downwards(9, 8) /\ r = << >>
        BY <2>2, <3>3
      <4>2. Stage(from) = 9 /\ Stage(to) = 8
        BY <3>3 DEF Stage
      <4>3. QED
        BY <1>3, <1>4, <1>6, <4>1, <4>2, Zenon
    <3>4. CASE from = 3 /\ to = 0
      <4>1. p = Downwards(11, 9) /\ q = Downwards(9, 8) /\ r = Downwards(8, 0)
        BY <2>2, <3>4
      <4>2. Stage(from) = 11 /\ Stage(to) = 0
        BY <3>4 DEF Stage
      <4>3. QED
        BY <1>3, <1>4, <1>6, <4>1, <4>2, Zenon
    <3>5. CASE from = 3 /\ to = 1
      <4>1. p = Downwards(11, 9) /\ q = Downwards(9, 8) /\ r = << >>
        BY <2>2, <3>5
      <4>2. Stage(from) = 11 /\ Stage(to) = 8
        BY <3>5 DEF Stage
      <4>3. QED
        BY <1>3, <1>4, <1>6, <4>1, <4>2, Zenon
    <3>6. CASE from = 3 /\ to = 2
      <4>1. p = Downwards(11, 9) /\ q = << >> /\ r = << >>
        BY <2>2, <3>6
      <4>2. Stage(from) = 11 /\ Stage(to) = 9
        BY <3>6 DEF Stage
      <4>3. QED
        BY <1>3, <1>4, <1>6, <4>1, <4>2, Zenon
    <3>7. QED
      BY <1>7, <1>9, <3>1, <3>2, <3>3, <3>4, <3>5, <3>6
  <2>5. Path(from, to) = << >> \o << >> \o << >> \o p \o q \o r
    BY <1>5, <2>1 DEF p, q, r
  <2>6. Path(from, to) = p \o q \o r
    BY <1>3, <1>4, <2>3, <2>5
  <2>7. ~(Stage(from) <= Stage(to))
    BY <1>7, <1>9 DEF Stage
  <2>8. QED
    BY <2>4, <2>6, <2>7 DEF Ahead
<1>10. QED
  BY <1>7, <1>8, <1>9

------------------------------------------------------------------------------
\* What a downgrade's statement leaves of the accounts.
Less(k, a) == IF k = 1 THEN Without("users", a)
              ELSE IF k = 11 THEN Without("oauth_accounts", a) ELSE a

\* Every statement upwards can run and leads to the next schema.
LEMMA GoesForth ==
    ASSUME NEW k \in 0..10, NEW a
    PROVE  CanRun(Forth(k), Database(k, a)) /\ After(Forth(k), Database(k, a)) = Database(k + 1, a)
<1>1. CASE k = 8
  BY <1>1, AltersForth DEF Forth
<1>2. CASE k = 9
  BY <1>2, AltersForth DEF Forth
<1>3. CASE k \in {2, 4, 5}
  <2>1. PICK e \in Enums : Forth(k) = CreateType(e) /\ Since(e) = k + 1
    BY <1>3 DEF Forth, Enums, Since
  <2>2. QED
    BY <2>1, CreatesType
<1>4. CASE k \in {0, 1, 3, 6, 7, 10}
  <2>1. PICK t \in Names : Forth(k) = Create(t, TableAt(k + 1, t)) /\ Since(t) = k + 1
    <3>1. CASE k = 0
      BY <3>1 DEF Forth, Names, Since
    <3>2. CASE k = 1
      BY <3>2 DEF Forth, Names, Since
    <3>3. CASE k = 3
      BY <3>3 DEF Forth, Names, Since
    <3>4. CASE k = 6
      BY <3>4 DEF Forth, Names, Since
    <3>5. CASE k = 7
      BY <3>5 DEF Forth, Names, Since
    <3>6. CASE k = 10
      BY <3>6 DEF Forth, Names, Since
    <3>7. QED
      BY <1>4, <3>1, <3>2, <3>3, <3>4, <3>5, <3>6
  <2>2. QED
    BY <2>1, Creates
<1>5. QED
  BY <1>1, <1>2, <1>3, <1>4

\* Every statement downwards leads to the schema before, and all but one can run.
LEMMA GoesBack ==
    ASSUME NEW k \in 1..11, NEW S, NEW a \in [Users -> S]
    PROVE  /\ CanRun(Back(k), Database(k, a)) <=> (k = 10 => \A u \in Users : Secured(a[u]))
           /\ After(Back(k), Database(k, a)) = Database(k - 1, Less(k, a))
<1>1. CASE k = 9
  BY <1>1, AltersBack DEF Back, Less
<1>2. CASE k = 10
  BY <1>2, AltersBack DEF Back, Less
<1>3. CASE k \in {3, 5, 6}
  <2>1. PICK e \in Enums : Back(k) = DropType(e) /\ Since(e) = k
    BY <1>3 DEF Back, Enums, Since
  <2>2. QED
    BY <1>3, <2>1, DropsType DEF Less
<1>4. CASE k \in {1, 2, 4, 7, 8, 11}
  <2>1. PICK t \in Names : Back(k) = Drop(t) /\ Since(t) = k
    BY <1>4 DEF Back, Names, Since
  <2>2. Without(t, a) = Less(k, a)
    <3>1. CASE k \in {1, 11}
      BY <2>1, <3>1 DEF Less, Names, Since
    <3>2. CASE k \notin {1, 11}
      <4>1. t # "users" /\ t # "oauth_accounts"
        BY <2>1, <3>2 DEF Since
      <4>2. Without(t, a) = a
        BY <4>1 DEF Without
      <4>3. QED
        BY <3>2, <4>2 DEF Less
    <3>3. QED
      BY <3>1, <3>2
  <2>3. QED
    BY <1>4, <2>1, <2>2, Drops
<1>5. QED
  BY <1>1, <1>2, <1>3, <1>4

\* A sequence that is another one moved by one is its tail.
LEMMA TailIs ==
    ASSUME NEW S, NEW s \in Seq(S), NEW t \in Seq(S), Len(s) = Len(t) + 1,
           \A i \in 1..Len(t) : t[i] = s[i + 1]
    PROVE  s # << >> /\ Head(s) = s[1] /\ Tail(s) = t
<1>1. s # << >> /\ Head(s) = s[1] /\ Tail(s) \in Seq(S) /\ Len(Tail(s)) = Len(t)
  OBVIOUS
<1>2. \A i \in 1..Len(t) : Tail(s)[i] = s[i + 1]
  OBVIOUS
<1>3. QED
  BY <1>1, <1>2

\* The statement that comes next.
LEMMA Following ==
    ASSUME NEW k \in 0..11, NEW l \in 0..11
    PROVE  /\ Ahead(k, l) = << >> <=> k = l
           /\ k < l => Head(Ahead(k, l)) = Forth(k) /\ Tail(Ahead(k, l)) = Ahead(k + 1, l)
           /\ k > l => Head(Ahead(k, l)) = Back(k) /\ Tail(Ahead(k, l)) = Ahead(k - 1, l)
<1>1. k = l => Ahead(k, l) = << >>
  BY DEF Ahead, Upwards
<1>2. ASSUME k < l
      PROVE  /\ Ahead(k, l) # << >>
             /\ Head(Ahead(k, l)) = Forth(k) /\ Tail(Ahead(k, l)) = Ahead(k + 1, l)
  <2> DEFINE S == {Forth(i) : i \in 0..11}
             s == Upwards(k, l)
             t == Upwards(k + 1, l)
  <2>1. Ahead(k, l) = s /\ Ahead(k + 1, l) = t
    BY <1>2 DEF Ahead
  <2>2. s \in Seq(S) /\ Len(s) = l - k /\ \A i \in 1..(l - k) : s[i] = Forth(k + i - 1)
    BY <1>2 DEF Upwards
  <2>3. t \in Seq(S) /\ Len(t) = l - (k + 1) /\ \A i \in 1..(l - (k + 1)) : t[i] = Forth((k + 1) + i - 1)
    BY <1>2 DEF Upwards
  <2> HIDE DEF S, s, t
  <2>4. ASSUME NEW i \in 1..Len(t) PROVE t[i] = s[i + 1]
    <3>1. i + 1 \in 1..(l - k) /\ i \in 1..(l - (k + 1)) /\ k + (i + 1) - 1 = (k + 1) + i - 1
      BY <1>2, <2>3
    <3>2. QED
      BY <2>2, <2>3, <3>1
  <2>5. s # << >> /\ Head(s) = s[1] /\ Tail(s) = t
    <3>1. Len(s) = Len(t) + 1
      BY <2>2, <2>3
    <3>2. QED
      BY <2>2, <2>3, <2>4, <3>1, TailIs
  <2>6. s[1] = Forth(k)
    <3>1. 1 \in 1..(l - k) /\ k + 1 - 1 = k
      BY <1>2
    <3>2. QED
      BY <2>2, <3>1
  <2>7. QED
    BY <2>1, <2>5, <2>6
<1>3. ASSUME k > l
      PROVE  /\ Ahead(k, l) # << >>
             /\ Head(Ahead(k, l)) = Back(k) /\ Tail(Ahead(k, l)) = Ahead(k - 1, l)
  <2> DEFINE S == {Back(i) : i \in 0..11}
             s == Downwards(k, l)
             t == Downwards(k - 1, l)
  <2>1. Ahead(k, l) = s /\ Ahead(k - 1, l) = t
    <3>1. k - 1 = l => Upwards(k - 1, l) = t
      BY DEF Upwards, Downwards
    <3>2. QED
      BY <1>3, <3>1 DEF Ahead
  <2>2. s \in Seq(S) /\ Len(s) = k - l /\ \A i \in 1..(k - l) : s[i] = Back(k + 1 - i)
    BY <1>3 DEF Downwards
  <2>3. t \in Seq(S) /\ Len(t) = (k - 1) - l /\ \A i \in 1..((k - 1) - l) : t[i] = Back((k - 1) + 1 - i)
    BY <1>3 DEF Downwards
  <2> HIDE DEF S, s, t
  <2>4. ASSUME NEW i \in 1..Len(t) PROVE t[i] = s[i + 1]
    <3>1. i + 1 \in 1..(k - l) /\ i \in 1..((k - 1) - l) /\ k + 1 - (i + 1) = (k - 1) + 1 - i
      BY <1>3, <2>3
    <3>2. QED
      BY <2>2, <2>3, <3>1
  <2>5. s # << >> /\ Head(s) = s[1] /\ Tail(s) = t
    <3>1. Len(s) = Len(t) + 1
      BY <2>2, <2>3
    <3>2. QED
      BY <2>2, <2>3, <2>4, <3>1, TailIs
  <2>6. s[1] = Back(k)
    <3>1. 1 \in 1..(k - l) /\ k + 1 - 1 = k
      BY <1>3
    <3>2. QED
      BY <2>2, <3>1
  <2>7. QED
    BY <2>1, <2>5, <2>6
<1>4. QED
  BY <1>1, <1>2, <1>3

------------------------------------------------------------------------------
Ways == {"account", "password", "google"}

\* The accounts there may be with the k-th schema.
AccountsAt(k, a) ==
    /\ a \in [Users -> SUBSET Ways]
    /\ \A u \in Users : /\ k = 0   => a[u] = {}
                        /\ k <= 10 => "google" \notin a[u]
                        /\ k <= 9  => Secured(a[u])

\* The committed schema is that of the revision.
SchemaInv ==
    /\ rev \in 0..HeadRev
    /\ db = Database(Stage(rev), db.accounts)
    /\ AccountsAt(Stage(rev), db.accounts)
    /\ NobodyStranded

\* A migration to a revision has come to the k-th schema and to these accounts.
InRun(k, to, a) ==
    /\ run = [todo |-> Ahead(k, Stage(to)), by |-> run.by, to |-> to, work |-> Database(k, a)]
    /\ AccountsAt(k, a)
    /\ rev <= to => k \in Stage(rev)..Stage(to) /\ a = db.accounts
    /\ rev > to  => /\ k \in Stage(to)..Stage(rev)
                    /\ k = 10 => rev = 3 /\ a = Without("oauth_accounts", db.accounts)
                    /\ k = 11 => a = db.accounts

\* Where the container is while it does not migrate itself.
Otherwise == {"stopped", "serving", "failing"}

RunInv ==
    \/ run = None /\ api \in Otherwise
    \/ /\ \/ run.by = "api" /\ api = "migrating"
          \/ run.by = "operator" /\ api \in Otherwise
       /\ \E k \in 0..11, to \in 0..HeadRev, a \in [Users -> SUBSET Ways] : InRun(k, to, a)

MigrationInv == SchemaInv /\ RunInv /\ crashes \in 0..MaxCrashes

\* No revision has the schema between the two statements of 0003.
LEMMA Stages == \A r \in 0..HeadRev : Stage(r) \in 0..11 /\ Stage(r) # 10 /\ (Stage(r) = 11 <=> r = 3)
                                         /\ (Stage(r) = 0 <=> r = 0)
BY DEF Stage, HeadRev

\* The later revision has the later schema.
LEMMA Ordered == \A q, r \in 0..HeadRev : q <= r <=> Stage(q) <= Stage(r)
<1>1. HeadRev = 3
  BY DEF HeadRev
<1>2. QED
  BY <1>1 DEF Stage

\* Upgrades leave the accounts as they may be.
LEMMA AccountsForth ==
    ASSUME NEW k \in 0..10, NEW a, AccountsAt(k, a)
    PROVE  AccountsAt(k + 1, a)
BY DEF AccountsAt

\* Downgrades take away what the schema before has no place for.
LEMMA AccountsBack ==
    ASSUME NEW k \in 1..11, NEW a, AccountsAt(k, a), k = 10 => \A u \in Users : Secured(a[u])
    PROVE  AccountsAt(k - 1, Less(k, a))
<1>1. CASE k = 1
  BY <1>1 DEF AccountsAt, Less, Without, Secured
<1>2. CASE k = 11
  BY <1>2 DEF AccountsAt, Less, Without
<1>3. CASE k \notin {1, 11}
  BY <1>3 DEF AccountsAt, Less
<1>4. QED
  BY <1>1, <1>2, <1>3

\* A migration begins with the schema of the revision it starts from.
LEMMA Begins ==
    ASSUME MigrationInv, NEW who \in {"api", "operator"}, NEW to \in 0..HeadRev, Begin(who, to),
           UNCHANGED <<db, rev, crashes>>,
           who = "api" => api' = "migrating", who = "operator" => api' \in Otherwise
    PROVE  MigrationInv'
<1> USE DEF MigrationInv
<1>1. run' = [todo |-> Ahead(Stage(rev), Stage(to)), by |-> who, to |-> to, work |-> db]
  BY Routes DEF Begin, SchemaInv
<1>2. SchemaInv'
  BY DEF SchemaInv, NobodyStranded
<1>3. Stage(rev) \in 0..11 /\ db.accounts \in [Users -> SUBSET Ways]
  BY Stages DEF SchemaInv, AccountsAt
<1>4. InRun(Stage(rev), to, db.accounts)'
  <2>1. rev <= to => Stage(rev) \in Stage(rev)..Stage(to)
    BY Stages, Ordered DEF SchemaInv
  <2>2. rev > to => Stage(rev) \in Stage(to)..Stage(rev)
    BY Stages, Ordered DEF SchemaInv, HeadRev
  <2>3. Stage(rev) # 10
    BY Stages DEF SchemaInv
  <2>4. AccountsAt(Stage(rev), db.accounts) /\ db = Database(Stage(rev), db.accounts)
    BY DEF SchemaInv
  <2>5. run' = [todo |-> Ahead(Stage(rev), Stage(to)), by |-> run'.by, to |-> to,
                work |-> Database(Stage(rev), db.accounts)]
    BY <1>1, <2>4
  <2>6. QED
    BY <2>1, <2>2, <2>3, <2>4, <2>5 DEF InRun
<1>5. RunInv'
  BY <1>1, <1>3, <1>4 DEF RunInv
<1>6. QED
  BY <1>2, <1>5

\* A statement takes the work to the next schema on its way, and it can run
\* unless it is the one that makes the password mandatory again.
LEMMA Proceeds ==
    ASSUME SchemaInv, NEW k \in 0..11, NEW to \in 0..HeadRev, NEW a, InRun(k, to, a),
           run.todo # << >>
    PROVE  \/ /\ rev <= to /\ k < Stage(to) /\ CanRun(Head(run.todo), run.work)
              /\ Tail(run.todo) = Ahead(k + 1, Stage(to))
              /\ After(Head(run.todo), run.work) = Database(k + 1, a)
           \/ /\ rev > to /\ k > Stage(to)
              /\ CanRun(Head(run.todo), run.work) <=> (k = 10 => \A u \in Users : Secured(a[u]))
              /\ Tail(run.todo) = Ahead(k - 1, Stage(to))
              /\ After(Head(run.todo), run.work) = Database(k - 1, Less(k, a))
<1>1. run.todo = Ahead(k, Stage(to)) /\ run.work = Database(k, a) /\ Stage(to) \in 0..11
      /\ a \in [Users -> SUBSET Ways]
  BY Stages DEF InRun, AccountsAt
<1>2. k # Stage(to)
  BY <1>1, Following
<1>3. rev \in Nat /\ to \in Nat /\ Stage(rev) \in 0..11
  BY Stages DEF SchemaInv, HeadRev
<1>4. CASE rev <= to
  <2>1. k < Stage(to) /\ k \in 0..10
    BY <1>1, <1>2, <1>3, <1>4 DEF InRun
  <2>2. /\ Head(run.todo) = Forth(k) /\ Tail(run.todo) = Ahead(k + 1, Stage(to))
    <3>1. /\ Head(Ahead(k, Stage(to))) = Forth(k)
          /\ Tail(Ahead(k, Stage(to))) = Ahead(k + 1, Stage(to))
      BY <1>1, <2>1, Following, Zenon
    <3>2. QED
      BY <1>1, <3>1, Zenon
  <2>3. CanRun(Forth(k), Database(k, a)) /\ After(Forth(k), Database(k, a)) = Database(k + 1, a)
    BY <2>1, GoesForth
  <2>4. QED
    BY <1>1, <1>4, <2>1, <2>2, <2>3, Zenon
<1>5. CASE rev > to
  <2>1. k > Stage(to) /\ k \in 1..11
    BY <1>1, <1>2, <1>3, <1>5 DEF InRun
  <2>2. /\ Head(run.todo) = Back(k) /\ Tail(run.todo) = Ahead(k - 1, Stage(to))
    <3>1. /\ Head(Ahead(k, Stage(to))) = Back(k)
          /\ Tail(Ahead(k, Stage(to))) = Ahead(k - 1, Stage(to))
      BY <1>1, <2>1, Following, Zenon
    <3>2. QED
      BY <1>1, <3>1, Zenon
  <2>3. /\ CanRun(Back(k), Database(k, a)) <=> (k = 10 => \A u \in Users : Secured(a[u]))
        /\ After(Back(k), Database(k, a)) = Database(k - 1, Less(k, a))
    BY <1>1, <2>1, GoesBack
  <2>4. QED
    BY <1>1, <1>5, <2>1, <2>2, <2>3, Zenon
<1>6. QED
  BY <1>3, <1>4, <1>5
------------------------------------------------------------------------------
\* What a statement makes of a migration that is written out.
LEMMA Stepped ==
    ASSUME NEW t, NEW b, NEW to, NEW w, NEW s, NEW x,
           run = [todo |-> t, by |-> b, to |-> to, work |-> w],
           run' = [run EXCEPT !.todo = s, !.work = x]
    PROVE  run' = [todo |-> s, by |-> b, to |-> to, work |-> x]
<1>1. run \in [todo : {t}, by : {b}, to : {to}, work : {w}]
  OBVIOUS
<1>2. run' \in [todo : {s}, by : {b}, to : {to}, work : {x}]
  BY <1>1
<1>3. QED
  BY <1>2

\* A migration has not ended, so its place on the way is known.
LEMMA Running ==
    ASSUME MigrationInv, ~Idle
    PROVE  /\ \/ run.by = "api" /\ api = "migrating"
              \/ run.by = "operator" /\ api \in Otherwise
           /\ \E k \in 0..11, to \in 0..HeadRev, a \in [Users -> SUBSET Ways] : InRun(k, to, a)
BY DEF MigrationInv, RunInv, Idle

\* A statement moves the work to the next schema on its way.
LEMMA StatementStep == ASSUME MigrationInv, Statement PROVE MigrationInv'
<1> USE DEF MigrationInv
<1>1. ~Idle
  BY DEF Statement, Idle, None
<1>2. PICK k \in 0..11, to \in 0..HeadRev, a \in [Users -> SUBSET Ways] : InRun(k, to, a)
  BY <1>1, Running
<1>3. SchemaInv'
  BY DEF Statement, SchemaInv, NobodyStranded
<1>4. /\ CanRun(Head(run.todo), run.work) /\ run.todo # << >>
      /\ run' = [todo |-> Tail(run.todo), by |-> run.by, to |-> to,
                 work |-> After(Head(run.todo), run.work)]
  <2>1. run = [todo |-> Ahead(k, Stage(to)), by |-> run.by, to |-> to, work |-> Database(k, a)]
    BY <1>2 DEF InRun
  <2>2. run' = [run EXCEPT !.todo = Tail(run.todo), !.work = After(Head(run.todo), run.work)]
    BY DEF Statement
  <2>3. run' = [todo |-> Tail(run.todo), by |-> run.by, to |-> to,
                work |-> After(Head(run.todo), run.work)]
    <3> DEFINE t == Ahead(k, Stage(to))
               w == Database(k, a)
               b == run.by
               s == Tail(run.todo)
               x == After(Head(run.todo), run.work)
    <3>1. run = [todo |-> t, by |-> b, to |-> to, work |-> w]
      BY <2>1
    <3>2. run' = [run EXCEPT !.todo = s, !.work = x]
      BY <2>2
    <3> HIDE DEF t, w, b, s, x
    <3>3. run' = [todo |-> s, by |-> b, to |-> to, work |-> x]
      BY <3>1, <3>2, Stepped
    <3>4. QED
      BY <3>3 DEF s, b, x
  <2>4. CanRun(Head(run.todo), run.work) /\ run.todo # << >>
    BY DEF Statement
  <2>5. QED
    BY <2>3, <2>4
<1>5. Stage(to) \in 0..11 /\ Stage(rev) \in 0..11 /\ AccountsAt(k, a)
  BY <1>2, Stages DEF SchemaInv, InRun
<1>6. SUFFICES \E j \in 0..11, b \in [Users -> SUBSET Ways] : InRun(j, to, b)'
  <2>1. run'.by = run.by
    BY <1>4
  <2>2. QED
    BY <1>1, <1>3, <1>6, <2>1, Running DEF RunInv, Statement
<1>7. CASE rev <= to /\ k < Stage(to) /\ Tail(run.todo) = Ahead(k + 1, Stage(to))
           /\ After(Head(run.todo), run.work) = Database(k + 1, a)
  <2>1. k \in 0..10 /\ k + 1 \in Stage(rev)..Stage(to) /\ a = db.accounts /\ ~(rev > to)
    BY <1>2, <1>5, <1>7 DEF InRun, SchemaInv, HeadRev
  <2>2. AccountsAt(k + 1, a)
    BY <1>5, <2>1, AccountsForth
  <2>3. UNCHANGED <<db, rev>>
    BY DEF Statement
  <2>4. run' = [todo |-> Ahead(k + 1, Stage(to)), by |-> run'.by, to |-> to,
                work |-> Database(k + 1, a)]
    BY <1>4, <1>7
  <2>5. InRun(k + 1, to, a)'
    BY <2>1, <2>2, <2>3, <2>4 DEF InRun
  <2>6. QED
    BY <2>1, <2>5
<1>8. CASE rev > to /\ k > Stage(to) /\ Tail(run.todo) = Ahead(k - 1, Stage(to))
           /\ (CanRun(Head(run.todo), run.work) <=> (k = 10 => \A u \in Users : Secured(a[u])))
           /\ After(Head(run.todo), run.work) = Database(k - 1, Less(k, a))
  <2>1. k \in 1..11 /\ k - 1 \in Stage(to)..Stage(rev) /\ k <= Stage(rev) /\ ~(rev <= to)
    BY <1>2, <1>5, <1>8 DEF InRun, SchemaInv, HeadRev
  <2>2. AccountsAt(k - 1, Less(k, a))
    BY <1>4, <1>5, <1>8, <2>1, AccountsBack
  <2>3. UNCHANGED <<db, rev>>
    BY DEF Statement
  <2>4. run' = [todo |-> Ahead(k - 1, Stage(to)), by |-> run'.by, to |-> to,
                work |-> Database(k - 1, Less(k, a))]
    BY <1>4, <1>8
  <2>5. k - 1 = 10 => rev = 3 /\ Less(k, a) = Without("oauth_accounts", db.accounts)
    <3>1. SUFFICES ASSUME k = 11
                   PROVE  rev = 3 /\ Less(k, a) = Without("oauth_accounts", db.accounts)
      BY <2>1
    <3>2. Stage(rev) = 11 /\ a = db.accounts
      BY <1>2, <1>5, <1>8, <2>1, <3>1 DEF InRun
    <3>3. QED
      BY <3>1, <3>2, Stages DEF Less, SchemaInv
  <2>6. k - 1 # 11
    BY <2>1
  <2>7. InRun(k - 1, to, Less(k, a))'
    BY <2>1, <2>2, <2>3, <2>4, <2>5, <2>6 DEF InRun
  <2>8. k - 1 \in 0..11 /\ Less(k, a) \in [Users -> SUBSET Ways]
    BY <2>1, <2>2 DEF AccountsAt
  <2>9. QED
    BY <2>7, <2>8
<1>9. QED
  BY <1>2, <1>4, <1>7, <1>8, Proceeds

\* A migration that has no statement left has come to its target.
LEMMA CommitStep == ASSUME MigrationInv, Commit PROVE MigrationInv'
<1> USE DEF MigrationInv
<1>1. PICK k \in 0..11, to \in 0..HeadRev, a \in [Users -> SUBSET Ways] : InRun(k, to, a)
  BY Running DEF Commit
<1>2. run.todo = Ahead(k, Stage(to)) /\ run.work = Database(k, a) /\ run.to = to
  BY <1>1 DEF InRun
<1>3. k = Stage(to)
  <2>1. Stage(to) \in 0..11 /\ Ahead(k, Stage(to)) = << >>
    BY <1>2, Stages DEF Commit
  <2>2. QED
    BY <2>1, Following, Zenon
<1>4. db' = Database(Stage(to), a) /\ rev' = to /\ db'.accounts = a
  BY <1>2, <1>3 DEF Commit, Database
<1>5. AccountsAt(Stage(to), a)
  BY <1>1, <1>3 DEF InRun
<1>6. ASSUME NEW u \in Users, "account" \in a[u] PROVE a[u] # {"account"}
  <2>1. CASE to = 3
    <3>1. a = db.accounts
      BY <1>1, <2>1 DEF InRun, SchemaInv, HeadRev
    <3>2. QED
      BY <1>6, <3>1 DEF SchemaInv, NobodyStranded, HasAccount
  <2>2. CASE to # 3
    <3>1. Stage(to) <= 9
      BY <2>2 DEF Stage, HeadRev
    <3>2. "password" \in a[u]
      BY <1>5, <1>6, <3>1 DEF AccountsAt, Secured
    <3>3. QED
      BY <3>2
  <2>3. QED
    BY <2>1, <2>2
<1>7. NobodyStranded'
  BY <1>4, <1>6 DEF NobodyStranded, HasAccount
<1>8. RunInv'
  BY Running DEF RunInv, Commit, Otherwise
<1>9. QED
  BY <1>4, <1>5, <1>7, <1>8 DEF SchemaInv, Commit

\* A request finds the head schema, and leaves its user a way to sign in.
LEMMA BecomeStep ==
    ASSUME MigrationInv, NEW u \in Users, NEW ways \in SUBSET Ways, ways # {"account"},
           Become(u, ways)
    PROVE  MigrationInv'
<1> USE DEF MigrationInv
<1> DEFINE a == [db.accounts EXCEPT ![u] = ways]
<1>1. rev = 3
  <2>1. DOMAIN db.tables = Present(Stage(rev))
    BY DEF SchemaInv, Database
  <2>2. "oauth_accounts" \in DOMAIN db.tables
    BY DEF Become, Fits, Models
  <2>3. Since("oauth_accounts") = 11
    BY DEF Since
  <2>4. QED
    BY <2>1, <2>2, <2>3, Stages DEF Present, SchemaInv
<1>2. Stage(3) = 11 /\ 3 \in 0..HeadRev
  BY DEF Stage, HeadRev
<1>3. db = Database(11, db.accounts) /\ db.accounts \in [Users -> SUBSET Ways]
  BY <1>1, <1>2 DEF SchemaInv, AccountsAt
<1>4. db' = Database(11, a)
  <2>1. db' = [db EXCEPT !.accounts = a]
    BY DEF Become
  <2>2. db \in [tables : {Database(11, a).tables}, types : {Database(11, a).types},
                accounts : {db.accounts}]
    BY <1>3 DEF Database
  <2>3. db' \in [tables : {Database(11, a).tables}, types : {Database(11, a).types},
                 accounts : {a}]
    BY <2>1, <2>2
  <2>4. QED
    BY <2>3 DEF Database
<1>5. a \in [Users -> SUBSET Ways] /\ AccountsAt(11, a) /\ db'.accounts = a
  BY <1>3, <1>4 DEF AccountsAt, Database
<1>6. \A x \in Users : "account" \in a[x] => a[x] # {"account"}
  BY <1>3 DEF SchemaInv, NobodyStranded, HasAccount
<1> HIDE DEF a
<1>7. SchemaInv'
  <2>1. rev' = 3 /\ NobodyStranded'
    BY <1>1, <1>5, <1>6 DEF Become, NobodyStranded, HasAccount
  <2>2. QED
    BY <1>2, <1>4, <1>5, <2>1 DEF SchemaInv
<1>8. QED
  BY <1>7 DEF Become, Idle, RunInv

\* Every request that changes how somebody signs in is such a request.
LEMMA SignInStep == ASSUME MigrationInv, NEW u \in Users, Request(u) PROVE MigrationInv'
<1>1. db.accounts[u] \in SUBSET Ways
  BY DEF MigrationInv, SchemaInv, AccountsAt
<1>2. PICK ways \in SUBSET Ways : ways # {"account"} /\ Become(u, ways)
  <2>1. CASE Register(u)
    BY <2>1 DEF Register, Ways
  <2>2. CASE GoogleSignUp(u)
    BY <2>2 DEF GoogleSignUp, Ways
  <2>3. CASE LinkGoogle(u)
    BY <1>1, <2>3 DEF LinkGoogle, Ways
  <2>4. CASE UnlinkGoogle(u)
    BY <1>1, <2>4 DEF UnlinkGoogle, Ways
  <2>5. CASE SetPassword(u)
    BY <1>1, <2>5 DEF SetPassword, Ways
  <2>6. QED
    BY <2>1, <2>2, <2>3, <2>4, <2>5 DEF Request
<1>3. QED
  BY <1>2, BecomeStep

\* A start migrates from the schema of the revision, or leaves the database be.
LEMMA ContainerStep == ASSUME MigrationInv, Start \/ Exit PROVE MigrationInv'
<1>1. CASE Exit
  BY <1>1 DEF Exit, MigrationInv, SchemaInv, RunInv, InRun, NobodyStranded, Otherwise
<1>2. CASE Start
  <2>1. PICK d \in Deployments : Boot(d)
    BY <1>2 DEF Start
  <2>2. api = "stopped" /\ UNCHANGED <<db, rev, crashes>>
    BY <2>1 DEF Boot
  <2>3. CASE Begin("api", HeadRev) /\ api' = "migrating"
    <3>1. HeadRev \in 0..HeadRev
      BY DEF HeadRev
    <3>2. QED
      BY <2>2, <2>3, <3>1, Begins
  <2>4. CASE UNCHANGED run /\ api' \in {"serving", "failing"}
    <3>1. SchemaInv' /\ crashes' \in 0..MaxCrashes
      BY <2>2 DEF MigrationInv, SchemaInv, NobodyStranded
    <3>2. RunInv'
      BY <2>2, <2>4 DEF MigrationInv, RunInv, InRun, Otherwise
    <3>3. QED
      BY <3>1, <3>2 DEF MigrationInv
  <2>5. QED
    BY <2>1, <2>3, <2>4 DEF Boot
<1>3. QED
  BY <1>1, <1>2

\* Whoever may have done what and wherever the container may have died, the
\* database has the schema of its revision, and a migration in progress the
\* one its next statement expects.
THEOREM MigrationInvariance == MGSpec => []MigrationInv
<1>1. MGInit => MigrationInv
  <2> SUFFICES ASSUME MGInit PROVE MigrationInv
    OBVIOUS
  <2>1. Stage(0) = 0 /\ 0 \in 0..HeadRev /\ Present(0) = {} /\ {e \in Enums : Since(e) <= 0} = {}
    BY SinceRange DEF Stage, HeadRev, Present
  <2>2. db.accounts = [u \in Users |-> {}] /\ db = Database(0, db.accounts)
    BY <2>1 DEF MGInit, Database
  <2>3. AccountsAt(0, db.accounts) /\ NobodyStranded
    BY <2>2 DEF AccountsAt, Secured, NobodyStranded, HasAccount
  <2>4. QED
    BY <2>1, <2>2, <2>3, MGAssumption DEF MGInit, MigrationInv, SchemaInv, RunInv, Otherwise
<1>2. MigrationInv /\ [MGNext]_MGvars => MigrationInv'
  <2> SUFFICES ASSUME MigrationInv, [MGNext]_MGvars PROVE MigrationInv'
    OBVIOUS
  <2>1. CASE Start \/ Exit
    BY <2>1, ContainerStep
  <2>2. CASE Operate
    <3>1. api \in Otherwise
      BY <2>2 DEF Operate, Idle, None, MigrationInv, RunInv, InRun
    <3>2. QED
      BY <2>2, <3>1, Begins DEF Operate
  <2>3. CASE Statement
    BY <2>3, StatementStep
  <2>4. CASE StatementFails
    <3>1. ~Idle
      BY <2>4 DEF StatementFails, Idle, None
    <3>2. api' \in Otherwise
      BY <2>4, <3>1, Running DEF StatementFails, Otherwise
    <3>3. QED
      BY <2>4, <3>2 DEF StatementFails, MigrationInv, SchemaInv, RunInv, NobodyStranded
  <2>5. CASE Commit
    BY <2>5, CommitStep
  <2>6. CASE Crash
    BY <2>6, MGAssumption DEF Crash, MigrationInv, SchemaInv, RunInv, NobodyStranded, Otherwise
  <2>7. CASE \E u \in Users : Request(u)
    BY <2>7, SignInStep
  <2>8. CASE UNCHANGED MGvars
    BY <2>8 DEF MGvars, MigrationInv, SchemaInv, RunInv, InRun, NobodyStranded
  <2>9. QED
    BY <2>1, <2>2, <2>3, <2>4, <2>5, <2>6, <2>7, <2>8 DEF MGNext
<1>3. QED
  BY <1>1, <1>2, PTL DEF MGSpec

\* The eleventh schema is the one the model classes declare.
LEMMA HeadSchema == /\ DOMAIN Models = Names
                    /\ \A a : Database(11, a).tables = Models
                    /\ \A a : Database(11, a).types = UNION {Models[t].enums : t \in DOMAIN Models}
<1>1. DOMAIN Models = Names
  BY DEF Models, Names
<1>2. Present(11) = Names /\ {e \in Enums : Since(e) <= 11} = Enums
  BY SinceRange DEF Present
<1>3. UsersAt(11) = Models["users"]
  BY DEF UsersAt, Models, Table
<1>4. [t \in Names |-> TableAt(11, t)] = Models
  <2>1. \A t \in Names : TableAt(11, t) = Models[t]
    BY <1>3 DEF TableAt
  <2>2. Models = [t \in Names |-> Models[t]]
    BY <1>1 DEF Models
  <2>3. QED
    BY <2>1, <2>2
<1>5. UNION {Models[t].enums : t \in Names} = Enums
  BY DEF Models, Table, Names, Enums
<1>6. QED
  BY <1>1, <1>2, <1>4, <1>5 DEF Database

\* Revision, tables, accounts, container and migration keep to their values.
THEOREM MigrationTyping == MGSpec => []MGTypeOK
<1>1. MigrationInv => MGTypeOK
  <2> SUFFICES ASSUME MigrationInv PROVE MGTypeOK
    OBVIOUS
  <2>1. DOMAIN db.tables \subseteq DOMAIN Models
    <3>1. DOMAIN db.tables = Present(Stage(rev))
      BY DEF MigrationInv, SchemaInv, Database
    <3>2. QED
      BY <3>1, HeadSchema DEF Present
  <2>2. db.accounts \in [Users -> SUBSET {"account", "password", "google"}]
    BY DEF MigrationInv, SchemaInv, AccountsAt, Ways
  <2>3. /\ api \in {"stopped", "migrating", "serving", "failing"}
        /\ run.by \in {"nobody", "api", "operator"}
        /\ run.by = "api" <=> api = "migrating"
    <3>1. CASE run = None /\ api \in Otherwise
      BY <3>1 DEF None, Otherwise
    <3>2. CASE \/ run.by = "api" /\ api = "migrating"
               \/ run.by = "operator" /\ api \in Otherwise
      BY <3>2 DEF Otherwise
    <3>3. QED
      BY <3>1, <3>2 DEF MigrationInv, RunInv
  <2>4. QED
    BY <2>1, <2>2, <2>3 DEF MGTypeOK, MigrationInv, SchemaInv
<1>2. QED
  BY <1>1, MigrationInvariance, PTL

\* On whatever way the database got to the head revision, its schema is that
\* of the model classes; at base nothing is left of it.
THEOREM SchemaHolds == MGSpec => []SchemaFollowsRevision
<1>1. MigrationInv => SchemaFollowsRevision
  <2> SUFFICES ASSUME MigrationInv PROVE SchemaFollowsRevision
    OBVIOUS
  <2>1. db = Database(Stage(rev), db.accounts)
    BY DEF MigrationInv, SchemaInv
  <2>2. ASSUME rev = HeadRev
        PROVE  Fits /\ db.types = UNION {Models[t].enums : t \in DOMAIN Models}
    <3>1. Stage(rev) = 11
      BY <2>2 DEF Stage, HeadRev
    <3>2. db = Database(11, db.accounts)
      BY <2>1, <3>1
    <3>3. QED
      BY <3>2, HeadSchema DEF Fits
  <2>3. ASSUME rev = 0 PROVE DOMAIN db.tables = {} /\ db.types = {}
    <3>1. Stage(rev) = 0
      BY <2>3 DEF Stage
    <3>2. Present(0) = {} /\ {e \in Enums : Since(e) <= 0} = {}
      BY SinceRange DEF Present
    <3>3. QED
      BY <2>1, <3>1, <3>2 DEF Database
  <2>4. QED
    BY <2>2, <2>3 DEF SchemaFollowsRevision
<1>2. QED
  BY <1>1, MigrationInvariance, PTL

\* The one statement that can fail is the one that makes the password
\* mandatory again, on the way down from 0003, and only when somebody has
\* nothing but Google to sign in with.
THEOREM OnlyGoogleFails == MGSpec => []FailsOnlyForGoogleOnly
<1>1. MigrationInv => FailsOnlyForGoogleOnly
  <2> SUFFICES ASSUME MigrationInv, run.todo # << >>, ~CanRun(Head(run.todo), run.work)
               PROVE  /\ rev = 3 /\ run.to < 3
                      /\ \E u \in Users : db.accounts[u] = {"account", "google"}
    BY DEF FailsOnlyForGoogleOnly
  <2>1. ~Idle
    BY DEF Idle, None
  <2>2. PICK k \in 0..11, to \in 0..HeadRev, a \in [Users -> SUBSET Ways] : InRun(k, to, a)
    BY <2>1, Running
  <2>3. rev > to /\ k = 10 /\ ~ \A u \in Users : Secured(a[u])
    BY <2>2, Proceeds DEF MigrationInv
  <2>4. rev = 3 /\ a = Without("oauth_accounts", db.accounts) /\ run.to = to
    BY <2>2, <2>3 DEF InRun
  <2>5. PICK u \in Users : "account" \in a[u] /\ "password" \notin a[u]
    BY <2>3 DEF Secured
  <2>6. a[u] = db.accounts[u] \ {"google"}
    BY <2>4 DEF Without
  <2>7. db.accounts[u] \in SUBSET Ways /\ db.accounts[u] # {"account"}
    BY <2>5, <2>6 DEF MigrationInv, SchemaInv, AccountsAt, NobodyStranded, HasAccount
  <2>8. db.accounts[u] = {"account", "google"}
    BY <2>5, <2>6, <2>7 DEF Ways
  <2>9. QED
    BY <2>3, <2>4, <2>8
<1>2. QED
  BY <1>1, MigrationInvariance, PTL

\* No migration leaves an account without a way to sign in: not one that
\* commits, nor one that fails or dies half way.
THEOREM NoneStranded == MGSpec => []NobodyStranded
<1>1. MigrationInv => NobodyStranded
  BY DEF MigrationInv, SchemaInv
<1>2. QED
  BY <1>1, MigrationInvariance, PTL

------------------------------------------------------------------------------
(* The start of the container.                                              *)

\* The shell of the image starts a bare alembic for the command of
\* docker-compose.yml, and uvicorn for the image's own.
LEMMA Programs == /\ FirstProgram(Entrypoint(Command("compose"))) = <<"alembic">>
                  /\ FirstProgram(Entrypoint(Command("image"))) = <<"uvicorn">>
<1>1. FirstProgram(Entrypoint(Command("compose"))) = <<"alembic">>
  BY DEF FirstProgram, Entrypoint, Command
<1>2. FirstProgram(Entrypoint(Command("image"))) = <<"uvicorn">>
  <2>1. Entrypoint(Command("image")) = <<"uvicorn">>
    BY DEF Entrypoint, Command
  <2>2. UpToAnd(<<"uvicorn">>) = <<"uvicorn">>
    <3> DEFINE line == <<"uvicorn">>
               Ends(n) == /\ \A i \in 1..n : line[i] # "&&"
                          /\ n < Len(line) => line[n + 1] = "&&"
    <3>1. Len(line) = 1 /\ line[1] = "uvicorn"
      OBVIOUS
    <3>2. \A n \in 0..1 : Ends(n) <=> n = 1
      BY <3>1
    <3>3. (CHOOSE n \in 0..1 : Ends(n)) = 1
      BY <3>2
    <3>4. SubSeq(line, 1, 1) = line
      <4>1. SubSeq(line, 1, 1) = [i \in 1..1 |-> line[i]]
        OBVIOUS
      <4>2. line = [i \in 1..1 |-> line[i]]
        OBVIOUS
      <4>3. QED
        BY <4>1, <4>2
    <3>5. QED
      BY <3>1, <3>3, <3>4 DEF UpToAnd
  <2>3. QED
    BY <2>1, <2>2 DEF FirstProgram
<1>3. QED
  BY <1>1, <1>2

\* Started by docker compose alone the container never migrates and never
\* serves, however often it is restarted and whoever migrates by hand.
THEOREM ComposeNeverServes ==
    ASSUME Deployments \subseteq {"compose"}
    PROVE  MGSpec => [](run.by # "api" /\ api \in {"stopped", "failing"})
<1> DEFINE Out == run.by # "api" /\ api \in {"stopped", "failing"}
<1>1. MGInit => Out
  BY DEF MGInit, None
<1>2. Out /\ [MGNext]_MGvars => Out'
  <2> SUFFICES ASSUME Out, [MGNext]_MGvars PROVE Out'
    OBVIOUS
  <2>1. CASE Start
    BY <2>1, Programs DEF Start, Boot
  <2>2. CASE Operate
    BY <2>2 DEF Operate, Begin
  <2>3. CASE Statement
    BY <2>3 DEF Statement
  <2>4. CASE Exit \/ StatementFails \/ Commit \/ Crash
    BY <2>4 DEF Exit, StatementFails, Commit, Crash, None
  <2>5. CASE \E u \in Users : Request(u)
    BY <2>5 DEF Request, Register, GoogleSignUp, LinkGoogle, UnlinkGoogle, SetPassword, Become
  <2>6. CASE UNCHANGED MGvars
    BY <2>6 DEF MGvars
  <2>7. QED
    BY <2>1, <2>2, <2>3, <2>4, <2>5, <2>6 DEF MGNext
<1>3. QED
  BY <1>1, <1>2, PTL DEF MGSpec
=============================================================================
