--------------------------- MODULE AccountsProofs ---------------------------
(***************************************************************************)
(* For every set of addresses, Google accounts and concurrent requests: the *)
(* type invariant of Accounts, the inductive invariant AccInv, and that    *)
(* nobody is locked out, links are unique and only verified accounts are   *)
(* matched by address.                                                     *)
(***************************************************************************)
EXTENDS Accounts, TLAPS

\* A request has inserted no row before it is answered, and the rows that a
\* request holds on to were inserted by requests that are answered.
RowPart ==
    /\ \A l \in links : req[l.id].pc \in {"in", "done"} /\ l.user \in member
    /\ \A l, k \in links : l.id = k.id => l = k
    /\ \A r \in Requests : req[r].row # NoRow => /\ req[r].row \in Requests
                                                 /\ req[req[r].row].pc \in {"in", "done"}

\* What a request has read still holds as far as it matters: passwords and
\* verifications are never taken back, rows do not change hands.
ReadPart(r) ==
    /\ req[r].pc \in Pending => req[r].user \in Emails
    /\ req[r].pc \in {"unknown", "absent", "matched", "free", "unclaimed", "linking"}
         => req[r].sub \in Subjects
    /\ req[r].pc \in {"unknown", "absent", "matched", "free"} => GoogleEmail[req[r].sub] = req[r].user
    /\ req[r].pc \in {"matched", "free"} => req[r].user \in member /\ verified[req[r].user]
    /\ req[r].pc \in {"unclaimed", "linking", "loaded", "unlinking", "setting"} => req[r].user \in member
    /\ req[r].pc = "loaded" /\ ~req[r].bare => pw[req[r].user] # NoPassword
    /\ req[r].pc = "unlinking" => /\ pw[req[r].user] # NoPassword
                                  /\ req[r].row # NoRow
                                  /\ \A l \in links : l.id = req[r].row => l.user = req[r].user

AccInv == /\ TypeOK /\ RowPart
          /\ \A r \in Requests : ReadPart(r)
          /\ SignInPossible /\ LinksUnique /\ MatchedOnlyVerified

------------------------------------------------------------------------------
\* What every step of a request r has in common: r is not answered yet, the
\* other requests stay where they are, and nothing is taken back from a user.
Moves(r) ==
    /\ req[r].pc \notin {"in", "done"}
    /\ \A q \in Requests : q # r => req'[q] = req[q]
    /\ member \subseteq member'
    /\ \A e \in Emails : /\ pw[e] # NoPassword => pw'[e] # NoPassword
                         /\ verified[e] => verified'[e]

\* Links that r inserts, which it does only as it is answered.
Adds(r) == \A l \in links' : l \in links \/ /\ l.id = r /\ l.user \in member'
                                            /\ req'[r].pc \in {"in", "done"}
OneAdded == \A l, k \in links' : l \notin links /\ k \notin links => l = k

\* The row r remembers was inserted by a request that is answered.
KnowsRow(r) == req'[r].row # NoRow => /\ req'[r].row \in Requests
                                      /\ req[req'[r].row].pc \in {"in", "done"}

\* No row of oauth_accounts changes hands while requests move one at a time.
LEMMA RowStep ==
  ASSUME AccInv, TypeOK', NEW r \in Requests, Moves(r), Adds(r), OneAdded, KnowsRow(r)
  PROVE  RowPart'
<1>1. \A l \in links : l.id \in Requests /\ l.id # r /\ req[l.id].pc \in {"in", "done"} /\ l.user \in member
  BY DEF AccInv, RowPart, TypeOK, Links, Moves
<1>2. \A l \in links' : req'[l.id].pc \in {"in", "done"} /\ l.user \in member'
  BY <1>1 DEF Adds, Moves
<1>3. \A l, k \in links' : l.id = k.id => l = k
  <2> SUFFICES ASSUME NEW l \in links', NEW k \in links', l.id = k.id PROVE l = k
    OBVIOUS
  <2>1. CASE l \in links /\ k \in links
    BY <2>1 DEF AccInv, RowPart
  <2>2. CASE l \notin links \/ k \notin links
    BY <2>2, <1>1 DEF Adds, OneAdded
  <2> QED
    BY <2>1, <2>2
<1>4. ASSUME NEW q \in Requests, req'[q].row # NoRow
      PROVE  req'[q].row \in Requests /\ req'[req'[q].row].pc \in {"in", "done"}
  <2>1. req'[q].row \in Requests /\ req[req'[q].row].pc \in {"in", "done"}
    <3>1. CASE q = r
      BY <3>1, <1>4 DEF KnowsRow
    <3>2. CASE q # r
      BY <3>2, <1>4 DEF Moves, AccInv, RowPart
    <3> QED
      BY <3>1, <3>2
  <2> QED
    BY <2>1 DEF Moves
<1> QED
  BY <1>2, <1>3, <1>4 DEF RowPart

\* What the other requests have read still holds after a step of r.
LEMMA ReadStep ==
  ASSUME AccInv, NEW r \in Requests, Moves(r), Adds(r), NEW q \in Requests, q # r
  PROVE  ReadPart(q)'
<1>1. ReadPart(q) /\ req'[q] = req[q]
  BY DEF AccInv, Moves
<1>2. req[q].pc \in Pending => req[q].user \in Emails
  BY <1>1 DEF ReadPart
<1>3. req[q].pc = "unlinking" => \A l \in links' : l.id = req[q].row => l.user = req[q].user
  <2> SUFFICES ASSUME req[q].pc = "unlinking", NEW l \in links', l.id = req[q].row
               PROVE  l.user = req[q].user
    OBVIOUS
  <2>1. req[q].row # r
    BY <1>1 DEF AccInv, RowPart, ReadPart, Moves
  <2>2. l \in links
    BY <2>1 DEF Adds
  <2> QED
    BY <2>2, <1>1 DEF ReadPart
<1> QED
  BY <1>1, <1>2, <1>3 DEF ReadPart, Moves, Pending

\* Old matches stay good: verifications are not taken back.
LEMMA MatchStep ==
  ASSUME AccInv, NEW r \in Requests, Moves(r), Adds(r),
         \A l \in links' : l \notin links /\ req'[r].pc = "in"
                            => verified'[l.user] /\ GoogleEmail[l.sub] = l.user
  PROVE  MatchedOnlyVerified'
<1> SUFFICES ASSUME NEW l \in links', req'[l.id].pc = "in"
             PROVE  verified'[l.user] /\ GoogleEmail[l.sub] = l.user
  BY DEF MatchedOnlyVerified
<1>1. CASE l \in links
  <2>1. l.id \in Requests /\ l.id # r /\ l.user \in Emails
    BY <1>1 DEF AccInv, RowPart, TypeOK, Links, Moves
  <2> QED
    BY <1>1, <2>1 DEF AccInv, MatchedOnlyVerified, Moves
<1>2. CASE l \notin links
  BY <1>2 DEF Adds
<1> QED
  BY <1>1, <1>2

\* A step that only reads: what is left to show is about r itself.
LEMMA ReadOnly ==
  ASSUME AccInv, TypeOK', NEW r \in Requests, UNCHANGED <<users, links>>,
         req[r].pc \notin {"in", "done"}, \A q \in Requests : q # r => req'[q] = req[q],
         KnowsRow(r), ReadPart(r)'
  PROVE  AccInv'
<1>1. Moves(r) /\ Adds(r) /\ OneAdded
  BY DEF Moves, Adds, OneAdded, users
<1>2. RowPart'
  BY <1>1, RowStep
<1>3. \A q \in Requests : ReadPart(q)'
  BY <1>1, ReadStep
<1>4. MatchedOnlyVerified'
  BY <1>1, MatchStep
<1>5. SignInPossible' /\ LinksUnique'
  BY DEF AccInv, SignInPossible, LinksUnique, Linked, users
<1> QED
  BY <1>2, <1>3, <1>4, <1>5 DEF AccInv

\* A step that commits something and keeps every link.
LEMMA Commit ==
  ASSUME AccInv, TypeOK', NEW r \in Requests, Moves(r), Adds(r), OneAdded, KnowsRow(r),
         req'[r].pc \in Answered, links \subseteq links',
         \A l \in links' : l \notin links =>
            /\ req'[r].pc = "in" => verified'[l.user] /\ GoogleEmail[l.sub] = l.user
            /\ Insertable(l.user, l.sub),
         \A e \in member' : e \in member \/ pw'[e] # NoPassword \/ Linked(e)'
  PROVE  AccInv'
<1>1. RowPart'
  BY RowStep
<1>2. ReadPart(r)'
  BY DEF ReadPart, Answered, Pending
<1>3. \A q \in Requests : ReadPart(q)'
  BY <1>2, ReadStep
<1>4. MatchedOnlyVerified'
  BY MatchStep
<1>5. SignInPossible'
  BY DEF AccInv, SignInPossible, Linked, Moves, TypeOK
<1>6. LinksUnique'
  BY DEF AccInv, LinksUnique, Insertable, OneAdded
<1> QED
  BY <1>1, <1>3, <1>4, <1>5, <1>6 DEF AccInv

------------------------------------------------------------------------------
\* Every step keeps every variable within its type: by the rest of the
\* invariant a request that goes on in auth_service.py knows its user.
LEMMA TypeStep == AccInv /\ [Next]_vars => TypeOK'
<1> USE ConstantsAssumption DEF TypeOK, Links, Answered, At, Goto, Insert, users
<1> SUFFICES ASSUME AccInv, [Next]_vars PROVE TypeOK'
  OBVIOUS
<1> USE DEF Pending
<1>a. TypeOK /\ \A r \in Requests : ReadPart(r)
  BY DEF AccInv
<1>b. \A l \in links : l.id \in Requests /\ l.user \in Emails /\ l.sub \in Subjects
  BY <1>a
<1>1. ASSUME NEW r \in Requests, NEW e \in Emails, RegisterLook(r, e) PROVE TypeOK'
  BY <1>a, <1>b, <1>1 DEF RegisterLook, ReadPart
<1>2. ASSUME NEW r \in Requests, RegisterCommit(r) PROVE TypeOK'
  BY <1>a, <1>b, <1>2 DEF RegisterCommit, ReadPart
<1>3. ASSUME NEW r \in Requests, NEW g \in Subjects, GoogleLookIdentity(r, g) PROVE TypeOK'
  <2>1. GoogleEmail[g] \in Emails
    OBVIOUS
  <2>2. \E u \in Emails, to \in {"in", "unknown"} : req' = [req EXCEPT ![r] = At(to, u, g)]
    BY <1>b, <1>3, <2>1, Zenon DEF GoogleLookIdentity
  <2> QED
    BY <1>a, <1>3, <2>2 DEF GoogleLookIdentity
<1>4. ASSUME NEW r \in Requests, GoogleLookUser(r) PROVE TypeOK'
  BY <1>a, <1>b, <1>4 DEF GoogleLookUser, ReadPart
<1>5. ASSUME NEW r \in Requests, GoogleLookLink(r) PROVE TypeOK'
  BY <1>a, <1>b, <1>5 DEF GoogleLookLink, ReadPart
<1>6. ASSUME NEW r \in Requests, GoogleAttach(r) PROVE TypeOK'
  BY <1>a, <1>b, <1>6 DEF GoogleAttach, ReadPart
<1>7. ASSUME NEW r \in Requests, GoogleCreate(r) PROVE TypeOK'
  <2>1. req[r].pc = "absent"
    BY <1>7 DEF GoogleCreate
  <2>2. req[r].user \in Emails /\ req[r].sub \in Subjects
    BY <1>a, <2>1 DEF ReadPart
  <2>3. member' \subseteq Emails /\ verified' \in [Emails -> BOOLEAN] /\ pw' = pw
    BY <1>a, <1>7, <2>2 DEF GoogleCreate
  <2>4. links' \subseteq Links
    BY <1>a, <1>7, <2>2 DEF GoogleCreate
  <2>5. \E to \in {"in", "conflict"} : req' = [req EXCEPT ![r].pc = to]
    BY <1>7 DEF GoogleCreate
  <2> QED
    BY <1>a, <2>3, <2>4, <2>5
<1>8. ASSUME NEW r \in Requests, NEW e \in Emails, NEW g \in Subjects, LinkLookIdentity(r, e, g) PROVE TypeOK'
  BY <1>a, <1>b, <1>8 DEF LinkLookIdentity, ReadPart
<1>9. ASSUME NEW r \in Requests, LinkLookOwn(r) PROVE TypeOK'
  BY <1>a, <1>b, <1>9 DEF LinkLookOwn, ReadPart
<1>10. ASSUME NEW r \in Requests, LinkInsert(r) PROVE TypeOK'
  BY <1>a, <1>b, <1>10 DEF LinkInsert, ReadPart
<1>11. ASSUME NEW r \in Requests, NEW e \in Emails, UnlinkLoad(r, e) PROVE TypeOK'
  BY <1>a, <1>b, <1>11 DEF UnlinkLoad, ReadPart
<1>12. ASSUME NEW r \in Requests, UnlinkFind(r) PROVE TypeOK'
  BY <1>a, <1>b, <1>12 DEF UnlinkFind, ReadPart
<1>13. ASSUME NEW r \in Requests, UnlinkDelete(r) PROVE TypeOK'
  BY <1>a, <1>b, <1>13 DEF UnlinkDelete, ReadPart
<1>14. ASSUME NEW r \in Requests, NEW e \in Emails, SetLoad(r, e) PROVE TypeOK'
  BY <1>a, <1>b, <1>14 DEF SetLoad, ReadPart
<1>15. ASSUME NEW r \in Requests, SetCommit(r) PROVE TypeOK'
  BY <1>a, <1>b, <1>15 DEF SetCommit, ReadPart
<1>16. ASSUME NEW r \in Requests, NEW e \in Emails, ResetCommit(r, e) PROVE TypeOK'
  BY <1>a, <1>b, <1>16 DEF ResetCommit, ReadPart
<1>17. ASSUME NEW r \in Requests, NEW e \in Emails, VerifyCommit(r, e) PROVE TypeOK'
  BY <1>a, <1>b, <1>17 DEF VerifyCommit, ReadPart
<1>18. CASE UNCHANGED vars
  BY <1>a, <1>18 DEF vars
<1> QED
  BY <1>1, <1>2, <1>3, <1>4, <1>5, <1>6, <1>7, <1>8, <1>9, <1>10, <1>11, <1>12, <1>13, <1>14, <1>15, <1>16, <1>17, <1>18 DEF Next, Arrive, Continue

------------------------------------------------------------------------------
\* The invariant holds of the empty tables.
LEMMA InvInit == Init => AccInv
<1> SUFFICES ASSUME Init PROVE AccInv
  OBVIOUS
<1>1. TypeOK
  BY ConstantsAssumption DEF Init, TypeOK, At, Links
<1>2. RowPart /\ SignInPossible /\ LinksUnique /\ MatchedOnlyVerified
  BY DEF Init, RowPart, SignInPossible, LinksUnique, MatchedOnlyVerified, At
<1>3. \A r \in Requests : ReadPart(r)
  BY DEF Init, ReadPart, Pending, At
<1> QED
  BY <1>1, <1>2, <1>3 DEF AccInv

\* Every step of every request keeps the invariant.
LEMMA InvStep == AccInv /\ [Next]_vars => AccInv'
<1> SUFFICES ASSUME AccInv, [Next]_vars PROVE AccInv'
  OBVIOUS
<1>a. TypeOK' /\ TypeOK /\ RowPart
  BY TypeStep DEF AccInv
<1>b. \A r \in Requests : ReadPart(r)
  BY DEF AccInv
<1>1. ASSUME NEW r \in Requests, NEW e \in Emails, RegisterLook(r, e) PROVE AccInv'
  <2>1. UNCHANGED <<users, links>> /\ req[r].pc \notin {"in", "done"}
    BY <1>1 DEF RegisterLook, Goto
  <2>2. \A q \in Requests : q # r => req'[q] = req[q]
    BY <1>a, <1>1 DEF RegisterLook, Goto, TypeOK
  <2>3. KnowsRow(r)
    BY <1>a, <1>1 DEF RegisterLook, Goto, TypeOK, At, KnowsRow, RowPart
  <2>4. ReadPart(r)'
    BY <1>a, <1>b, <1>1, ConstantsAssumption DEF RegisterLook, Goto, TypeOK, At, ReadPart, Pending, users
  <2> QED
    BY <1>a, <2>1, <2>2, <2>3, <2>4, ReadOnly
<1>2. ASSUME NEW r \in Requests, NEW g \in Subjects, GoogleLookIdentity(r, g) PROVE AccInv'
  <2>1. UNCHANGED <<users, links>> /\ req[r].pc \notin {"in", "done"}
    BY <1>2 DEF GoogleLookIdentity, Goto
  <2>2. \A q \in Requests : q # r => req'[q] = req[q]
    BY <1>a, <1>2 DEF GoogleLookIdentity, Goto, TypeOK
  <2>3. KnowsRow(r)
    BY <1>a, <1>2 DEF GoogleLookIdentity, Goto, TypeOK, At, KnowsRow, RowPart
  <2>4. ReadPart(r)'
    BY <1>a, <1>b, <1>2, ConstantsAssumption DEF GoogleLookIdentity, Goto, TypeOK, At, ReadPart, Pending, users
  <2> QED
    BY <1>a, <2>1, <2>2, <2>3, <2>4, ReadOnly
<1>3. ASSUME NEW r \in Requests, GoogleLookUser(r) PROVE AccInv'
  <2>1. UNCHANGED <<users, links>> /\ req[r].pc \notin {"in", "done"}
    BY <1>3 DEF GoogleLookUser, Goto
  <2>2. \A q \in Requests : q # r => req'[q] = req[q]
    BY <1>a, <1>3 DEF GoogleLookUser, Goto, TypeOK
  <2>3. KnowsRow(r)
    BY <1>a, <1>3 DEF GoogleLookUser, Goto, TypeOK, At, KnowsRow, RowPart
  <2>4. ReadPart(r)'
    BY <1>a, <1>b, <1>3, ConstantsAssumption DEF GoogleLookUser, Goto, TypeOK, At, ReadPart, Pending, users
  <2> QED
    BY <1>a, <2>1, <2>2, <2>3, <2>4, ReadOnly
<1>4. ASSUME NEW r \in Requests, GoogleLookLink(r) PROVE AccInv'
  <2>1. UNCHANGED <<users, links>> /\ req[r].pc \notin {"in", "done"}
    BY <1>4 DEF GoogleLookLink, Goto
  <2>2. \A q \in Requests : q # r => req'[q] = req[q]
    BY <1>a, <1>4 DEF GoogleLookLink, Goto, TypeOK
  <2>3. KnowsRow(r)
    BY <1>a, <1>4 DEF GoogleLookLink, Goto, TypeOK, At, KnowsRow, RowPart
  <2>4. ReadPart(r)'
    BY <1>a, <1>b, <1>4, ConstantsAssumption DEF GoogleLookLink, Goto, TypeOK, At, ReadPart, Pending, users
  <2> QED
    BY <1>a, <2>1, <2>2, <2>3, <2>4, ReadOnly
<1>5. ASSUME NEW r \in Requests, NEW e \in Emails, NEW g \in Subjects, LinkLookIdentity(r, e, g) PROVE AccInv'
  <2>1. UNCHANGED <<users, links>> /\ req[r].pc \notin {"in", "done"}
    BY <1>5 DEF LinkLookIdentity, Goto
  <2>2. \A q \in Requests : q # r => req'[q] = req[q]
    BY <1>a, <1>5 DEF LinkLookIdentity, Goto, TypeOK
  <2>3. KnowsRow(r)
    BY <1>a, <1>5 DEF LinkLookIdentity, Goto, TypeOK, At, KnowsRow, RowPart
  <2>4. ReadPart(r)'
    BY <1>a, <1>b, <1>5, ConstantsAssumption DEF LinkLookIdentity, Goto, TypeOK, At, ReadPart, Pending, users
  <2> QED
    BY <1>a, <2>1, <2>2, <2>3, <2>4, ReadOnly
<1>6. ASSUME NEW r \in Requests, LinkLookOwn(r) PROVE AccInv'
  <2>1. UNCHANGED <<users, links>> /\ req[r].pc \notin {"in", "done"}
    BY <1>6 DEF LinkLookOwn, Goto
  <2>2. \A q \in Requests : q # r => req'[q] = req[q]
    BY <1>a, <1>6 DEF LinkLookOwn, Goto, TypeOK
  <2>3. KnowsRow(r)
    BY <1>a, <1>6 DEF LinkLookOwn, Goto, TypeOK, At, KnowsRow, RowPart
  <2>4. ReadPart(r)'
    BY <1>a, <1>b, <1>6, ConstantsAssumption DEF LinkLookOwn, Goto, TypeOK, At, ReadPart, Pending, users
  <2> QED
    BY <1>a, <2>1, <2>2, <2>3, <2>4, ReadOnly
<1>7. ASSUME NEW r \in Requests, NEW e \in Emails, UnlinkLoad(r, e) PROVE AccInv'
  <2>1. UNCHANGED <<users, links>> /\ req[r].pc \notin {"in", "done"}
    BY <1>7 DEF UnlinkLoad, Goto
  <2>2. \A q \in Requests : q # r => req'[q] = req[q]
    BY <1>a, <1>7 DEF UnlinkLoad, Goto, TypeOK
  <2>3. KnowsRow(r)
    BY <1>a, <1>7 DEF UnlinkLoad, Goto, TypeOK, At, KnowsRow, RowPart
  <2>4. ReadPart(r)'
    BY <1>a, <1>b, <1>7, ConstantsAssumption DEF UnlinkLoad, Goto, TypeOK, At, ReadPart, Pending, users
  <2> QED
    BY <1>a, <2>1, <2>2, <2>3, <2>4, ReadOnly
<1>8. ASSUME NEW r \in Requests, NEW e \in Emails, SetLoad(r, e) PROVE AccInv'
  <2>1. UNCHANGED <<users, links>> /\ req[r].pc \notin {"in", "done"}
    BY <1>8 DEF SetLoad, Goto
  <2>2. \A q \in Requests : q # r => req'[q] = req[q]
    BY <1>a, <1>8 DEF SetLoad, Goto, TypeOK
  <2>3. KnowsRow(r)
    BY <1>a, <1>8 DEF SetLoad, Goto, TypeOK, At, KnowsRow, RowPart
  <2>4. ReadPart(r)'
    BY <1>a, <1>b, <1>8, ConstantsAssumption DEF SetLoad, Goto, TypeOK, At, ReadPart, Pending, users
  <2> QED
    BY <1>a, <2>1, <2>2, <2>3, <2>4, ReadOnly
<1>9. ASSUME NEW r \in Requests, RegisterCommit(r) PROVE AccInv'
  <2>1. Moves(r) /\ req'[r].pc \in Answered
    BY <1>a, <1>9, ConstantsAssumption DEF RegisterCommit, Goto, TypeOK, At, Moves, Answered, users
  <2>2. Adds(r) /\ OneAdded /\ links \subseteq links'
    BY <1>a, <1>b, <1>9 DEF RegisterCommit, Goto, TypeOK, At, Adds, OneAdded, Insert, ReadPart, users
  <2>3. KnowsRow(r)
    BY <1>a, <1>9 DEF RegisterCommit, Goto, TypeOK, At, KnowsRow, RowPart
  <2>4. \A l \in links' : l \notin links =>
          /\ req'[r].pc = "in" => verified'[l.user] /\ GoogleEmail[l.sub] = l.user
          /\ Insertable(l.user, l.sub)
    BY <1>a, <1>b, <1>9 DEF RegisterCommit, Goto, TypeOK, At, Insert, ReadPart, users
  <2>5. \A u \in member' : u \in member \/ pw'[u] # NoPassword \/ Linked(u)'
    BY <1>a, <1>b, <1>9, ConstantsAssumption DEF RegisterCommit, Goto, TypeOK, At, Insert, ReadPart, Linked, users
  <2> QED
    BY <1>a, <2>1, <2>2, <2>3, <2>4, <2>5, Commit
<1>10. ASSUME NEW r \in Requests, GoogleAttach(r) PROVE AccInv'
  <2>1. Moves(r) /\ req'[r].pc \in Answered
    BY <1>a, <1>10 DEF GoogleAttach, Goto, TypeOK, At, Moves, Answered, users
  <2>2. Adds(r) /\ OneAdded /\ links \subseteq links'
    BY <1>a, <1>b, <1>10 DEF GoogleAttach, Goto, TypeOK, At, Adds, OneAdded, Insert, ReadPart, users
  <2>3. KnowsRow(r)
    BY <1>a, <1>10 DEF GoogleAttach, Goto, TypeOK, At, KnowsRow, RowPart
  <2>4. \A l \in links' : l \notin links =>
          /\ req'[r].pc = "in" => verified'[l.user] /\ GoogleEmail[l.sub] = l.user
          /\ Insertable(l.user, l.sub)
    BY <1>a, <1>b, <1>10 DEF GoogleAttach, Goto, TypeOK, At, Insert, ReadPart, users
  <2>5. \A u \in member' : u \in member \/ pw'[u] # NoPassword \/ Linked(u)'
    BY <1>a, <1>b, <1>10, ConstantsAssumption DEF GoogleAttach, Goto, TypeOK, At, Insert, ReadPart, Linked, users
  <2> QED
    BY <1>a, <2>1, <2>2, <2>3, <2>4, <2>5, Commit
<1>11. ASSUME NEW r \in Requests, GoogleCreate(r) PROVE AccInv'
  <2>1. Moves(r) /\ req'[r].pc \in Answered
    BY <1>a, <1>11 DEF GoogleCreate, Goto, TypeOK, At, Moves, Answered, users
  <2>2. Adds(r) /\ OneAdded /\ links \subseteq links'
    BY <1>a, <1>b, <1>11 DEF GoogleCreate, Goto, TypeOK, At, Adds, OneAdded, Insert, ReadPart, users
  <2>3. KnowsRow(r)
    BY <1>a, <1>11 DEF GoogleCreate, Goto, TypeOK, At, KnowsRow, RowPart
  <2>4. \A l \in links' : l \notin links =>
          /\ req'[r].pc = "in" => verified'[l.user] /\ GoogleEmail[l.sub] = l.user
          /\ Insertable(l.user, l.sub)
    BY <1>a, <1>b, <1>11 DEF GoogleCreate, Goto, TypeOK, At, Insert, ReadPart, users
  <2>5. \A u \in member' : u \in member \/ pw'[u] # NoPassword \/ Linked(u)'
    <3>1. CASE UNCHANGED member
      BY <3>1
    <3>2. CASE /\ member' = member \cup {req[r].user}
               /\ links' = links \cup {[id |-> r, user |-> req[r].user, sub |-> req[r].sub]}
      <4> DEFINE l0 == [id |-> r, user |-> req[r].user, sub |-> req[r].sub]
      <4>1. l0 \in links' /\ l0.user = req[r].user
        BY <3>2
      <4>2. \A u \in member' : u \in member \/ u = req[r].user
        BY <3>2
      <4> HIDE DEF l0
      <4>3. \A u \in member' : u \in member \/ \E l \in links' : l.user = u
        BY <4>1, <4>2
      <4> QED
        BY <4>3 DEF Linked
    <3>3. \/ UNCHANGED member
          \/ /\ member' = member \cup {req[r].user}
             /\ links' = links \cup {[id |-> r, user |-> req[r].user, sub |-> req[r].sub]}
      BY <1>11, Zenon DEF GoogleCreate, Insert
    <3> QED
      BY <3>1, <3>2, <3>3
  <2> QED
    BY <1>a, <2>1, <2>2, <2>3, <2>4, <2>5, Commit
<1>12. ASSUME NEW r \in Requests, LinkInsert(r) PROVE AccInv'
  <2>1. Moves(r) /\ req'[r].pc \in Answered
    BY <1>a, <1>12 DEF LinkInsert, Goto, TypeOK, At, Moves, Answered, users
  <2>2. Adds(r) /\ OneAdded /\ links \subseteq links'
    BY <1>a, <1>b, <1>12 DEF LinkInsert, Goto, TypeOK, At, Adds, OneAdded, Insert, ReadPart, users
  <2>3. KnowsRow(r)
    BY <1>a, <1>12 DEF LinkInsert, Goto, TypeOK, At, KnowsRow, RowPart
  <2>4. \A l \in links' : l \notin links =>
          /\ req'[r].pc = "in" => verified'[l.user] /\ GoogleEmail[l.sub] = l.user
          /\ Insertable(l.user, l.sub)
    BY <1>a, <1>b, <1>12 DEF LinkInsert, Goto, TypeOK, At, Insert, ReadPart, users
  <2>5. \A u \in member' : u \in member \/ pw'[u] # NoPassword \/ Linked(u)'
    BY <1>a, <1>b, <1>12, ConstantsAssumption DEF LinkInsert, Goto, TypeOK, At, Insert, ReadPart, Linked, users
  <2> QED
    BY <1>a, <2>1, <2>2, <2>3, <2>4, <2>5, Commit
<1>13. ASSUME NEW r \in Requests, SetCommit(r) PROVE AccInv'
  <2>1. Moves(r) /\ req'[r].pc \in Answered
    BY <1>a, <1>13, ConstantsAssumption DEF SetCommit, Goto, TypeOK, At, Moves, Answered, users
  <2>2. Adds(r) /\ OneAdded /\ links \subseteq links'
    BY <1>a, <1>b, <1>13 DEF SetCommit, Goto, TypeOK, At, Adds, OneAdded, Insert, ReadPart, users
  <2>3. KnowsRow(r)
    BY <1>a, <1>13 DEF SetCommit, Goto, TypeOK, At, KnowsRow, RowPart
  <2>4. \A l \in links' : l \notin links =>
          /\ req'[r].pc = "in" => verified'[l.user] /\ GoogleEmail[l.sub] = l.user
          /\ Insertable(l.user, l.sub)
    BY <1>a, <1>b, <1>13 DEF SetCommit, Goto, TypeOK, At, Insert, ReadPart, users
  <2>5. \A u \in member' : u \in member \/ pw'[u] # NoPassword \/ Linked(u)'
    BY <1>a, <1>b, <1>13, ConstantsAssumption DEF SetCommit, Goto, TypeOK, At, Insert, ReadPart, Linked, users
  <2> QED
    BY <1>a, <2>1, <2>2, <2>3, <2>4, <2>5, Commit
<1>14. ASSUME NEW r \in Requests, NEW e \in Emails, ResetCommit(r, e) PROVE AccInv'
  <2>1. Moves(r) /\ req'[r].pc \in Answered
    BY <1>a, <1>14, ConstantsAssumption DEF ResetCommit, Goto, TypeOK, At, Moves, Answered, users
  <2>2. Adds(r) /\ OneAdded /\ links \subseteq links'
    BY <1>a, <1>b, <1>14 DEF ResetCommit, Goto, TypeOK, At, Adds, OneAdded, Insert, ReadPart, users
  <2>3. KnowsRow(r)
    BY <1>a, <1>14 DEF ResetCommit, Goto, TypeOK, At, KnowsRow, RowPart
  <2>4. \A l \in links' : l \notin links =>
          /\ req'[r].pc = "in" => verified'[l.user] /\ GoogleEmail[l.sub] = l.user
          /\ Insertable(l.user, l.sub)
    BY <1>a, <1>b, <1>14 DEF ResetCommit, Goto, TypeOK, At, Insert, ReadPart, users
  <2>5. \A u \in member' : u \in member \/ pw'[u] # NoPassword \/ Linked(u)'
    BY <1>a, <1>b, <1>14, ConstantsAssumption DEF ResetCommit, Goto, TypeOK, At, Insert, ReadPart, Linked, users
  <2> QED
    BY <1>a, <2>1, <2>2, <2>3, <2>4, <2>5, Commit
<1>15. ASSUME NEW r \in Requests, NEW e \in Emails, VerifyCommit(r, e) PROVE AccInv'
  <2>1. Moves(r) /\ req'[r].pc \in Answered
    BY <1>a, <1>15 DEF VerifyCommit, Goto, TypeOK, At, Moves, Answered, users
  <2>2. Adds(r) /\ OneAdded /\ links \subseteq links'
    BY <1>a, <1>b, <1>15 DEF VerifyCommit, Goto, TypeOK, At, Adds, OneAdded, Insert, ReadPart, users
  <2>3. KnowsRow(r)
    BY <1>a, <1>15 DEF VerifyCommit, Goto, TypeOK, At, KnowsRow, RowPart
  <2>4. \A l \in links' : l \notin links =>
          /\ req'[r].pc = "in" => verified'[l.user] /\ GoogleEmail[l.sub] = l.user
          /\ Insertable(l.user, l.sub)
    BY <1>a, <1>b, <1>15 DEF VerifyCommit, Goto, TypeOK, At, Insert, ReadPart, users
  <2>5. \A u \in member' : u \in member \/ pw'[u] # NoPassword \/ Linked(u)'
    BY <1>a, <1>b, <1>15, ConstantsAssumption DEF VerifyCommit, Goto, TypeOK, At, Insert, ReadPart, Linked, users
  <2> QED
    BY <1>a, <2>1, <2>2, <2>3, <2>4, <2>5, Commit
<1>16. ASSUME NEW r \in Requests, UnlinkFind(r) PROVE AccInv'
  <2>1. UNCHANGED <<users, links>> /\ req[r].pc = "loaded"
    BY <1>16 DEF UnlinkFind, Goto
  <2>2. \A q \in Requests : q # r => req'[q] = req[q]
    BY <1>a, <1>16 DEF UnlinkFind, Goto, TypeOK
  <2>3. CASE \E l \in links : /\ l.user = req[r].user /\ ~req[r].bare
                               /\ req' = [req EXCEPT ![r].pc = "unlinking", ![r].row = l.id]
    <3>1. PICK l \in links : /\ l.user = req[r].user /\ ~req[r].bare
                             /\ req' = [req EXCEPT ![r].pc = "unlinking", ![r].row = l.id]
      BY <2>3
    <3>2. req'[r] = [req[r] EXCEPT !.pc = "unlinking", !.row = l.id]
      BY <1>a, <3>1 DEF TypeOK
    <3>3. req'[r].pc = "unlinking" /\ req'[r].row = l.id /\ req'[r].user = req[r].user
      BY <1>a, <3>2 DEF TypeOK
    <3>4. l.id \in Requests /\ req[l.id].pc \in {"in", "done"}
      BY <1>a DEF RowPart, TypeOK, Links
    <3>5. KnowsRow(r)
      BY <3>3, <3>4 DEF KnowsRow
    <3>6. ReadPart(r)'
      <4>1. req[r].user \in Emails /\ req[r].user \in member /\ pw[req[r].user] # NoPassword
        BY <1>b, <2>1, <3>1 DEF ReadPart, Pending
      <4>2. \A k \in links : k.id = l.id => k.user = l.user
        BY <1>a DEF RowPart
      <4>3. l.id # NoRow
        BY <3>4, ConstantsAssumption
      <4>4. member' = member /\ pw' = pw /\ links' = links
        BY <2>1 DEF users
      <4>5. \A k \in links' : k.id = req'[r].row => k.user = req'[r].user
        BY <3>1, <3>3, <4>2, <4>4
      <4> QED
        BY <3>3, <4>1, <4>3, <4>4, <4>5 DEF ReadPart, Pending
    <3> QED
      BY <1>a, <2>1, <2>2, <3>5, <3>6, ReadOnly
  <2>4. CASE Goto(r, "loaded", "refused")
    <3>1. KnowsRow(r)
      BY <1>a, <2>4 DEF Goto, TypeOK, KnowsRow, RowPart
    <3>2. ReadPart(r)'
      BY <1>a, <2>4 DEF Goto, TypeOK, ReadPart, Pending
    <3> QED
      BY <1>a, <2>1, <2>2, <3>1, <3>2, ReadOnly
  <2> QED
    BY <1>16, <2>3, <2>4 DEF UnlinkFind
<1>17. ASSUME NEW r \in Requests, UnlinkDelete(r) PROVE AccInv'
  <2>1. Moves(r) /\ Adds(r) /\ OneAdded /\ links' \subseteq links
    BY <1>a, <1>17 DEF UnlinkDelete, Goto, TypeOK, Moves, Adds, OneAdded, users
  <2>2. KnowsRow(r) /\ req'[r].pc = "done"
    BY <1>a, <1>17 DEF UnlinkDelete, Goto, TypeOK, KnowsRow, RowPart
  <2>3. RowPart'
    BY <1>a, <2>1, <2>2, RowStep
  <2>4. \A q \in Requests : ReadPart(q)'
    BY <2>1, <2>2, ReadStep DEF ReadPart, Pending
  <2>5. MatchedOnlyVerified'
    BY <2>1, MatchStep
  <2>6. LinksUnique'
    BY <2>1 DEF AccInv, LinksUnique
  \* Only the user with a password loses a link.
  <2>7. SignInPossible'
    <3> SUFFICES ASSUME NEW u \in member, pw[u] = NoPassword PROVE Linked(u)'
      BY <1>17 DEF UnlinkDelete, SignInPossible, users
    <3>1. PICK l \in links : l.user = u
      BY DEF AccInv, SignInPossible, Linked
    <3>2. l.id # req[r].row
      BY <1>b, <1>17, <3>1 DEF UnlinkDelete, Goto, ReadPart
    <3> QED
      BY <1>17, <3>1, <3>2 DEF UnlinkDelete, Linked
  <2> QED
    BY <1>a, <2>3, <2>4, <2>5, <2>6, <2>7 DEF AccInv
<1>18. CASE UNCHANGED vars
  BY <1>18 DEF vars, AccInv, TypeOK, RowPart, ReadPart, SignInPossible, LinksUnique, Linked,
               MatchedOnlyVerified
<1> QED
  BY <1>1, <1>2, <1>3, <1>4, <1>5, <1>6, <1>7, <1>8, <1>9, <1>10,
     <1>11, <1>12, <1>13, <1>14, <1>15, <1>16, <1>17, <1>18 DEF Next, Arrive, Continue

------------------------------------------------------------------------------
\* The invariant holds in every reachable state, for any number of requests.
THEOREM Invariance == Spec => []AccInv
<1>1. Init => AccInv
  BY InvInit
<1>2. AccInv /\ [Next]_vars => AccInv'
  BY InvStep
<1> QED
  BY <1>1, <1>2, PTL DEF Spec

\* The tables and every request's locals keep to their types.
THEOREM Typing == Spec => []TypeOK
<1>1. AccInv => TypeOK
  BY DEF AccInv
<1> QED
  BY <1>1, Invariance, PTL

\* unlink_google_account never takes the last way to sign in from an account.
THEOREM NobodyLockedOut == Spec => []SignInPossible
<1>1. AccInv => SignInPossible
  BY DEF AccInv
<1> QED
  BY <1>1, Invariance, PTL

\* login_with_google and link_google_account keep identities and users apart.
THEOREM LinksSound == Spec => []LinksUnique
<1>1. AccInv => LinksUnique
  BY DEF AccInv
<1> QED
  BY <1>1, Invariance, PTL

\* login_with_google matches by address only accounts whose address was
\* verified.
THEOREM MatchesSound == Spec => []MatchedOnlyVerified
<1>1. AccInv => MatchedOnlyVerified
  BY DEF AccInv
<1> QED
  BY <1>1, Invariance, PTL
=============================================================================
