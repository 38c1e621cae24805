------------------------------ MODULE Accounts ------------------------------
(***************************************************************************)
(* Accounts and their ways to sign in: register, login_with_google, link,  *)
(* unlink, set_initial_password, reset_password and verify_email of        *)
(* services/auth_service.py over the users and oauth_accounts tables.      *)
(*                                                                         *)
(* A step is what a request does between two awaits that others can see;   *)
(* an insert and its commit are one step, as a conflicting insert waits    *)
(* for that commit.  A request may stop anywhere: get_db rolls it back.    *)
(* No operation removes or deactivates a user, and the e-mail is unique,   *)
(* so that it stands for the user.                                         *)
(***************************************************************************)
EXTENDS FiniteSets

CONSTANTS Emails,       \* normalised addresses, also the users' names here
          Subjects,     \* Google accounts
          GoogleEmail,  \* GoogleEmail[g]: the verified address of g
          Requests,     \* requests to the endpoints, each served once
          NoPassword, NoRow, NoUser, NoSubject

ASSUME ConstantsAssumption ==
    /\ GoogleEmail \in [Subjects -> Emails]
    /\ NoPassword \notin Requests /\ NoRow \notin Requests
    /\ NoUser \notin Emails /\ NoSubject \notin Subjects

VARIABLES member,    \* the registered users
          pw,        \* pw[e]: the request that set the password of e
          verified,  \* users.is_verified
          links,     \* the oauth_accounts rows, each named by the request that inserted it
          req        \* progress and local variables of each request

vars == <<member, pw, verified, links, req>>
users == <<member, pw, verified>>

Links == [id : Requests, user : Emails, sub : Subjects]

Pending == {"vacant", "unknown", "absent", "matched", "free", "unclaimed", "linking",
            "loaded", "unlinking", "setting"}
Answered == {"refused", "conflict", "in", "done"}

At(point, u, g) == [pc |-> point, user |-> u, sub |-> g, bare |-> FALSE, row |-> NoRow]

Init == /\ member = {}
        /\ pw = [e \in Emails |-> NoPassword]
        /\ verified = [e \in Emails |-> FALSE]
        /\ links = {}
        /\ req = [r \in Requests |-> At("idle", NoUser, NoSubject)]

\* Request r goes on from one point to another.
Goto(r, from, to) == req[r].pc = from /\ req' = [req EXCEPT ![r].pc = to]

\* A slip of the table: the unique constraints are missing.
NoConstraints(u, g) == TRUE

\* uq_oauth_accounts_provider_account and uq_oauth_accounts_user_provider.
Insertable(u, g) == \A l \in links : l.user # u /\ l.sub # g

Insert(r, u, g) == links' = links \cup {[id |-> r, user |-> u, sub |-> g]}

------------------------------------------------------------------------------
(* register *)

RegisterLook(r, e) ==
    /\ req[r].pc = "idle"
    /\ req' = [req EXCEPT ![r] = At(IF e \in member THEN "refused" ELSE "vacant", e, NoSubject)]
    /\ UNCHANGED <<users, links>>

RegisterCommit(r) ==
    LET e == req[r].user IN
    /\ req[r].pc = "vacant"
    /\ \/ /\ e \notin member
          /\ Goto(r, "vacant", "done")
          /\ member' = member \cup {e}
          /\ pw' = [pw EXCEPT ![e] = r]
       \/ /\ e \in member
          /\ Goto(r, "vacant", "conflict")
          /\ UNCHANGED <<member, pw>>
    /\ UNCHANGED <<verified, links>>

------------------------------------------------------------------------------
(* login_with_google *)

\* The identity is linked: its user is signed in.
GoogleLookIdentity(r, g) ==
    /\ req[r].pc = "idle"
    /\ \/ \E l \in links :
            /\ l.sub = g
            /\ req' = [req EXCEPT ![r] = At("in", l.user, g)]
       \/ /\ \A l \in links : l.sub # g
          /\ req' = [req EXCEPT ![r] = At("unknown", GoogleEmail[g], g)]
    /\ UNCHANGED <<users, links>>

\* A slip of GoogleLookUser: an unverified account is matched as well.
MatchUnverified(r) ==
    LET e == req[r].user IN
    /\ Goto(r, "unknown", IF e \in member THEN "matched" ELSE "absent")
    /\ UNCHANGED <<users, links>>

\* The user with the same address, if verified.
GoogleLookUser(r) ==
    LET e == req[r].user IN
    /\ Goto(r, "unknown", IF e \notin member THEN "absent"
                          ELSE IF verified[e] THEN "matched" ELSE "refused")
    /\ UNCHANGED <<users, links>>

\* A user with a link to some Google account is signed in as it is.
GoogleLookLink(r) ==
    /\ Goto(r, "matched", IF \E l \in links : l.user = req[r].user THEN "in" ELSE "free")
    /\ UNCHANGED <<users, links>>

GoogleAttach(r) ==
    /\ \/ /\ Insertable(req[r].user, req[r].sub)
          /\ Goto(r, "free", "in")
          /\ Insert(r, req[r].user, req[r].sub)
       \/ /\ ~Insertable(req[r].user, req[r].sub)
          /\ Goto(r, "free", "conflict")
          /\ UNCHANGED links
    /\ UNCHANGED users

\* User and link are inserted in one transaction.
GoogleCreate(r) ==
    LET e == req[r].user IN
    /\ \/ /\ e \notin member /\ Insertable(e, req[r].sub)
          /\ Goto(r, "absent", "in")
          /\ member' = member \cup {e}
          /\ verified' = [verified EXCEPT ![e] = TRUE]
          /\ Insert(r, e, req[r].sub)
       \/ /\ e \in member \/ ~Insertable(e, req[r].sub)
          /\ Goto(r, "absent", "conflict")
          /\ UNCHANGED <<member, verified, links>>
    /\ UNCHANGED pw

------------------------------------------------------------------------------
(* link_google_account and unlink_google_account, by the signed-in user u *)

LinkLookIdentity(r, u, g) ==
    /\ req[r].pc = "idle" /\ u \in member
    /\ req' = [req EXCEPT ![r] =
          At(IF \E l \in links : l.sub = g THEN "refused" ELSE "unclaimed", u, g)]
    /\ UNCHANGED <<users, links>>

LinkLookOwn(r) ==
    /\ Goto(r, "unclaimed", IF \E l \in links : l.user = req[r].user THEN "refused" ELSE "linking")
    /\ UNCHANGED <<users, links>>

LinkInsert(r) ==
    /\ \/ /\ Insertable(req[r].user, req[r].sub)
          /\ Goto(r, "linking", "done")
          /\ Insert(r, req[r].user, req[r].sub)
       \/ /\ ~Insertable(req[r].user, req[r].sub)
          /\ Goto(r, "linking", "conflict")
          /\ UNCHANGED links
    /\ UNCHANGED users

\* The user is loaded for the authentication and not looked at again.
UnlinkLoad(r, u) ==
    /\ req[r].pc = "idle" /\ u \in member
    /\ req' = [req EXCEPT ![r] = [At("loaded", u, NoSubject) EXCEPT !.bare = pw[u] = NoPassword]]
    /\ UNCHANGED <<users, links>>

\* A slip of UnlinkFind: the password is not asked for.
FindWithoutPassword(r) ==
    /\ req[r].pc = "loaded"
    /\ \E l \in links :
         /\ l.user = req[r].user
         /\ req' = [req EXCEPT ![r].pc = "unlinking", ![r].row = l.id]
    /\ UNCHANGED <<users, links>>

\* The user's link, and the password it was loaded with.
UnlinkFind(r) ==
    /\ req[r].pc = "loaded"
    /\ \/ \E l \in links :
            /\ l.user = req[r].user /\ ~req[r].bare
            /\ req' = [req EXCEPT ![r].pc = "unlinking", ![r].row = l.id]
       \/ /\ req[r].bare \/ \A l \in links : l.user # req[r].user
          /\ Goto(r, "loaded", "refused")
    /\ UNCHANGED <<users, links>>

\* DELETE by primary key: a row somebody else has deleted only makes
\* SQLAlchemy warn, a newer link of the user is another row.
UnlinkDelete(r) ==
    /\ Goto(r, "unlinking", "done")
    /\ links' = {l \in links : l.id # req[r].row}
    /\ UNCHANGED users

------------------------------------------------------------------------------
(* set_initial_password, reset_password, verify_email *)

SetLoad(r, u) ==
    /\ req[r].pc = "idle" /\ u \in member
    /\ req' = [req EXCEPT ![r] =
          At(IF pw[u] # NoPassword THEN "refused" ELSE "setting", u, NoSubject)]
    /\ UNCHANGED <<users, links>>

SetCommit(r) ==
    /\ Goto(r, "setting", "done")
    /\ pw' = [pw EXCEPT ![req[r].user] = r]
    /\ UNCHANGED <<member, verified, links>>

\* Whoever follows a mailed link; that the link is good is TokenLifecycle's.
ResetCommit(r, u) ==
    /\ req[r].pc = "idle" /\ u \in member
    /\ req' = [req EXCEPT ![r] = At("done", u, NoSubject)]
    /\ pw' = [pw EXCEPT ![u] = r]
    /\ UNCHANGED <<member, verified, links>>

VerifyCommit(r, u) ==
    /\ req[r].pc = "idle" /\ u \in member
    /\ req' = [req EXCEPT ![r] = At("done", u, NoSubject)]
    /\ verified' = [verified EXCEPT ![u] = TRUE]
    /\ UNCHANGED <<member, pw, links>>

------------------------------------------------------------------------------
Arrive(r) ==
    \/ \E e \in Emails : RegisterLook(r, e) \/ UnlinkLoad(r, e) \/ SetLoad(r, e)
                         \/ ResetCommit(r, e) \/ VerifyCommit(r, e)
    \/ \E g \in Subjects : GoogleLookIdentity(r, g)
    \/ \E e \in Emails, g \in Subjects : LinkLookIdentity(r, e, g)
Continue(r) ==
    \/ RegisterCommit(r)
    \/ GoogleLookUser(r) \/ GoogleLookLink(r) \/ GoogleAttach(r) \/ GoogleCreate(r)
    \/ LinkLookOwn(r) \/ LinkInsert(r)
    \/ UnlinkFind(r) \/ UnlinkDelete(r)
    \/ SetCommit(r)

Next == \E r \in Requests : Arrive(r) \/ Continue(r)

Spec == Init /\ [][Next]_vars

------------------------------------------------------------------------------
\* Every variable keeps to its values.
TypeOK ==
    /\ member \subseteq Emails
    /\ pw \in [Emails -> Requests \cup {NoPassword}]
    /\ verified \in [Emails -> BOOLEAN]
    /\ links \subseteq Links
    /\ req \in [Requests -> [pc : {"idle"} \cup Pending \cup Answered,
                             user : Emails \cup {NoUser}, sub : Subjects \cup {NoSubject},
                             bare : BOOLEAN, row : Requests \cup {NoRow}]]

Linked(e) == \E l \in links : l.user = e

\* Nobody is locked out: every account keeps a password or a Google link,
\* although unlink trusts a user row read before its other queries and runs
\* beside sign-ins, links and other unlinks.
SignInPossible == \A e \in member : pw[e] # NoPassword \/ Linked(e)

\* A Google account signs in to one user only and a user has one link, however
\* many requests have found neither before they insert.
LinksUnique ==
    \A l, k \in links : l.user = k.user \/ l.sub = k.sub => l = k

\* A Google sign-in attaches itself by address only to an account whose address
\* was verified: an account somebody else registered with it is left alone.
MatchedOnlyVerified ==
    \A l \in links : req[l.id].pc = "in" => verified[l.user] /\ GoogleEmail[l.sub] = l.user
=============================================================================
