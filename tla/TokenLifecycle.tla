--------------------------- MODULE TokenLifecycle ---------------------------
(***************************************************************************)
(* Signed tokens and their revocation: services/auth_service.py and        *)
(* core/security.py over Redis.  A token is valid until the second in its  *)
(* exp claim; what takes it out of use earlier is a Redis key that expires *)
(* by itself after a whole number of seconds.                              *)
(*                                                                         *)
(* Time is counted in ticks, TPS of them a second, because exp and the     *)
(* key's lifetime are rounded to seconds and the present is not.  A step   *)
(* is what a request does between two awaits.                              *)
(***************************************************************************)
EXTENDS Integers, FiniteSets

CONSTANTS Tokens,    \* tokens that may be minted, each once
          Kind,      \* Kind[t]: the type claim
          Life,      \* Life[k]: lifetime of a token of kind k, in seconds
          Requests,  \* requests that present a token, each served once
          NoToken,   \* a logout without a refresh token
          TPS,       \* ticks a second
          MaxClock,  \* bound on time, in ticks
          Faults     \* {"outage"} when Redis, the database or the process may fail

Kinds == {"access", "refresh", "reset", "verify"}

ASSUME ConstantsAssumption ==
    /\ Kind \in [Tokens -> Kinds]
    /\ Life \in [Kinds -> Nat \ {0}]
    /\ TPS \in Nat \ {0}
    /\ MaxClock \in Nat
    /\ NoToken \notin Tokens
    /\ Faults \subseteq {"outage"}

VARIABLES clock,    \* the present, in ticks
          exp,      \* exp[t]: the exp claim in seconds, 0 for a token not minted
          key,      \* key[t]: when revoked_token:<jti> expires in ticks, 0 if never set
          req       \* progress and local variables of each request

vars == <<clock, exp, key, req>>

\* The type of token each endpoint decodes.
Endpoints == {"me", "refresh", "reset", "verify", "logout"}
Decodes(e) == IF e \in {"me", "logout"} THEN "access" ELSE e

Passed == {"cleared", "committed", "revoked", "half", "served"}

Init ==
    /\ clock = 0
    /\ exp = [t \in Tokens |-> 0]
    /\ key = [t \in Tokens |-> 0]
    /\ req = [r \in Requests |-> [pc |-> "idle", ep |-> "me", tok |-> NoToken, also |-> NoToken,
                                  late |-> FALSE, at |-> 0]]

Tick == /\ clock < MaxClock
        /\ clock' = clock + 1
        /\ UNCHANGED <<exp, key, req>>

------------------------------------------------------------------------------
(* core/security.py *)

\* _create_token: the exp claim is cut to a whole second.
Minted(T) == [t \in Tokens |-> IF t \in T THEN clock \div TPS + Life[Kind[t]] ELSE exp[t]]

\* decode_token, but for the type claim.
Valid(t) == t # NoToken /\ exp[t] # 0 /\ clock < exp[t] * TPS

\* seconds_until_expiry, floored.
SecondsLeft(t) == IF clock < exp[t] * TPS THEN (exp[t] * TPS - clock) \div TPS ELSE 0

\* A slip of Revoked: the key gets the token's full lifetime.
RevokedForLife(t) == [key EXCEPT ![t] = clock + Life[Kind[t]] * TPS]

\* _revoke_payload: SET with ex=ttl, or nothing in the last second.
Revoked(t) == IF SecondsLeft(t) > 0
              THEN [key EXCEPT ![t] = clock + SecondsLeft(t) * TPS]
              ELSE key

\* _is_revoked: EXISTS on the key.
IsRevoked(t) == clock < key[t]

------------------------------------------------------------------------------
\* _issue_tokens, after register, login or Google sign-in.
Issue(a, r) ==
    /\ Kind[a] = "access" /\ Kind[r] = "refresh" /\ exp[a] = 0 /\ exp[r] = 0
    /\ exp' = Minted({a, r})
    /\ UNCHANGED <<clock, key, req>>

\* request_password_reset and _send_verification_email mail a link.
SendLink(t) ==
    /\ Kind[t] \in {"reset", "verify"} /\ exp[t] = 0
    /\ exp' = Minted({t})
    /\ UNCHANGED <<clock, key, req>>

\* The requests that have taken t out of use and answered.
Spent(t) == \E r \in Requests :
              /\ req[r].pc = "served"
              /\ \/ req[r].ep # "me" /\ req[r].tok = t
                 \/ req[r].ep = "logout" /\ req[r].also = t

\* A request arrives and its token is decoded; late notes that the token had
\* been spent before.
Present(r, e, t, u) ==
    /\ req[r].pc = "idle"
    /\ exp[t] # 0
    /\ u # NoToken => e = "logout" /\ Kind[u] = "refresh" /\ exp[u] # 0
    /\ req' = [req EXCEPT ![r] =
                 [pc   |-> IF Kind[t] = Decodes(e) /\ Valid(t) THEN "decoded" ELSE "rejected",
                  ep   |-> e, tok |-> t, also |-> u, late |-> Spent(t), at |-> 0]]
    /\ UNCHANGED <<clock, exp, key>>

\* The Redis lookup; 401 for a revoked token.
Check(r) ==
    /\ req[r].pc = "decoded"
    /\ req' = [req EXCEPT ![r].pc = IF IsRevoked(req[r].tok) THEN "rejected" ELSE "cleared",
                          ![r].at = clock]
    /\ UNCHANGED <<clock, exp, key>>

\* get_current_user finds the user.
ServeMe(r) ==
    /\ req[r].pc = "cleared" /\ req[r].ep = "me"
    /\ req' = [req EXCEPT ![r].pc = "served"]
    /\ UNCHANGED <<clock, exp, key>>

\* refresh: the old token is revoked, then a pair is minted.
RefreshRevoke(r) ==
    /\ req[r].pc = "cleared" /\ req[r].ep = "refresh"
    /\ key' = Revoked(req[r].tok)
    /\ req' = [req EXCEPT ![r].pc = "revoked"]
    /\ UNCHANGED <<clock, exp>>

RefreshMint(r, a, n) ==
    /\ req[r].pc = "revoked"
    /\ Kind[a] = "access" /\ Kind[n] = "refresh" /\ exp[a] = 0 /\ exp[n] = 0
    /\ exp' = Minted({a, n})
    /\ req' = [req EXCEPT ![r].pc = "served"]
    /\ UNCHANGED <<clock, key>>

\* reset_password and verify_email: the user row is updated and committed,
\* then the link's token is revoked.
LinkCommit(r) ==
    /\ req[r].pc = "cleared" /\ req[r].ep \in {"reset", "verify"}
    /\ req' = [req EXCEPT ![r].pc = "committed"]
    /\ UNCHANGED <<clock, exp, key>>

LinkRevoke(r) ==
    /\ req[r].pc = "committed"
    /\ key' = Revoked(req[r].tok)
    /\ req' = [req EXCEPT ![r].pc = "served"]
    /\ UNCHANGED <<clock, exp>>

\* logout: first the access token, then the refresh token if one is sent.
LogoutAccess(r) ==
    /\ req[r].pc = "cleared" /\ req[r].ep = "logout"
    /\ key' = Revoked(req[r].tok)
    /\ req' = [req EXCEPT ![r].pc = "half"]
    /\ UNCHANGED <<clock, exp>>

\* A slip of LogoutRefresh: the refresh token is decoded and forgotten.
LogoutKeepsRefresh(r) ==
    /\ req[r].pc = "half"
    /\ req' = [req EXCEPT ![r].pc = "served"]
    /\ UNCHANGED <<clock, exp, key>>

LogoutRefresh(r) ==
    /\ req[r].pc = "half"
    /\ key' = IF req[r].also = NoToken THEN key ELSE Revoked(req[r].also)
    /\ req' = [req EXCEPT ![r].pc = "served"]
    /\ UNCHANGED <<clock, exp>>

\* Redis or the database raises, or the process dies, wherever the request is.
Break(r) ==
    /\ "outage" \in Faults
    /\ req[r].pc \in {"decoded", "cleared", "committed", "revoked", "half"}
    /\ req' = [req EXCEPT ![r].pc = "broken"]
    /\ UNCHANGED <<clock, exp, key>>

Next ==
    \/ Tick
    \/ \E a, t \in Tokens : Issue(a, t)
    \/ \E t \in Tokens : SendLink(t)
    \/ \E r \in Requests, e \in Endpoints, t \in Tokens, u \in Tokens \cup {NoToken} : Present(r, e, t, u)
    \/ \E r \in Requests : \/ Check(r) \/ ServeMe(r) \/ RefreshRevoke(r) \/ LinkCommit(r)
                           \/ LinkRevoke(r) \/ LogoutAccess(r) \/ LogoutRefresh(r) \/ Break(r)
    \/ \E r \in Requests, a, n \in Tokens : RefreshMint(r, a, n)

Spec == Init /\ [][Next]_vars

------------------------------------------------------------------------------
\* Every variable keeps to its values.
TypeOK ==
    /\ clock \in 0..MaxClock
    /\ exp \in [Tokens -> Nat]
    /\ key \in [Tokens -> Nat]
    /\ req \in [Requests -> [pc : {"idle", "decoded", "rejected", "broken"} \cup Passed,
                             ep : Endpoints,
                             tok : Tokens \cup {NoToken}, also : Tokens \cup {NoToken},
                             late : BOOLEAN, at : 0..MaxClock]]

\* A revocation key ends in the last second of its token's life: it neither
\* outlives the token in Redis nor frees it a whole second early.
KeyEndsWithToken ==
    \A t \in Tokens : key[t] # 0 => (exp[t] - 1) * TPS < key[t] /\ key[t] <= exp[t] * TPS

\* A token whose logout, exchange or use has been answered does not get past
\* the lookup of a request that arrives later, up to its last second.
SpentTokenRejected ==
    \A r \in Requests : req[r].late /\ req[r].pc \in Passed
                          => req[r].at > (exp[req[r].tok] - 1) * TPS
=============================================================================
