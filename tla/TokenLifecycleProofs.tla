------------------------ MODULE TokenLifecycleProofs ------------------------
(***************************************************************************)
(* For any tokens, lifetimes, requests, ticks a second and failures: the   *)
(* type invariant of TokenLifecycle, that a revocation key ends in the     *)
(* last second of its token, and that a spent token is refused.            *)
(***************************************************************************)
EXTENDS TokenLifecycle, TLAPS

\* A token out of use for good: its revocation has been entered, or it is in
\* its last second, when _revoke_payload enters nothing.
Dead(t) == key[t] # 0 \/ clock > (exp[t] - 1) * TPS

\* What a request knows of the tokens it presents.
TokenPart(r) ==
    IF req[r].pc = "idle" THEN ~req[r].late
    ELSE /\ req[r].tok \in Tokens /\ exp[req[r].tok] # 0
         /\ req[r].also # NoToken => req[r].also \in Tokens /\ exp[req[r].also] # 0

\* Which endpoint brings a request to a place, and the tokens that are out of
\* use by then.
PlacePart(r) ==
    /\ req[r].pc = "revoked" => req[r].ep = "refresh"
    /\ req[r].pc = "committed" => req[r].ep \in {"reset", "verify"}
    /\ \/ req[r].late
       \/ req[r].pc \in {"revoked", "half"}
       \/ req[r].pc = "served" /\ req[r].ep # "me"
       => Dead(req[r].tok)
    /\ req[r].pc = "served" /\ req[r].ep = "logout" /\ req[r].also # NoToken
       => Dead(req[r].also)

\* A request that came late and got past the lookup did so in the last second.
LatePart(r) ==
    req[r].late /\ req[r].pc \in Passed => req[r].at > (exp[req[r].tok] - 1) * TPS

RequestInv(r) == TokenPart(r) /\ PlacePart(r) /\ LatePart(r)

\* The inductive invariant.
TokInv == TypeOK /\ KeyEndsWithToken /\ \A r \in Requests : RequestInv(r)

------------------------------------------------------------------------------
(* Rounding *)

\* seconds_until_expiry is floored: the seconds left end in the last second of
\* the token's life, and there are none only in that second or after it.
LEMMA Floored ==
    ASSUME TypeOK, NEW t \in Tokens
    PROVE  /\ SecondsLeft(t) \in Nat
           /\ clock \in Nat /\ exp[t] * TPS \in Nat
           /\ (exp[t] - 1) * TPS = exp[t] * TPS - TPS
           /\ SecondsLeft(t) > 0 => /\ SecondsLeft(t) * TPS \in Nat \ {0}
                                    /\ clock + SecondsLeft(t) * TPS <= exp[t] * TPS
                                    /\ clock + SecondsLeft(t) * TPS > exp[t] * TPS - TPS
           /\ SecondsLeft(t) = 0 => clock > exp[t] * TPS - TPS
<1> DEFINE life == exp[t] * TPS
<1>1. /\ clock \in Nat /\ exp[t] \in Nat /\ TPS \in Nat \ {0}
  BY ConstantsAssumption DEF TypeOK
<1>2. life \in Nat /\ (exp[t] - 1) * TPS = life - TPS
  BY <1>1
<1>3. CASE ~(clock < life)
  <2>1. SecondsLeft(t) = 0
    BY <1>3 DEF SecondsLeft
  <2> HIDE DEF life
  <2>2. clock > life - TPS
    BY <1>1, <1>2, <1>3
  <2>3. QED
    BY <1>1, <1>2, <2>1, <2>2 DEF life
<1>4. CASE clock < life
  <2>1. SecondsLeft(t) = (life - clock) \div TPS
    BY <1>4 DEF SecondsLeft
  <2> HIDE DEF life
  <2>2. PICK left \in Nat : left = life - clock
    BY <1>1, <1>2, <1>4
  <2>3. PICK secs : secs = left \div TPS
    OBVIOUS
  <2>4. secs \in Nat /\ secs * TPS <= left /\ left < secs * TPS + TPS
    BY <1>1, <2>3
  <2>5. PICK span \in Nat : span = secs * TPS
    BY <1>1, <2>4
  <2>6. secs > 0 => span > 0
    BY <1>1, <2>4, <2>5
  <2>7. secs = 0 => span = 0
    BY <1>1, <2>5
  <2>8. SecondsLeft(t) = secs
    BY <2>1, <2>2, <2>3
  <2>9. /\ span <= left /\ left < span + TPS
    BY <2>4, <2>5
  <2>10. /\ clock + span <= life /\ clock + span > life - TPS
         /\ span = 0 => clock > life - TPS
    BY <1>1, <1>2, <2>2, <2>9
  <2>11. QED
    BY <1>1, <1>2, <2>4, <2>5, <2>6, <2>7, <2>8, <2>10 DEF life
<1>5. QED
  BY <1>3, <1>4

------------------------------------------------------------------------------
(* What steps do to the tokens *)

\* Tokens stay as they are minted, and out of use once they are.
Kept(t) == exp[t] # 0 => exp'[t] = exp[t] /\ (Dead(t) => Dead(t)')

\* _create_token touches tokens that did not exist, and no key.
LEMMA Minting ==
    ASSUME TypeOK, KeyEndsWithToken, NEW T \in SUBSET Tokens, \A t \in T : exp[t] = 0,
           exp' = Minted(T), UNCHANGED <<clock, key>>
    PROVE  /\ exp' \in [Tokens -> Nat]
           /\ KeyEndsWithToken'
           /\ \A t \in Tokens : Kept(t)
<1>1. clock \in Nat /\ TPS \in Nat \ {0} /\ exp \in [Tokens -> Nat] /\ key \in [Tokens -> Nat]
  BY ConstantsAssumption DEF TypeOK
<1>2. clock \div TPS \in Nat
  BY <1>1
<1>3. \A t \in Tokens : Life[Kind[t]] \in Nat
  BY ConstantsAssumption
<1>4. exp' \in [Tokens -> Nat]
  <2> DEFINE now == clock \div TPS
  <2>1. exp' = [t \in Tokens |-> IF t \in T THEN now + Life[Kind[t]] ELSE exp[t]]
    BY DEF Minted
  <2> HIDE DEF now
  <2>2. now \in Nat
    BY <1>2 DEF now
  <2>3. QED
    BY <1>1, <1>3, <2>1, <2>2
<1>5. \A t \in Tokens : exp[t] # 0 => exp'[t] = exp[t]
  BY DEF Minted
<1>6. KeyEndsWithToken'
  <2> SUFFICES ASSUME NEW t \in Tokens, key[t] # 0
               PROVE  (exp'[t] - 1) * TPS < key[t] /\ key[t] <= exp'[t] * TPS
    BY DEF KeyEndsWithToken
  <2>1. (exp[t] - 1) * TPS < key[t] /\ key[t] <= exp[t] * TPS
    BY DEF KeyEndsWithToken
  <2>2. exp[t] # 0
    BY <1>1, <2>1
  <2>3. QED
    BY <1>5, <2>1, <2>2
<1>7. \A t \in Tokens : Kept(t)
  BY <1>5 DEF Kept, Dead
<1>8. QED
  BY <1>4, <1>6, <1>7

\* _revoke_payload puts the token out of use, and no other token back into it.
LEMMA Revoking ==
    ASSUME TypeOK, KeyEndsWithToken, NEW t \in Tokens, key' = Revoked(t),
           UNCHANGED <<clock, exp>>
    PROVE  /\ key' \in [Tokens -> Nat]
           /\ KeyEndsWithToken'
           /\ Dead(t)'
           /\ \A u \in Tokens : Kept(u)
<1>1. /\ clock \in Nat /\ exp[t] * TPS \in Nat /\ TPS \in Nat \ {0}
      /\ key \in [Tokens -> Nat]
  BY Floored, ConstantsAssumption DEF TypeOK
<1>2. (exp[t] - 1) * TPS = exp[t] * TPS - TPS
  BY Floored
<1>3. CASE SecondsLeft(t) > 0
  <2>1. PICK stop \in Nat \ {0} :
            /\ stop = clock + SecondsLeft(t) * TPS
            /\ stop <= exp[t] * TPS /\ stop > (exp[t] - 1) * TPS
    BY <1>1, <1>2, <1>3, Floored
  <2>2. key' = [key EXCEPT ![t] = stop]
    BY <1>3, <2>1 DEF Revoked
  <2>3. key' \in [Tokens -> Nat] /\ key'[t] # 0 /\ \A u \in Tokens : key[u] # 0 => key'[u] # 0
    BY <1>1, <2>1, <2>2
  <2>4. KeyEndsWithToken'
    BY <1>1, <2>1, <2>2 DEF KeyEndsWithToken
  <2>5. QED
    BY <2>3, <2>4 DEF Dead, Kept
<1>4. CASE ~(SecondsLeft(t) > 0)
  <2>1. key' = key
    BY <1>4 DEF Revoked
  <2>2. SecondsLeft(t) = 0
    BY <1>4, Floored
  <2>3. clock > (exp[t] - 1) * TPS
    BY <1>2, <2>2, Floored
  <2>4. QED
    BY <1>1, <2>1, <2>3 DEF Dead, Kept, KeyEndsWithToken
<1>5. QED
  BY <1>3, <1>4

\* Time passes: what is in its last second stays there.
LEMMA Ticking == TypeOK /\ Tick => \A t \in Tokens : Kept(t)
<1> SUFFICES ASSUME TypeOK, Tick, NEW t \in Tokens PROVE Kept(t)
  OBVIOUS
<1>1. clock \in Nat /\ clock' = clock + 1 /\ exp' = exp /\ key' = key
  BY DEF Tick, TypeOK
<1>2. (exp[t] - 1) * TPS \in Int
  BY ConstantsAssumption DEF TypeOK
<1> DEFINE last == (exp[t] - 1) * TPS
<1>3. Dead(t) <=> key[t] # 0 \/ clock > last
  BY DEF Dead
<1>4. Dead(t)' <=> key[t] # 0 \/ clock' > last
  BY <1>1 DEF Dead
<1> HIDE DEF last
<1>5. clock > last => clock' > last
  BY <1>1, <1>2 DEF last
<1>6. QED
  BY <1>1, <1>3, <1>4, <1>5 DEF Kept

\* A request that does not move keeps what it knows.
LEMMA Bystander ==
    ASSUME NEW r \in Requests, RequestInv(r), req'[r] = req[r],
           \A t \in Tokens : Kept(t)
    PROVE  RequestInv(r)'
<1>1. CASE req[r].pc = "idle"
  BY <1>1 DEF RequestInv, TokenPart, PlacePart, LatePart, Passed
<1>2. CASE req[r].pc # "idle"
  <2>1. req[r].tok \in Tokens /\ exp[req[r].tok] # 0 /\ Kept(req[r].tok)
    BY <1>2 DEF RequestInv, TokenPart
  <2>2. req[r].also # NoToken => req[r].also \in Tokens /\ exp[req[r].also] # 0 /\ Kept(req[r].also)
    BY <1>2 DEF RequestInv, TokenPart
  <2>3. exp'[req[r].tok] = exp[req[r].tok] /\ (Dead(req[r].tok) => Dead(req[r].tok)')
    BY <2>1 DEF Kept
  <2>4. req[r].also # NoToken =>
            exp'[req[r].also] = exp[req[r].also] /\ (Dead(req[r].also) => Dead(req[r].also)')
    BY <2>2 DEF Kept
  <2>5. TokenPart(r)'
    BY <1>2, <2>1, <2>2, <2>3, <2>4 DEF TokenPart
  <2>6. PlacePart(r)'
    BY <2>3, <2>4 DEF RequestInv, PlacePart
  <2>7. LatePart(r)'
    BY <2>3 DEF RequestInv, LatePart
  <2>8. QED
    BY <2>5, <2>6, <2>7 DEF RequestInv
<1>3. QED
  BY <1>1, <1>2

------------------------------------------------------------------------------
(* The steps of a request *)

\* One request moves: what the invariant asks of it and of the stores.
LEMMA OneMoves ==
    ASSUME TokInv, NEW r \in Requests, NEW to, req' = [req EXCEPT ![r] = to],
           TypeOK', KeyEndsWithToken', RequestInv(r)', \A t \in Tokens : Kept(t)
    PROVE  TokInv'
<1>1. \A s \in Requests \ {r} : req'[s] = req[s]
  OBVIOUS
<1>2. \A s \in Requests \ {r} : RequestInv(s)'
  BY <1>1, Bystander DEF TokInv
<1>3. QED
  BY <1>2 DEF TokInv

\* Nobody moves, and the stores change as they may.
LEMMA NobodyMoves ==
    ASSUME TokInv, UNCHANGED req, TypeOK', KeyEndsWithToken', \A t \in Tokens : Kept(t)
    PROVE  TokInv'
<1>1. \A s \in Requests : RequestInv(s)'
  BY Bystander DEF TokInv
<1>2. QED
  BY <1>1 DEF TokInv

\* A token nobody touched is kept.
LEMMA Untouched == UNCHANGED <<clock, exp, key>> => \A t \in Tokens : Kept(t)
BY DEF Kept, Dead

LEMMA StartsGood == Init => TokInv
<1> SUFFICES ASSUME Init PROVE TokInv
  OBVIOUS
<1>1. TypeOK
  BY ConstantsAssumption DEF Init, TypeOK, Endpoints
<1>2. KeyEndsWithToken
  BY DEF Init, KeyEndsWithToken
<1>3. \A r \in Requests : RequestInv(r)
  BY DEF Init, RequestInv, TokenPart, PlacePart, LatePart, Passed
<1>4. QED
  BY <1>1, <1>2, <1>3 DEF TokInv

LEMMA MintsKeep ==
    ASSUME TokInv,
           \/ \E a, t \in Tokens : Issue(a, t)
           \/ \E t \in Tokens : SendLink(t)
    PROVE  TokInv'
<1>1. PICK T \in SUBSET Tokens :
          /\ \A t \in T : exp[t] = 0
          /\ exp' = Minted(T) /\ UNCHANGED <<clock, key, req>>
  <2>1. CASE \E a, t \in Tokens : Issue(a, t)
    <3>1. PICK a \in Tokens, t \in Tokens : Issue(a, t)
      BY <2>1
    <3>2. {a, t} \in SUBSET Tokens
      OBVIOUS
    <3>3. QED
      BY <3>1, <3>2 DEF Issue
  <2>2. CASE \E t \in Tokens : SendLink(t)
    <3>1. PICK t \in Tokens : SendLink(t)
      BY <2>2
    <3>2. {t} \in SUBSET Tokens
      OBVIOUS
    <3>3. QED
      BY <3>1, <3>2 DEF SendLink
  <2>3. QED
    BY <2>1, <2>2
<1>2. /\ exp' \in [Tokens -> Nat] /\ KeyEndsWithToken' /\ \A t \in Tokens : Kept(t)
  BY <1>1, Minting DEF TokInv
<1>3. TypeOK'
  BY <1>1, <1>2 DEF TokInv, TypeOK
<1>4. QED
  BY <1>1, <1>2, <1>3, NobodyMoves

LEMMA TickKeeps ==
    ASSUME TokInv, Tick
    PROVE  TokInv'
<1>1. TypeOK'
  BY ConstantsAssumption DEF TokInv, TypeOK, Tick
<1>2. KeyEndsWithToken'
  BY DEF TokInv, KeyEndsWithToken, Tick
<1>3. \A t \in Tokens : Kept(t)
  BY Ticking DEF TokInv
<1>4. QED
  BY <1>1, <1>2, <1>3, NobodyMoves DEF Tick

\* What an earlier request has spent is out of use.
LEMMA SpentIsDead ==
    ASSUME TokInv, NEW t \in Tokens, Spent(t)
    PROVE  Dead(t)
BY ConstantsAssumption DEF TokInv, RequestInv, PlacePart, Spent

LEMMA PresentKeeps ==
    ASSUME TokInv, NEW r \in Requests, NEW e \in Endpoints, NEW t \in Tokens,
           NEW u \in Tokens \cup {NoToken}, Present(r, e, t, u)
    PROVE  TokInv'
<1> DEFINE to == [pc   |-> IF Kind[t] = Decodes(e) /\ Valid(t) THEN "decoded" ELSE "rejected",
                  ep   |-> e, tok |-> t, also |-> u, late |-> Spent(t), at |-> 0]
<1>1. req' = [req EXCEPT ![r] = to] /\ UNCHANGED <<clock, exp, key>>
  BY DEF Present
<1>2. \A s \in Tokens : Kept(s)
  BY <1>1, Untouched
<1>3. Spent(t) \in BOOLEAN
  BY DEF Spent
<1>4. TypeOK'
  <2>1. to \in [pc : {"idle", "decoded", "rejected", "broken"} \cup Passed,
                ep : Endpoints, tok : Tokens \cup {NoToken}, also : Tokens \cup {NoToken},
                late : BOOLEAN, at : 0..MaxClock]
    BY <1>3, ConstantsAssumption
  <2> HIDE DEF to
  <2>2. QED
    BY <1>1, <2>1 DEF TokInv, TypeOK
<1>5. KeyEndsWithToken'
  BY <1>1 DEF TokInv, KeyEndsWithToken
<1>6. req'[r] = to
  BY <1>1 DEF TokInv, TypeOK
<1>7. Spent(t) => Dead(t)'
  BY <1>1, SpentIsDead DEF Dead
<1>8. TokenPart(r)'
  BY <1>1, <1>6 DEF TokenPart, Present
<1>9. PlacePart(r)'
  <2>1. /\ req'[r].pc \in {"decoded", "rejected"} /\ req'[r].tok = t
        /\ req'[r].late = Spent(t)
    BY <1>6
  <2>2. req'[r].late => Dead(t)'
    BY <1>7, <2>1
  <2>3. QED
    BY <1>1, <2>1, <2>2 DEF PlacePart, Dead
<1>10. LatePart(r)'
  BY <1>6 DEF LatePart, Passed
<1>11. RequestInv(r)'
  BY <1>8, <1>9, <1>10 DEF RequestInv
<1> HIDE DEF to
<1>12. QED
  BY <1>1, <1>2, <1>4, <1>5, <1>11, OneMoves

\* The lookup lets a token out of use through in its last second only.
LEMMA CheckKeeps ==
    ASSUME TokInv, NEW r \in Requests, Check(r)
    PROVE  TokInv'
<1> DEFINE to == [req[r] EXCEPT !.pc = IF IsRevoked(req[r].tok) THEN "rejected" ELSE "cleared",
                                !.at = clock]
<1>1. req' = [req EXCEPT ![r] = to] /\ UNCHANGED <<clock, exp, key>>
  BY DEF Check
<1>2. \A s \in Tokens : Kept(s)
  BY <1>1, Untouched
<1>3. req[r] \in [pc : {"idle", "decoded", "rejected", "broken"} \cup Passed,
                  ep : Endpoints, tok : Tokens \cup {NoToken}, also : Tokens \cup {NoToken},
                  late : BOOLEAN, at : 0..MaxClock]
  BY DEF TokInv, TypeOK
<1>4. TypeOK'
  <2>1. clock \in 0..MaxClock
    BY DEF TokInv, TypeOK
  <2>2. to \in [pc : {"idle", "decoded", "rejected", "broken"} \cup Passed,
                ep : Endpoints, tok : Tokens \cup {NoToken}, also : Tokens \cup {NoToken},
                late : BOOLEAN, at : 0..MaxClock]
    BY <1>3, <2>1 DEF Passed
  <2> HIDE DEF to
  <2>3. QED
    BY <1>1, <2>2 DEF TokInv, TypeOK
<1>5. KeyEndsWithToken'
  BY <1>1 DEF TokInv, KeyEndsWithToken
<1>6. req'[r] = to
  BY <1>1 DEF TokInv, TypeOK
<1>7. /\ req'[r].tok = req[r].tok /\ req'[r].also = req[r].also /\ req'[r].ep = req[r].ep
      /\ req'[r].late = req[r].late /\ req'[r].at = clock
      /\ req'[r].pc = IF IsRevoked(req[r].tok) THEN "rejected" ELSE "cleared"
  BY <1>3, <1>6
<1>8. /\ req[r].pc = "decoded" /\ req[r].tok \in Tokens /\ exp[req[r].tok] # 0
      /\ TokenPart(r) /\ PlacePart(r)
  BY DEF Check, TokInv, RequestInv, TokenPart
<1>9. TokenPart(r)'
  BY <1>1, <1>7, <1>8 DEF TokenPart
<1>10. PlacePart(r)'
  <2>1. req[r].late => Dead(req[r].tok)
    BY <1>8 DEF PlacePart
  <2>2. QED
    BY <1>1, <1>7, <2>1 DEF PlacePart, Dead
<1>11. LatePart(r)'
  <2> SUFFICES ASSUME req'[r].late, req'[r].pc \in Passed
               PROVE  req'[r].at > (exp'[req'[r].tok] - 1) * TPS
    BY DEF LatePart
  <2>1. PICK t \in Tokens : t = req[r].tok
    BY <1>8
  <2>2. ~IsRevoked(t)
    BY <1>7, <2>1 DEF Passed
  <2>3. Dead(t)
    BY <1>7, <1>8, <2>1 DEF PlacePart
  <2>4. PICK last \in Int : last = (exp[t] - 1) * TPS
    BY ConstantsAssumption DEF TokInv, TypeOK
  <2>5. key[t] # 0 => last < key[t]
    BY <2>4 DEF TokInv, KeyEndsWithToken
  <2>6. clock \in Int /\ key[t] \in Nat /\ clock >= key[t]
    BY <2>2 DEF IsRevoked, TokInv, TypeOK
  <2>7. clock > last
    BY <2>3, <2>4, <2>5, <2>6 DEF Dead
  <2>8. QED
    BY <1>1, <1>7, <2>1, <2>4, <2>7
<1>12. RequestInv(r)'
  BY <1>9, <1>10, <1>11 DEF RequestInv
<1> HIDE DEF to
<1>13. QED
  BY <1>1, <1>2, <1>4, <1>5, <1>12, OneMoves

\* A request goes on to another place with the tokens it holds.
LEMMA GoesOn ==
    ASSUME TokInv, NEW r \in Requests, NEW place \in Passed \cup {"broken"},
           req' = [req EXCEPT ![r].pc = place], UNCHANGED clock,
           req[r].pc # "idle", place \in Passed => req[r].pc \in Passed,
           exp' \in [Tokens -> Nat], key' \in [Tokens -> Nat], KeyEndsWithToken',
           \A t \in Tokens : Kept(t),
           /\ place = "revoked" => req[r].ep = "refresh"
           /\ place = "committed" => req[r].ep \in {"reset", "verify"}
           /\ place \in {"revoked", "half"} \/ (place = "served" /\ req[r].ep # "me")
                 => Dead(req[r].tok)'
           /\ place = "served" /\ req[r].ep = "logout" /\ req[r].also # NoToken
                 => Dead(req[r].also)'
    PROVE  TokInv'
<1> DEFINE to == [req[r] EXCEPT !.pc = place]
           Records == [pc : {"idle", "decoded", "rejected", "broken"} \cup Passed,
                       ep : Endpoints, tok : Tokens \cup {NoToken},
                       also : Tokens \cup {NoToken}, late : BOOLEAN, at : 0..MaxClock]
<1>1. req' = [req EXCEPT ![r] = to]
  OBVIOUS
<1>2. req[r] \in Records /\ req \in [Requests -> Records]
  BY DEF TokInv, TypeOK
<1>3. to \in Records
  BY <1>2
<1>4. TypeOK'
  <2> HIDE DEF to
  <2>1. req' \in [Requests -> Records]
    BY <1>1, <1>2, <1>3
  <2>2. clock' \in 0..MaxClock
    BY DEF TokInv, TypeOK
  <2>3. QED
    BY <2>1, <2>2 DEF TypeOK
<1>5. /\ req'[r].pc = place /\ req'[r].tok = req[r].tok /\ req'[r].also = req[r].also
      /\ req'[r].ep = req[r].ep /\ req'[r].late = req[r].late /\ req'[r].at = req[r].at
  BY <1>2
<1> HIDE DEF to
<1>6. /\ req[r].tok \in Tokens /\ exp[req[r].tok] # 0
      /\ req[r].also # NoToken => req[r].also \in Tokens /\ exp[req[r].also] # 0
  BY DEF TokInv, RequestInv, TokenPart
<1>7. PICK t \in Tokens : t = req[r].tok
  BY <1>6
<1>8. exp'[t] = exp[t] /\ exp[t] # 0 /\ (Dead(t) => Dead(t)')
  BY <1>6, <1>7 DEF Kept
<1>9. req[r].also # NoToken => exp'[req[r].also] = exp[req[r].also]
  BY <1>6 DEF Kept
<1>10. TokenPart(r)'
  <2>1. req'[r].pc # "idle"
    BY <1>5 DEF Passed
  <2>2. req'[r].tok \in Tokens /\ exp'[req'[r].tok] # 0
    BY <1>5, <1>6, <1>7, <1>8
  <2>3. req'[r].also # NoToken => req'[r].also \in Tokens /\ exp'[req'[r].also] # 0
    BY <1>5, <1>6, <1>9
  <2>4. QED
    BY <2>1, <2>2, <2>3 DEF TokenPart
<1>11. PlacePart(r)'
  <2>1. req[r].late => Dead(t)
    BY <1>7 DEF TokInv, RequestInv, PlacePart
  <2>2. place \in {"revoked", "half"} \/ (place = "served" /\ req[r].ep # "me") => Dead(t)'
    BY <1>5, <1>7 DEF Dead
  <2>3. req'[r].late => Dead(t)'
    BY <1>5, <1>8, <2>1
  <2>4. Dead(t)' <=> key'[t] # 0 \/ clock' > (exp'[t] - 1) * TPS
    BY DEF Dead
  <2>5. \/ req'[r].late
        \/ req'[r].pc \in {"revoked", "half"}
        \/ req'[r].pc = "served" /\ req'[r].ep # "me"
        => Dead(req[r].tok)'
    BY <1>5, <1>7, <2>2, <2>3 DEF Dead
  <2>6. QED
    BY <1>5, <2>5 DEF PlacePart
<1>12. LatePart(r)'
  <2>1. req[r].late /\ place \in Passed => req[r].at > (exp[t] - 1) * TPS
    BY <1>7 DEF TokInv, RequestInv, LatePart
  <2>2. QED
    BY <1>5, <1>7, <1>8, <2>1 DEF LatePart
<1>13. RequestInv(r)'
  BY <1>10, <1>11, <1>12 DEF RequestInv
<1>14. QED
  BY <1>1, <1>4, <1>13, OneMoves

\* The steps that leave all tokens as they are.
LEMMA QuietStepsKeep ==
    ASSUME TokInv, NEW r \in Requests, ServeMe(r) \/ LinkCommit(r) \/ Break(r)
    PROVE  TokInv'
<1>1. UNCHANGED <<clock, exp, key>>
  BY DEF ServeMe, LinkCommit, Break
<1>2. \A t \in Tokens : Kept(t)
  BY <1>1, Untouched
<1>3. exp' \in [Tokens -> Nat] /\ key' \in [Tokens -> Nat] /\ KeyEndsWithToken'
  BY <1>1 DEF TokInv, TypeOK, KeyEndsWithToken
<1>4. CASE ServeMe(r)
  BY <1>1, <1>2, <1>3, <1>4, GoesOn DEF ServeMe, Passed
<1>5. CASE LinkCommit(r)
  BY <1>1, <1>2, <1>3, <1>5, GoesOn DEF LinkCommit, Passed
<1>6. CASE Break(r)
  BY <1>1, <1>2, <1>3, <1>6, GoesOn DEF Break, Passed
<1>7. QED
  BY <1>4, <1>5, <1>6

\* The steps that put the presented token out of use.
LEMMA RevokingStepsKeep ==
    ASSUME TokInv, NEW r \in Requests, RefreshRevoke(r) \/ LinkRevoke(r) \/ LogoutAccess(r)
    PROVE  TokInv'
<1>1. PICK t \in Tokens : t = req[r].tok
  BY DEF TokInv, RequestInv, TokenPart, RefreshRevoke, LinkRevoke, LogoutAccess
<1>2. key' = Revoked(t) /\ UNCHANGED <<clock, exp>>
  BY <1>1 DEF RefreshRevoke, LinkRevoke, LogoutAccess
<1>3. /\ key' \in [Tokens -> Nat] /\ KeyEndsWithToken' /\ Dead(t)'
      /\ \A u \in Tokens : Kept(u)
  BY <1>2, Revoking DEF TokInv
<1>4. exp' \in [Tokens -> Nat]
  BY <1>2 DEF TokInv, TypeOK
<1>5. PlacePart(r)
  BY DEF TokInv, RequestInv
<1>6. req'[r].tok = t
  BY <1>1 DEF TokInv, TypeOK, RefreshRevoke, LinkRevoke, LogoutAccess
<1>7. Dead(req[r].tok)'
  BY <1>3, <1>6 DEF Dead
<1>8. CASE RefreshRevoke(r)
  BY <1>2, <1>3, <1>4, <1>7, <1>8, GoesOn DEF RefreshRevoke, Passed
<1>9. CASE LinkRevoke(r)
  BY <1>2, <1>3, <1>4, <1>5, <1>7, <1>9, GoesOn DEF LinkRevoke, Passed, PlacePart
<1>10. CASE LogoutAccess(r)
  BY <1>2, <1>3, <1>4, <1>7, <1>10, GoesOn DEF LogoutAccess, Passed
<1>11. QED
  BY <1>8, <1>9, <1>10

\* The exchange ends with a new pair; the old token has been revoked before.
LEMMA RefreshMintKeeps ==
    ASSUME TokInv, NEW r \in Requests, NEW a \in Tokens, NEW n \in Tokens,
           RefreshMint(r, a, n)
    PROVE  TokInv'
<1>1. /\ \A t \in {a, n} : exp[t] = 0
      /\ exp' = Minted({a, n}) /\ UNCHANGED <<clock, key>>
  BY DEF RefreshMint
<1>2. {a, n} \in SUBSET Tokens
  OBVIOUS
<1>3. /\ exp' \in [Tokens -> Nat] /\ KeyEndsWithToken' /\ \A t \in Tokens : Kept(t)
  BY <1>1, <1>2, Minting DEF TokInv
<1>4. key' \in [Tokens -> Nat]
  BY <1>1 DEF TokInv, TypeOK
<1>5. PICK t \in Tokens : t = req[r].tok /\ exp[t] # 0
  BY DEF TokInv, RequestInv, TokenPart, RefreshMint
<1>6. req[r].ep = "refresh" /\ Dead(t)
  BY <1>5 DEF TokInv, RequestInv, PlacePart, RefreshMint
<1>7. Dead(t)'
  BY <1>3, <1>5, <1>6 DEF Kept
<1>8. req'[r].tok = t
  BY <1>5 DEF TokInv, TypeOK, RefreshMint
<1>9. Dead(req[r].tok)'
  BY <1>7, <1>8 DEF Dead
<1>10. QED
  BY <1>1, <1>3, <1>4, <1>6, <1>9, GoesOn DEF RefreshMint, Passed

\* Logout ends with the refresh token; the access token went before it.
LEMMA LogoutRefreshKeeps ==
    ASSUME TokInv, NEW r \in Requests, LogoutRefresh(r)
    PROVE  TokInv'
<1>1. UNCHANGED <<clock, exp>> /\ exp' \in [Tokens -> Nat]
  BY DEF LogoutRefresh, TokInv, TypeOK
<1>2. PICK t \in Tokens : t = req[r].tok /\ exp[t] # 0
  BY DEF TokInv, RequestInv, TokenPart, LogoutRefresh
<1>3. Dead(t)
  BY <1>2 DEF TokInv, RequestInv, PlacePart, LogoutRefresh
<1>4. req'[r].tok = t /\ req'[r].also = req[r].also
  BY <1>2 DEF TokInv, TypeOK, LogoutRefresh
<1>5. CASE req[r].also = NoToken
  <2>1. key' = key
    BY <1>5 DEF LogoutRefresh
  <2>2. /\ key' \in [Tokens -> Nat] /\ KeyEndsWithToken' /\ \A u \in Tokens : Kept(u)
    BY <1>1, <2>1, Untouched DEF TokInv, TypeOK, KeyEndsWithToken
  <2>3. Dead(req[r].tok)'
    BY <1>2, <1>3, <1>4, <2>2 DEF Kept, Dead
  <2>4. QED
    BY <1>1, <1>5, <2>2, <2>3, GoesOn DEF LogoutRefresh, Passed
<1>6. CASE req[r].also # NoToken
  <2>1. PICK u \in Tokens : u = req[r].also
    BY <1>6 DEF TokInv, RequestInv, TokenPart, LogoutRefresh
  <2>2. key' = Revoked(u)
    BY <1>6, <2>1 DEF LogoutRefresh
  <2>3. /\ key' \in [Tokens -> Nat] /\ KeyEndsWithToken' /\ Dead(u)'
        /\ \A s \in Tokens : Kept(s)
    BY <1>1, <2>2, Revoking DEF TokInv
  <2>4. Dead(req[r].tok)' /\ Dead(req[r].also)'
    BY <1>2, <1>3, <1>4, <2>1, <2>3 DEF Kept, Dead
  <2>5. QED
    BY <1>1, <2>3, <2>4, GoesOn DEF LogoutRefresh, Passed
<1>7. QED
  BY <1>5, <1>6

------------------------------------------------------------------------------
\* The inductive invariant holds in every reachable state.
THEOREM Invariance == Spec => []TokInv
<1>1. ASSUME TokInv, [Next]_vars PROVE TokInv'
  <2>1. CASE UNCHANGED vars
    <3>1. UNCHANGED <<clock, exp, key>> /\ UNCHANGED req
      BY <2>1 DEF vars
    <3>2. TypeOK' /\ KeyEndsWithToken'
      BY <1>1, <3>1 DEF TokInv, TypeOK, KeyEndsWithToken
    <3>3. QED
      BY <1>1, <3>1, <3>2, NobodyMoves, Untouched
  <2>2. CASE Next
    BY <1>1, <2>2, MintsKeep, TickKeeps, PresentKeeps, CheckKeeps, QuietStepsKeep,
       RevokingStepsKeep, RefreshMintKeeps, LogoutRefreshKeeps DEF Next
  <2>3. QED
    BY <1>1, <2>1, <2>2
<1>2. QED
  BY <1>1, StartsGood, PTL DEF Spec

\* The clock, the claims, the keys and the requests keep to their values.
THEOREM Typing == Spec => []TypeOK
<1>1. TokInv => TypeOK
  BY DEF TokInv
<1>2. QED
  BY <1>1, Invariance, PTL

\* _revoke_payload and _create_token: a revocation key ends in the last second
\* of its token's life, however the two floors fall.
THEOREM KeysEnd == Spec => []KeyEndsWithToken
<1>1. TokInv => KeyEndsWithToken
  BY DEF TokInv
<1>2. QED
  BY <1>1, Invariance, PTL

\* logout, refresh and the mailed links: a token whose use has been answered
\* does not get past the lookup again, but in its last second.
THEOREM SpentRejected == Spec => []SpentTokenRejected
<1>1. TokInv => SpentTokenRejected
  BY DEF TokInv, RequestInv, LatePart, SpentTokenRejected
<1>2. QED
  BY <1>1, Invariance, PTL
=============================================================================
