CONSTANTS
    e1 = e1
    e2 = e2
    g1 = g1
    g2 = g2
    Emails = {e1, e2}
    Subjects = {g1, g2}
    GoogleEmail <- MCGoogleEmail
    Requests = {q1, q2, q3, q4, q5}
    NoPassword = NoPassword
    NoRow = NoRow
    NoUser = NoUser
    NoSubject = NoSubject
SPECIFICATION Spec
INVARIANTS
    SignInPossible
    LinksUnique
    MatchedOnlyVerified
CHECK_DEADLOCK FALSE
SYMMETRY Symmetry
