SPECIFICATION SessionSpec
CONSTANTS
    Requests = {r1, r2, r3}
    Passwords = {p1}
    NoRequest = NoRequest
    Callers = {c1}
CHECK_DEADLOCK FALSE
INVARIANTS
    SessionTypeOK
    EndedSessionsServeNothing
PROPERTIES
    RevocationIsFinal
    EveryCallAnswers
