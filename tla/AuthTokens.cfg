SPECIFICATION Spec
CONSTANTS
    Requests = {r1, r2, r3, r4}
    Passwords = {p1, p2}
    NoRequest = NoRequest
SYMMETRY RequestSymmetry
CHECK_DEADLOCK FALSE
INVARIANTS
    OneLiveToken
    VerifiedEndsVerification
    MailMatchesRows
    OnlyOvertakenLoginsSurviveReset
PROPERTIES
    TokensTakeEffectOnce
    OnlyResetChangesPassword
    CooldownHolds
