---------------------------- MODULE AuthSessions ----------------------------
(***************************************************************************)
(* The endpoints of internal/auth behind RequireSession: me, logout,       *)
(* logout-all and resend-verification, running against the transactions of *)
(* AuthTokens that open and revoke the same user's sessions.               *)
(*                                                                         *)
(* A call is several statements on the pool with no transaction around     *)
(* them: the session is looked up, touched, then the handler runs.  Its    *)
(* cookie holds a session's token, or nothing that the database knows.     *)
(***************************************************************************)
EXTENDS AuthTokens

CONSTANT Callers   \* authenticated requests; each performs one operation

VARIABLES
    expired,  \* sessions past expires_at
    caller    \* what each call is doing

sessionVars == <<vars, expired, caller>>

-----------------------------------------------------------------------------
\* A call whose session is found and touched is at its handler: "me",
\* "logout", "logout_all" or "resend".  dead is history: the session had ended
\* when the call arrived.
Handlers == {"me", "logout", "logout_all", "resend"}

Caller == [pc: Handlers \cup {"idle", "arrived", "due", "recent", "answered"},
           cookie: Requests \cup {NoRequest}, dead: BOOLEAN]

NoCall == [pc |-> "idle", cookie |-> NoRequest, dead |-> FALSE]

SessionInit ==
    /\ Init
    /\ expired = {}
    /\ caller = [c \in Callers |-> NoCall]

Usable(s) == session[s].state = "live" /\ s \notin expired

Step(c, pc) == caller' = [caller EXCEPT ![c].pc = pc]

AnswerCall(c) == caller' = [caller EXCEPT ![c] = [NoCall EXCEPT !.pc = "answered"]]

Arrive(c, s) ==
    /\ caller[c].pc = "idle"
    /\ s # NoRequest => session[s].state # "none"
    /\ caller' = [caller EXCEPT
                    ![c] = [pc |-> "arrived", cookie |-> s,
                            dead |-> s = NoRequest \/ ~Usable(s)]]
    /\ UNCHANGED <<vars, expired>>

\* Not the code: expires_at and revoked_at are not looked at.
ResolveAny(c) ==
    /\ caller[c].pc = "arrived"
    /\ IF caller[c].cookie # NoRequest
          THEN \E seen \in {"due", "recent"} : Step(c, seen)
          ELSE AnswerCall(c)
    /\ UNCHANGED <<vars, expired>>

\* RequireSession: the cookie's token is looked up; 401 without a session that
\* is neither revoked nor expired.
Resolve(c) ==
    /\ caller[c].pc = "arrived"
    /\ IF caller[c].cookie # NoRequest /\ Usable(caller[c].cookie)
          THEN \E seen \in {"due", "recent"} : Step(c, seen)
          ELSE AnswerCall(c)
    /\ UNCHANGED <<vars, expired>>

\* The row of s is locked by a reset that has revoked it and not committed.
Revoking(s) == \E q \in Requests : At(q, "reset", "commit") /\ s \in request[q].saw

\* Not the code: the session that was read is saved with its new last_seen_at,
\* every column of it.
TouchSaving(c, handler) ==
    /\ caller[c].pc = "due"
    /\ ~Revoking(caller[c].cookie)
    /\ session' = [session EXCEPT ![caller[c].cookie].state = "live"]
    /\ Step(c, handler)
    /\ UNCHANGED <<user, token, mail, request, expired>>

\* TouchSession matches no row when last_seen_at is recent; otherwise it waits
\* for the row and writes last_seen_at alone, revoked or not.
Touch(c, handler) ==
    /\ \/ caller[c].pc = "recent"
       \/ caller[c].pc = "due" /\ ~Revoking(caller[c].cookie)
    /\ Step(c, handler)
    /\ UNCHANGED <<vars, expired>>

Me(c) ==
    /\ caller[c].pc = "me"
    /\ AnswerCall(c)
    /\ UNCHANGED <<vars, expired>>

\* Revoking a session that is revoked already is not an error.
CallLogout(c) ==
    /\ caller[c].pc = "logout"
    /\ ~Revoking(caller[c].cookie)
    /\ session' = [session EXCEPT ![caller[c].cookie] =
                                     Revoked(session[caller[c].cookie])]
    /\ AnswerCall(c)
    /\ UNCHANGED <<user, token, mail, request, expired>>

CallLogoutAll(c) ==
    /\ caller[c].pc = "logout_all"
    /\ \A s \in LiveSessions : ~Revoking(s)
    /\ session' = [s \in Requests |-> Revoked(session[s])]
    /\ AnswerCall(c)
    /\ UNCHANGED <<user, token, mail, request, expired>>

\* The handler is ResendVerification, whose transaction AuthTokens goes on with.
CallResend(c, r) ==
    /\ caller[c].pc = "resend"
    /\ ResendVerification(r)
    /\ AnswerCall(c)
    /\ UNCHANGED expired

\* A statement fails or the client goes away: the statement had no effect.
FailCall(c) ==
    /\ caller[c].pc \in Handlers \cup {"arrived", "due", "recent"}
    /\ AnswerCall(c)
    /\ UNCHANGED <<vars, expired>>

Expire(s) ==
    /\ session[s].state # "none"
    /\ s \notin expired
    /\ expired' = expired \cup {s}
    /\ UNCHANGED <<vars, caller>>

CallStep(c) ==
    \/ Resolve(c)
    \/ \E handler \in Handlers : Touch(c, handler)
    \/ Me(c) \/ CallLogout(c) \/ CallLogoutAll(c)
    \/ \E r \in Requests : CallResend(c, r)

\* The requests without a session, and the passage of time.
Anonymous ==
    /\ \E r \in Requests :
          \/ GrowOld(r)
          \/ \E p \in Passwords : Signup(r, p) \/ Login(r, p)
          \/ ForgotPassword(r)
          \/ \E t \in Requests, p \in Passwords : ResetPassword(r, t, p)
          \/ \E t \in Requests : VerifyEmail(r, t)
          \/ RequestStep(r)
          \/ Abort(r)
    /\ UNCHANGED <<expired, caller>>

SessionNext ==
    \/ Anonymous
    \/ \E c \in Callers, s \in Requests \cup {NoRequest} : Arrive(c, s)
    \/ \E c \in Callers : CallStep(c) \/ FailCall(c)
    \/ \E s \in Requests : Expire(s)

\* Every request and call has a goroutine that runs until it answers.
SessionSpec ==
    /\ SessionInit /\ [][SessionNext]_sessionVars
    /\ \A r \in Requests :
          WF_sessionVars(RequestStep(r) /\ UNCHANGED <<expired, caller>>)
    /\ \A c \in Callers : WF_sessionVars(CallStep(c))

-----------------------------------------------------------------------------
\* Type invariant.
SessionTypeOK ==
    /\ TypeOK
    /\ expired \subseteq Requests
    /\ caller \in [Callers -> Caller]

\* A call that arrived after its session was revoked or had expired runs no
\* handler, whatever other calls did to the session in between.
EndedSessionsServeNothing ==
    \A c \in Callers : caller[c].dead => caller[c].pc \in {"arrived", "answered"}

\* A session that a logout or a password reset has revoked never comes back: a
\* call that had resolved it before, and touches it after, does not revive it.
RevocationIsFinal ==
    [][\A s \in Requests :
          session[s].state = "revoked" => session'[s].state = "revoked"]_sessionVars

\* Every request and every call is answered, also when it waits for the session
\* rows that a password reset has locked.  (A resend is a request of its own;
\* the model may have none left for it.)
EveryCallAnswers ==
    /\ EveryRequestAnswers
    /\ \A c \in Callers :
          caller[c].pc # "idle" ~> caller[c].pc \in {"answered", "resend"}

=============================================================================
