----------------------------- MODULE AuthTokens -----------------------------
(***************************************************************************)
(* The transactions of internal/auth that share one user's rows: signup,   *)
(* login with rehash, email verification and its resend, forgotten and     *)
(* reset passwords, logout.  No transaction touches the rows of two users, *)
(* so there is one user (one normalized email).                            *)
(*                                                                         *)
(* A step is one SQL statement under READ COMMITTED.  The writes of a      *)
(* transaction appear when it commits; until then the rows it wrote or     *)
(* locked (request[r].holds) block every other writer, and PostgreSQL      *)
(* breaks a cycle of waiting transactions by aborting one of them.  A      *)
(* request issues at most one token and opens at most one session, so both *)
(* are named by the request.                                               *)
(***************************************************************************)
EXTENDS Naturals, FiniteSets

CONSTANTS
    Requests,   \* API requests; each performs one operation
    Passwords,  \* passwords that clients use
    NoRequest

ASSUME AuthAssumption ==
    /\ NoRequest \notin Requests
    /\ "user" \notin Requests
    /\ Passwords # {}

VARIABLES
    user,     \* the users row
    token,    \* email_verification_tokens and password_reset_tokens
    session,  \* sessions
    mail,     \* the auth jobs enqueued in the jobs table
    request   \* what each request is doing

vars == <<user, token, session, mail, request>>

-----------------------------------------------------------------------------
Kinds == {"verification", "reset"}
Ages == {"fresh", "aged", "expired"}  \* within ResendCooldown; older; past TTL
Operations == {"none", "signup", "login", "verify", "resend", "forgot",
               "reset"}
Steps == {"new", "check", "lock", "retire", "consume", "mark", "password",
          "revoke", "rehash", "open", "commit", "done"}

\* A stored hash: its password, whether its cost parameters are outdated, and
\* the request that computed it (hashes are salted, so no two are equal).
Hash == [pw: Passwords, outdated: BOOLEAN, by: Requests]

\* hash is {} or the one stored hash; {} means that the row does not exist.
User == [hash: {{}} \cup {{h} : h \in Hash}, verified: BOOLEAN]
Token == [kind: Kinds \cup {"none"}, live: BOOLEAN, age: Ages]
Session == [state: {"none", "live", "revoked"},
            pw: Passwords, late: BOOLEAN]
Mail == Kinds \cup {"welcome"}

\* op and pc; the token and password it was given; the hash it read; whether
\* its token was unexpired at its s.now(); the sessions its revocation saw;
\* and its row locks.
Request == [op: Operations, pc: Steps, arg: Requests \cup {NoRequest},
            pw: Passwords, seen: {{}} \cup {{h} : h \in Hash},
            inTime: BOOLEAN, first: BOOLEAN, saw: SUBSET Requests,
            holds: SUBSET (Requests \cup {"user"})]

AnyPassword == CHOOSE p \in Passwords : TRUE

Init ==
    /\ user = [hash |-> {}, verified |-> FALSE]
    /\ token = [r \in Requests |->
                  [kind |-> "none", live |-> FALSE, age |-> "fresh"]]
    /\ session = [r \in Requests |->
                    [state |-> "none", pw |-> AnyPassword, late |-> FALSE]]
    /\ mail = {}
    /\ request = [r \in Requests |->
                    [op |-> "none", pc |-> "new", arg |-> NoRequest,
                     pw |-> AnyPassword, seen |-> {}, inTime |-> FALSE,
                     first |-> FALSE, saw |-> {}, holds |-> {}]]

Exists == user.hash # {}
LiveTokens(kind) == {t \in Requests : token[t].kind = kind /\ token[t].live}
LiveSessions == {s \in Requests : session[s].state = "live"}
Unlocked(r, row) == \A q \in Requests \ {r} : row \notin request[q].holds

At(r, op, pc) == request[r].op = op /\ request[r].pc = pc
NewRequest(r) == request[r].pc = "new"

Go(r, pc) == request' = [request EXCEPT ![r].pc = pc]

\* The transaction ends; its locks go.
Answer(r) == request' = [request EXCEPT ![r].pc = "done", ![r].holds = {}]

\* The statement locks the rows of this set, and the transaction goes on.
Lock(r, rows, pc) ==
    request' = [request EXCEPT ![r].pc = pc,
                               ![r].holds = request[r].holds \cup rows]

-----------------------------------------------------------------------------
\* Signup: INSERT INTO users waits for an uncommitted insert of the same
\* email, then fails if that one committed.
Signup(r, p) ==
    /\ NewRequest(r)
    /\ Unlocked(r, "user")
    /\ IF Exists
          THEN request' = [request EXCEPT ![r].op = "signup", ![r].pc = "done"]
          ELSE request' = [request EXCEPT ![r].op = "signup", ![r].pw = p,
                                          ![r].pc = "commit",
                                          ![r].holds = {"user"}]
    /\ UNCHANGED <<user, token, session, mail>>

CommitSignup(r) ==
    /\ At(r, "signup", "commit")
    /\ user' = [user EXCEPT !.hash = {[pw |-> request[r].pw,
                                       outdated |-> FALSE, by |-> r]}]
    /\ token' = [token EXCEPT ![r] = [kind |-> "verification", live |-> TRUE,
                                      age |-> "fresh"]]
    /\ session' = [session EXCEPT ![r] = [state |-> "live",
                                          pw |-> request[r].pw,
                                          late |-> FALSE]]
    /\ mail' = mail \cup {<<"verification", r>>}
    /\ Answer(r)

-----------------------------------------------------------------------------
\* Login: read the user, verify the password outside any transaction.
Login(r, p) ==
    /\ NewRequest(r)
    /\ \/ /\ \E h \in user.hash :
                /\ h.pw = p
                /\ request' = [request EXCEPT
                                 ![r].op = "login", ![r].pw = p,
                                 ![r].seen = user.hash,
                                 ![r].pc = IF h.outdated THEN "rehash"
                                                         ELSE "open"]
       \/ /\ \A h \in user.hash : h.pw # p
          /\ request' = [request EXCEPT ![r].op = "login", ![r].pc = "done"]
    /\ UNCHANGED <<user, token, session, mail>>

\* Not the code: the rehash is not conditional on the verified hash.
RehashAlways(r) ==
    /\ At(r, "login", "rehash")
    /\ Unlocked(r, "user")
    /\ user' = [user EXCEPT !.hash = {[pw |-> request[r].pw,
                                       outdated |-> FALSE, by |-> r]}]
    /\ Go(r, "open")
    /\ UNCHANGED <<token, session, mail>>

\* RehashPassword: one statement conditional on the hash that was verified.
\* It may match no row, or fail: the login goes on either way.
Rehash(r) ==
    /\ At(r, "login", "rehash")
    /\ \/ /\ Unlocked(r, "user")
          /\ user.hash = request[r].seen
          /\ user' = [user EXCEPT !.hash = {[pw |-> request[r].pw,
                                             outdated |-> FALSE, by |-> r]}]
       \/ UNCHANGED user
    /\ Go(r, "open")
    /\ UNCHANGED <<token, session, mail>>

\* A password reset has revoked the sessions it saw and not committed yet.
ResetPending == \E q \in Requests : At(q, "reset", "commit")

\* CreateSession of a login.  late is history: the password this login
\* verified was being replaced, or had been.
OpenSession(r) ==
    /\ At(r, "login", "open")
    /\ session' = [session EXCEPT ![r] =
                     [state |-> "live", pw |-> request[r].pw,
                      late |-> \/ ResetPending
                               \/ \A h \in user.hash : h.pw # request[r].pw]]
    /\ Answer(r)
    /\ UNCHANGED <<user, token, mail>>

-----------------------------------------------------------------------------
\* ForgotPassword: the user is read before the transaction begins.
ForgotPassword(r) ==
    /\ NewRequest(r)
    /\ request' = [request EXCEPT ![r].op = "forgot",
                                  ![r].pc = IF Exists THEN "lock" ELSE "done"]
    /\ UNCHANGED <<user, token, session, mail>>

ResendVerification(r) ==
    /\ NewRequest(r)
    /\ Exists
    /\ request' = [request EXCEPT ![r].op = "resend", ![r].pc = "check"]
    /\ UNCHANGED <<user, token, session, mail>>

\* Verified already, or the newest verification token is within the cooldown.
MayResend ==
    /\ ~user.verified
    /\ \A t \in Requests : token[t].kind = "verification"
                              => token[t].age # "fresh"

\* Not the code: the user is read without FOR NO KEY UPDATE.
CheckResendUnlocked(r) ==
    /\ At(r, "resend", "check")
    /\ IF MayResend THEN Go(r, "lock") ELSE Answer(r)
    /\ UNCHANGED <<user, token, session, mail>>

\* GetUserForUpdate and the checks that follow it under the row lock.
CheckResend(r) ==
    /\ At(r, "resend", "check")
    /\ Unlocked(r, "user")
    /\ IF MayResend THEN Lock(r, {"user"}, "lock") ELSE Answer(r)
    /\ UNCHANGED <<user, token, session, mail>>

\* Not the code: issuance is not serialised per user.
LockUserNever(r) ==
    /\ request[r].pc = "lock"
    /\ Go(r, "retire")
    /\ UNCHANGED <<user, token, session, mail>>

\* createToken, lockUserSQL.
LockUser(r) ==
    /\ request[r].pc = "lock"
    /\ Unlocked(r, "user")
    /\ Lock(r, {"user"}, "retire")
    /\ UNCHANGED <<user, token, session, mail>>

\* Not the code: the table is chosen by the name of the operation.
KindAsOperation(op) == op

KindOf(op) == IF op = "forgot" THEN "reset" ELSE "verification"

\* createToken: UPDATE ... SET consumed_at WHERE consumed_at IS NULL.
Retire(r) ==
    /\ request[r].pc = "retire"
    /\ LET old == LiveTokens(KindOf(request[r].op)) IN
          /\ \A t \in old : Unlocked(r, t)
          /\ Lock(r, old, "commit")
    /\ UNCHANGED <<user, token, session, mail>>

\* The retired tokens, the new one and the job that mails it, together.
CommitIssue(r) ==
    /\ request[r].op \in {"resend", "forgot"}
    /\ request[r].pc = "commit"
    /\ LET kind == KindOf(request[r].op) IN
          /\ token' = [t \in Requests |->
                         IF t = r
                            THEN [kind |-> kind, live |-> TRUE, age |-> "fresh"]
                            ELSE [token[t] EXCEPT !.live =
                                    token[t].live /\ t \notin request[r].holds]]
          /\ mail' = mail \cup {<<kind, r>>}
    /\ Answer(r)
    /\ UNCHANGED <<user, session>>

-----------------------------------------------------------------------------
\* VerifyEmail and ResetPassword start with a mailed token and take s.now().
UseToken(r, t, op, kind) ==
    /\ NewRequest(r)
    /\ token[t].kind = kind
    /\ request' = [request EXCEPT ![r].op = op, ![r].arg = t,
                                  ![r].inTime = (token[t].age # "expired"),
                                  ![r].pc = "consume"]
    /\ UNCHANGED <<user, token, session, mail>>

VerifyEmail(r, t) == UseToken(r, t, "verify", "verification")

ResetPassword(r, t, p) ==
    /\ NewRequest(r)
    /\ token[t].kind = "reset"
    /\ request' = [request EXCEPT ![r].op = "reset", ![r].arg = t, ![r].pw = p,
                                  ![r].inTime = (token[t].age # "expired"),
                                  ![r].pc = "consume"]
    /\ UNCHANGED <<user, token, session, mail>>

\* Not the code: the token is looked up without consumed_at IS NULL.
ConsumeAgain(r) ==
    /\ request[r].pc = "consume"
    /\ LET t == request[r].arg IN
          /\ Unlocked(r, t)
          /\ IF request[r].inTime
                THEN Lock(r, {t}, IF request[r].op = "verify" THEN "mark"
                                                              ELSE "password")
                ELSE Answer(r)
    /\ UNCHANGED <<user, token, session, mail>>

\* consumeToken: waits for the row, then tests consumed_at and expires_at.
Consume(r) ==
    /\ request[r].pc = "consume"
    /\ LET t == request[r].arg IN
          /\ Unlocked(r, t)
          /\ IF token[t].live /\ request[r].inTime
                THEN Lock(r, {t}, IF request[r].op = "verify" THEN "mark"
                                                              ELSE "password")
                ELSE Answer(r)
    /\ UNCHANGED <<user, token, session, mail>>

\* MarkEmailVerified: 0 rows when verified already, which ends the closure.
MarkEmailVerified(r) ==
    /\ At(r, "verify", "mark")
    /\ \/ /\ user.verified
          /\ Go(r, "commit")
       \/ /\ ~user.verified
          /\ Unlocked(r, "user")
          /\ request' = [request EXCEPT
                           ![r].first = TRUE, ![r].pc = "commit",
                           ![r].holds = request[r].holds \cup {"user"}]
    /\ UNCHANGED <<user, token, session, mail>>

CommitVerify(r) ==
    /\ At(r, "verify", "commit")
    /\ token' = [token EXCEPT ![request[r].arg].live = FALSE]
    /\ user' = [user EXCEPT !.verified = TRUE]
    /\ mail' = IF request[r].first THEN mail \cup {<<"welcome", r>>} ELSE mail
    /\ Answer(r)
    /\ UNCHANGED session

UpdatePasswordHash(r) ==
    /\ At(r, "reset", "password")
    /\ Unlocked(r, "user")
    /\ Lock(r, {"user"}, "revoke")
    /\ UNCHANGED <<user, token, session, mail>>

\* Not the code: the statement matches no session.
RevokeNothing(r) ==
    /\ At(r, "reset", "revoke")
    /\ Go(r, "commit")
    /\ UNCHANGED <<user, token, session, mail>>

\* RevokeUserSessions: the sessions its statement sees.
RevokeUserSessions(r) ==
    /\ At(r, "reset", "revoke")
    /\ request' = [request EXCEPT ![r].pc = "commit", ![r].saw = LiveSessions]
    /\ UNCHANGED <<user, token, session, mail>>

Revoked(s) == IF s.state = "live" THEN [s EXCEPT !.state = "revoked"] ELSE s

CommitReset(r) ==
    /\ At(r, "reset", "commit")
    /\ token' = [token EXCEPT ![request[r].arg].live = FALSE]
    /\ user' = [user EXCEPT !.hash = {[pw |-> request[r].pw,
                                       outdated |-> FALSE, by |-> r]}]
    /\ session' = [s \in Requests |-> IF s \in request[r].saw
                                         THEN Revoked(session[s])
                                         ELSE session[s]]
    /\ Answer(r)
    /\ UNCHANGED mail

-----------------------------------------------------------------------------
\* Logout revokes one session, LogoutAll all of them.
Logout(s) ==
    /\ session[s].state = "live"
    /\ session' = [session EXCEPT ![s] = Revoked(session[s])]
    /\ UNCHANGED <<user, token, mail, request>>

LogoutAll ==
    /\ LiveSessions # {}
    /\ session' = [s \in Requests |-> Revoked(session[s])]
    /\ UNCHANGED <<user, token, mail, request>>

Started(r) == request[r].pc \notin {"new", "done"}

\* Not the code: the mail jobs are enqueued on the pool, not in the
\* transaction, so they outlive a rollback.
AbortKeepingMail(r) ==
    /\ Started(r)
    /\ Answer(r)
    /\ mail' = IF request[r].pc = "commit"
                  THEN mail \cup {<<KindOf(request[r].op), r>>} ELSE mail
    /\ UNCHANGED <<user, token, session>>

\* Not the code: InTx forgets to roll back when its function fails.
AbortWithoutRollback(r) ==
    /\ Started(r)
    /\ Go(r, "done")
    /\ UNCHANGED <<user, token, session, mail>>

\* InTx rolls back on an error, a cancelled context or a panic; a crash of
\* the process makes PostgreSQL do the same.
Abort(r) ==
    /\ Started(r)
    /\ Answer(r)
    /\ UNCHANGED <<user, token, session, mail>>

\* The rows that the next statement of a transaction has to lock.
Wanted(r) ==
    CASE request[r].pc \in {"check", "lock", "password"} -> {"user"}
      [] request[r].pc = "mark" /\ ~user.verified -> {"user"}
      [] request[r].pc = "consume" -> {request[r].arg}
      [] request[r].pc = "retire" -> LiveTokens(KindOf(request[r].op))
      [] OTHER -> {}

WaitsFor(r, q) == q # r /\ Wanted(r) \cap request[q].holds # {}

\* PostgreSQL's deadlock detector aborts one transaction of the cycle.
\* Every cycle runs over the one users row, so it has two transactions.
BreakDeadlock(r) ==
    /\ \E q \in Requests : WaitsFor(r, q) /\ WaitsFor(q, r)
    /\ Abort(r)

\* Time passes: a token leaves its cooldown, then expires.
GrowOld(t) ==
    /\ token[t].kind # "none"
    /\ token[t].age # "expired"
    /\ token' = [token EXCEPT ![t].age =
                   IF token[t].age = "fresh" THEN "aged" ELSE "expired"]
    /\ UNCHANGED <<user, session, mail, request>>

\* A release raises the cost parameters: stored hashes become outdated.
RaiseCost ==
    /\ \E h \in user.hash : ~h.outdated
    /\ user' = [user EXCEPT !.hash = {[h EXCEPT !.outdated = TRUE] :
                                        h \in user.hash}]
    /\ UNCHANGED <<token, session, mail, request>>

RequestStep(r) ==
    \/ CommitSignup(r)
    \/ Rehash(r) \/ OpenSession(r)
    \/ CheckResend(r) \/ LockUser(r) \/ Retire(r) \/ CommitIssue(r)
    \/ Consume(r) \/ MarkEmailVerified(r) \/ CommitVerify(r)
    \/ UpdatePasswordHash(r) \/ RevokeUserSessions(r) \/ CommitReset(r)
    \/ BreakDeadlock(r)

Start(r) ==
    \/ \E p \in Passwords : Signup(r, p) \/ Login(r, p)
    \/ ForgotPassword(r)
    \/ ResendVerification(r)
    \/ \E t \in Requests : VerifyEmail(r, t)
    \/ \E t \in Requests, p \in Passwords : ResetPassword(r, t, p)

Next ==
    \/ \E r \in Requests : Start(r) \/ RequestStep(r) \/ Abort(r)
    \/ \E t \in Requests : GrowOld(t) \/ Logout(t)
    \/ LogoutAll
    \/ RaiseCost

Spec == Init /\ [][Next]_vars

\* Every request has a goroutine that runs until it answers, and PostgreSQL
\* runs its deadlock detector.  Nothing else is fair.
FairSpec == Spec /\ \A r \in Requests : WF_vars(RequestStep(r))

-----------------------------------------------------------------------------
\* Type invariant.
TypeOK ==
    /\ user \in User
    /\ token \in [Requests -> Token]
    /\ session \in [Requests -> Session]
    /\ mail \subseteq Mail \X Requests
    /\ request \in [Requests -> Request]

\* At most one unconsumed token of each kind exists, whatever requests for new
\* ones interleave (the comment of lockUserSQL).
OneLiveToken == \A kind \in Kinds : Cardinality(LiveTokens(kind)) <= 1

\* A verified address has no usable verification link: a resend that raced the
\* verification issued nothing after it.
VerifiedEndsVerification == user.verified => LiveTokens("verification") = {}

\* A token exists exactly when the job that mails it does, and the welcome
\* mail is enqueued once, exactly when the address is verified.
MailMatchesRows ==
    /\ \A kind \in Kinds, r \in Requests :
          <<kind, r>> \in mail <=> token[r].kind = kind
    /\ Cardinality({r \in Requests : <<"welcome", r>> \in mail})
          = IF user.verified THEN 1 ELSE 0

\* A live session was opened with the current password, unless its login was
\* overtaken by the reset: it had read the old hash and inserted its session
\* after the reset's revocation ran (Login holds no lock in between).
OnlyOvertakenLoginsSurviveReset ==
    \A s \in LiveSessions, h \in user.hash :
       session[s].pw = h.pw \/ session[s].late

\* A request that changes the user through a token found it unconsumed, so a
\* token takes effect once even if it is submitted twice or retired meanwhile.
TokensTakeEffectOnce ==
    [][\A r \in Requests :
          /\ request[r].op \in {"verify", "reset"}
          /\ request[r].pc = "commit"
          /\ <<user, token, mail>>' # <<user, token, mail>>
          /\ request'[r].pc = "done"
          => token[request[r].arg].live]_vars

\* The password changes only when a reset commits: a login that upgrades the
\* hash it verified never brings an old password back.
OnlyResetChangesPassword ==
    [][\A old \in user.hash, new \in user'.hash :
          new.pw # old.pw => \E r \in Requests :
                                /\ At(r, "reset", "commit")
                                /\ request'[r].pc = "done"]_vars

\* No verification token is issued within the cooldown of another one, also
\* when resends run concurrently.
CooldownHolds ==
    [][\A r \in Requests :
          token[r].kind = "none" /\ token'[r].kind = "verification"
             => \A t \in Requests : token[t].kind = "verification"
                                       => token[t].age # "fresh"]_vars

\* Every request answers: no transaction waits forever for the locks of
\* another, aborted or deadlocked ones included.
EveryRequestAnswers ==
    \A r \in Requests : (request[r].pc # "new") ~> (request[r].pc = "done")

=============================================================================
