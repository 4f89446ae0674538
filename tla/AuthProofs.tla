----------------------------- MODULE AuthProofs -----------------------------
(***************************************************************************)
(* Proofs about AuthTokens and AuthSessions, for any number of requests,   *)
(* callers and passwords: what row locks and conditional statements make   *)
(* of tokens, mails, passwords and sessions, however the transactions      *)
(* interleave, fail and abort; that the endpoints behind RequireSession do *)
(* to the user's rows only what AuthTokens allows; and that a session that *)
(* has ended stays ended.                                                  *)
(***************************************************************************)
EXTENDS AuthSessions, FiniteSetTheorems, TLAPS

-----------------------------------------------------------------------------
(* What holds of a request m by the step it has reached.                   *)

\* The steps of each operation.
InOrder(m) ==
    /\ m.op = "none"   => m.pc = "new"
    /\ m.op = "signup" => m.pc \in {"commit", "done"}
    /\ m.op = "login"  => m.pc \in {"rehash", "open", "done"}
    /\ m.op = "verify" => m.pc \in {"consume", "mark", "commit", "done"}
    /\ m.op = "resend" => m.pc \in {"check", "lock", "retire", "commit", "done"}
    /\ m.op = "forgot" => m.pc \in {"lock", "retire", "commit", "done"}
    /\ m.op = "reset"  => m.pc \in {"consume", "password", "revoke", "commit", "done"}
    /\ m.pc \in {"new", "done"} => m.holds = {}
    /\ m.pc \notin {"commit", "done"} => ~m.first

\* A signup holds the email's row, which does not exist yet; a login has
\* verified a hash.
EntryFits(m) ==
    /\ m.op = "signup" /\ m.pc = "commit" => "user" \in m.holds /\ ~Exists
    /\ m.op = "login" /\ m.pc # "done" =>
          Exists /\ \E h \in m.seen : h.pw = m.pw

\* Issuance holds the user's row, and in the end every live token of its kind.
IssueFits(m) ==
    /\ m.op \in {"resend", "forgot"} /\ m.pc # "done" => Exists
    /\ m.op = "resend" /\ m.pc \in {"lock", "retire", "commit"} =>
          "user" \in m.holds /\ MayResend
    /\ m.op = "forgot" /\ m.pc \in {"retire", "commit"} => "user" \in m.holds
    /\ m.op \in {"resend", "forgot"} /\ m.pc = "commit" =>
          LiveTokens(KindOf(m.op)) \subseteq m.holds

\* The use of a token holds it, live; what it does to the user holds that row.
UseFits(m) ==
    /\ m.op \in {"verify", "reset"} /\ m.pc # "done" =>
          /\ m.arg \in Requests
          /\ token[m.arg].kind = IF m.op = "verify" THEN "verification" ELSE "reset"
    /\ m.pc \in {"mark", "password", "revoke"} => m.arg \in m.holds /\ token[m.arg].live
    /\ m.op \in {"verify", "reset"} /\ m.pc = "commit" =>
          m.arg \in m.holds /\ token[m.arg].live
    /\ m.op = "verify" /\ m.pc = "commit" =>
          /\ m.first <=> ~user.verified
          /\ m.first => "user" \in m.holds
    /\ m.op = "reset" /\ m.pc \in {"revoke", "commit"} => "user" \in m.holds
    /\ m.op = "reset" /\ m.pc = "commit" =>
          \A s \in LiveSessions : s \in m.saw \/ session[s].late

Fits(m) == InOrder(m) /\ EntryFits(m) /\ IssueFits(m) /\ UseFits(m)

-----------------------------------------------------------------------------
(* What holds of the rows.                                                 *)

\* A row lock has one holder.
Locks ==
    \A r, q \in Requests : r # q => request[r].holds \cap request[q].holds = {}

\* What a request issues or opens, it issues or opens last; nothing of a user
\* is older than the user.
Rows ==
    /\ \A r \in Requests : token[r].kind # "none" \/ session[r].state # "none"
          => Exists /\ request[r].pc = "done"
    /\ \A t \in Requests : token[t].live => token[t].kind # "none"
    /\ user.verified => Exists

SingleTokens ==
    \A t, u \in Requests :
       token[t].live /\ token[u].live /\ token[t].kind = token[u].kind => t = u

Mails ==
    /\ \A kind \in Kinds, r \in Requests :
          <<kind, r>> \in mail <=> token[r].kind = kind
    /\ \A r \in Requests : <<"welcome", r>> \in mail => user.verified
    /\ \A r, q \in Requests :
          <<"welcome", r>> \in mail /\ <<"welcome", q>> \in mail => r = q
    /\ user.verified => \E r \in Requests : <<"welcome", r>> \in mail

AuthInv ==
    /\ TypeOK
    /\ \A r \in Requests : Fits(request[r])
    /\ Locks
    /\ Rows
    /\ SingleTokens
    /\ VerifiedEndsVerification
    /\ Mails
    /\ OnlyOvertakenLoginsSurviveReset

-----------------------------------------------------------------------------
(* Types.                                                                  *)

LEMMA HashType ==
    ASSUME TypeOK
    PROVE  /\ user.hash \in {{}} \cup {{h} : h \in Hash}
           /\ \A h \in user.hash : h \in Hash /\ user.hash = {h}
BY DEF TypeOK, User

\* A statement that locks rows, and a transaction's end.
LEMMA LockType ==
    ASSUME TypeOK, NEW r \in Requests, NEW rows \in SUBSET (Requests \cup {"user"}),
           NEW pc \in Steps, Lock(r, rows, pc)
    PROVE  /\ request' \in [Requests -> Request]
           /\ \A q \in Requests \ {r} : request'[q] = request[q]
<1>1. request[r] \in Request
    BY DEF TypeOK
<1>2. request[r].holds \cup rows \in SUBSET (Requests \cup {"user"})
    BY <1>1 DEF Request
<1>3. [request[r] EXCEPT !.pc = pc, !.holds = request[r].holds \cup rows] \in Request
    BY <1>1, <1>2 DEF Request
<1> QED
    BY <1>3 DEF TypeOK, Lock

LEMMA AnswerType ==
    ASSUME TypeOK, NEW r \in Requests, Answer(r)
    PROVE  /\ request' \in [Requests -> Request]
           /\ \A q \in Requests \ {r} : request'[q] = request[q]
<1>1. request[r] \in Request
    BY DEF TypeOK
<1>2. [request[r] EXCEPT !.pc = "done", !.holds = {}] \in Request
    BY <1>1 DEF Request, Steps
<1> QED
    BY <1>2 DEF TypeOK, Answer

LEMMA AuthInvInit == Init => AuthInv
<1> SUFFICES ASSUME Init PROVE AuthInv
    OBVIOUS
<1>1. AnyPassword \in Passwords
    BY AuthAssumption DEF AnyPassword
<1>2. TypeOK
    BY <1>1 DEF Init, TypeOK, User, Token, Session, Mail, Request, Kinds, Ages,
                Operations, Steps
<1>3. /\ \A r \in Requests : /\ token[r].kind = "none" /\ ~token[r].live
                             /\ session[r].state = "none"
                             /\ request[r].op = "none" /\ request[r].pc = "new"
                             /\ request[r].holds = {} /\ ~request[r].first
      /\ user.hash = {} /\ ~user.verified /\ mail = {}
    BY DEF Init
<1>4. \A r \in Requests : Fits(request[r])
    BY <1>3 DEF Fits, InOrder, EntryFits, IssueFits, UseFits
<1>5. Locks /\ Rows /\ SingleTokens /\ VerifiedEndsVerification
    BY <1>3 DEF Locks, Rows, SingleTokens, VerifiedEndsVerification, LiveTokens
<1>6. Mails /\ OnlyOvertakenLoginsSurviveReset
    BY <1>3 DEF Mails, Kinds, OnlyOvertakenLoginsSurviveReset, LiveSessions
<1> QED
    BY <1>2, <1>4, <1>5, <1>6 DEF AuthInv

-----------------------------------------------------------------------------
(* Statements that change no row.                                          *)

LEMMA Quiet ==
    ASSUME AuthInv, NEW r \in Requests, UNCHANGED <<user, token, session, mail>>,
           request' \in [Requests -> Request],
           \A q \in Requests \ {r} : request'[q] = request[q],
           request[r].pc # "done",
           Fits(request'[r]),
           \A q \in Requests \ {r} : request'[r].holds \cap request[q].holds = {}
    PROVE  AuthInv'
<1>1. TypeOK'
    BY DEF AuthInv, TypeOK
<1>2. /\ Exists' <=> Exists
      /\ MayResend' <=> MayResend
      /\ \A kind : LiveTokens(kind)' = LiveTokens(kind)
      /\ LiveSessions' = LiveSessions
    BY DEF Exists, MayResend, LiveTokens, LiveSessions
<1>3. \A q \in Requests : Fits(request'[q])
    BY DEF AuthInv
<1>4. \A q \in Requests : Fits(request[q])'
    BY <1>2, <1>3 DEF Fits, InOrder, EntryFits, IssueFits, UseFits
<1>5. Locks'
    BY DEF AuthInv, Locks
<1>6. Rows'
    BY <1>2 DEF AuthInv, Rows
<1>7. /\ SingleTokens' /\ VerifiedEndsVerification' /\ Mails'
      /\ OnlyOvertakenLoginsSurviveReset'
    BY <1>2 DEF AuthInv, SingleTokens, VerifiedEndsVerification, Mails,
                OnlyOvertakenLoginsSurviveReset
<1> QED
    BY <1>1, <1>4, <1>5, <1>6, <1>7 DEF AuthInv

LEMMA SignupStep ==
    ASSUME AuthInv, NEW r \in Requests, NEW p \in Passwords, Signup(r, p)
    PROVE  AuthInv'
<1>1. /\ request' \in [Requests -> Request]
      /\ \A q \in Requests \ {r} : request'[q] = request[q]
      /\ UNCHANGED <<user, token, session, mail>>
    BY DEF AuthInv, TypeOK, Request, Operations, Steps, Signup, NewRequest
<1>2. /\ request[r].pc = "new" /\ request'[r].op = "signup"
      /\ request'[r].first = request[r].first
      /\ \/ request'[r].pc = "done" /\ request'[r].holds = {}
         \/ /\ request'[r].pc = "commit" /\ request'[r].holds = {"user"}
            /\ ~Exists /\ Unlocked(r, "user")
    BY DEF AuthInv, TypeOK, Request, Fits, InOrder, Signup, NewRequest
<1>3. Fits(request[r])
    BY DEF AuthInv
<1>4. Fits(request'[r])
    BY <1>2, <1>3 DEF Fits, InOrder, EntryFits, IssueFits, UseFits
<1>5. \A q \in Requests \ {r} : request'[r].holds \cap request[q].holds = {}
    BY <1>2 DEF AuthInv, Locks, Unlocked
<1> QED
    BY <1>1, <1>2, <1>4, <1>5, Quiet

LEMMA LoginStep ==
    ASSUME AuthInv, NEW r \in Requests, NEW p \in Passwords, Login(r, p)
    PROVE  AuthInv'
<1>1. /\ request' \in [Requests -> Request]
      /\ \A q \in Requests \ {r} : request'[q] = request[q]
      /\ UNCHANGED <<user, token, session, mail>>
    BY DEF AuthInv, TypeOK, Request, Operations, Steps, Login, NewRequest
<1>2. /\ request[r].pc = "new" /\ request'[r].op = "login"
      /\ request'[r].first = request[r].first
      /\ request'[r].holds = {}
      /\ \/ request'[r].pc = "done"
         \/ /\ request'[r].pc \in {"rehash", "open"}
            /\ Exists /\ \E h \in request'[r].seen : h.pw = request'[r].pw
    BY DEF AuthInv, TypeOK, Request, Fits, InOrder, Login, NewRequest, Exists
<1>3. Fits(request[r])
    BY DEF AuthInv
<1>4. Fits(request'[r])
    BY <1>2, <1>3 DEF Fits, InOrder, EntryFits, IssueFits, UseFits
<1>5. \A q \in Requests \ {r} : request'[r].holds \cap request[q].holds = {}
    BY <1>2 DEF AuthInv, Locks, Unlocked
<1> QED
    BY <1>1, <1>2, <1>4, <1>5, Quiet

LEMMA ForgotStep ==
    ASSUME AuthInv, NEW r \in Requests, ForgotPassword(r)
    PROVE  AuthInv'
<1>1. /\ request' \in [Requests -> Request]
      /\ \A q \in Requests \ {r} : request'[q] = request[q]
      /\ UNCHANGED <<user, token, session, mail>>
    BY DEF AuthInv, TypeOK, Request, Operations, Steps, ForgotPassword, NewRequest
<1>2. /\ request[r].pc = "new" /\ request'[r].op = "forgot"
      /\ request'[r].first = request[r].first
      /\ request'[r].holds = {}
      /\ request'[r].pc = "done" \/ (request'[r].pc = "lock" /\ Exists)
    BY DEF AuthInv, TypeOK, Request, Fits, InOrder, ForgotPassword, NewRequest
<1>3. Fits(request[r])
    BY DEF AuthInv
<1>4. Fits(request'[r])
    BY <1>2, <1>3 DEF Fits, InOrder, EntryFits, IssueFits, UseFits
<1>5. \A q \in Requests \ {r} : request'[r].holds \cap request[q].holds = {}
    BY <1>2 DEF AuthInv, Locks, Unlocked
<1> QED
    BY <1>1, <1>2, <1>4, <1>5, Quiet

LEMMA ResendStep ==
    ASSUME AuthInv, NEW r \in Requests, ResendVerification(r)
    PROVE  AuthInv'
<1>1. /\ request' \in [Requests -> Request]
      /\ \A q \in Requests \ {r} : request'[q] = request[q]
      /\ UNCHANGED <<user, token, session, mail>>
    BY DEF AuthInv, TypeOK, Request, Operations, Steps, ResendVerification, NewRequest
<1>2. /\ request[r].pc = "new" /\ request'[r].op = "resend"
      /\ request'[r].first = request[r].first
      /\ request'[r].holds = {}
      /\ request'[r].pc = "check" /\ Exists
    BY DEF AuthInv, TypeOK, Request, Fits, InOrder, ResendVerification, NewRequest
<1>3. Fits(request[r])
    BY DEF AuthInv
<1>4. Fits(request'[r])
    BY <1>2, <1>3 DEF Fits, InOrder, EntryFits, IssueFits, UseFits
<1>5. \A q \in Requests \ {r} : request'[r].holds \cap request[q].holds = {}
    BY <1>2 DEF AuthInv, Locks, Unlocked
<1> QED
    BY <1>1, <1>2, <1>4, <1>5, Quiet

LEMMA VerifyStep ==
    ASSUME AuthInv, NEW r \in Requests, NEW t \in Requests, VerifyEmail(r, t)
    PROVE  AuthInv'
<1>1. /\ request' \in [Requests -> Request]
      /\ \A q \in Requests \ {r} : request'[q] = request[q]
      /\ UNCHANGED <<user, token, session, mail>>
    BY DEF AuthInv, TypeOK, Request, Operations, Steps, VerifyEmail, UseToken, NewRequest
<1>2. /\ request[r].pc = "new" /\ request'[r].op = "verify"
      /\ request'[r].first = request[r].first
      /\ request'[r].holds = {}
      /\ request'[r].pc = "consume" /\ request'[r].arg \in Requests
      /\ token[request'[r].arg].kind = "verification"
    BY DEF AuthInv, TypeOK, Request, Fits, InOrder, VerifyEmail, UseToken, NewRequest
<1>3. Fits(request[r])
    BY DEF AuthInv
<1>4. Fits(request'[r])
    BY <1>2, <1>3 DEF Fits, InOrder, EntryFits, IssueFits, UseFits
<1>5. \A q \in Requests \ {r} : request'[r].holds \cap request[q].holds = {}
    BY <1>2 DEF AuthInv, Locks, Unlocked
<1> QED
    BY <1>1, <1>2, <1>4, <1>5, Quiet

LEMMA ResetStep ==
    ASSUME AuthInv, NEW r \in Requests, NEW t \in Requests, NEW p \in Passwords, ResetPassword(r, t, p)
    PROVE  AuthInv'
<1>1. /\ request' \in [Requests -> Request]
      /\ \A q \in Requests \ {r} : request'[q] = request[q]
      /\ UNCHANGED <<user, token, session, mail>>
    BY DEF AuthInv, TypeOK, Request, Operations, Steps, ResetPassword, NewRequest
<1>2. /\ request[r].pc = "new" /\ request'[r].op = "reset"
      /\ request'[r].first = request[r].first
      /\ request'[r].holds = {}
      /\ request'[r].pc = "consume" /\ request'[r].arg \in Requests
      /\ token[request'[r].arg].kind = "reset"
    BY DEF AuthInv, TypeOK, Request, Fits, InOrder, ResetPassword, NewRequest
<1>3. Fits(request[r])
    BY DEF AuthInv
<1>4. Fits(request'[r])
    BY <1>2, <1>3 DEF Fits, InOrder, EntryFits, IssueFits, UseFits
<1>5. \A q \in Requests \ {r} : request'[r].holds \cap request[q].holds = {}
    BY <1>2 DEF AuthInv, Locks, Unlocked
<1> QED
    BY <1>1, <1>2, <1>4, <1>5, Quiet

LEMMA CheckResendStep ==
    ASSUME AuthInv, NEW r \in Requests, CheckResend(r)
    PROVE  AuthInv'
<1>1. /\ request' \in [Requests -> Request]
      /\ \A q \in Requests \ {r} : request'[q] = request[q]
      /\ UNCHANGED <<user, token, session, mail>>
    <2> "lock" \in Steps /\ TypeOK
        BY DEF AuthInv, Steps
    <2> QED
        BY LockType, AnswerType DEF CheckResend
<1>2. /\ request[r].op = "resend" /\ request[r].pc = "check"
      /\ request'[r].op = "resend" /\ request'[r].first = request[r].first
      /\ \/ request'[r].pc = "done" /\ request'[r].holds = {}
         \/ /\ request'[r].pc = "lock" /\ MayResend
            /\ request'[r].holds = request[r].holds \cup {"user"}
            /\ Unlocked(r, "user")
    BY DEF AuthInv, TypeOK, Request, Fits, InOrder, CheckResend, At, Lock, Answer
<1>3. Fits(request[r])
    BY DEF AuthInv
<1>4. Fits(request'[r])
    BY <1>2, <1>3 DEF Fits, InOrder, EntryFits, IssueFits, UseFits
<1>5. \A q \in Requests \ {r} : request'[r].holds \cap request[q].holds = {}
    BY <1>2 DEF AuthInv, Locks, Unlocked
<1> QED
    BY <1>1, <1>2, <1>4, <1>5, Quiet

LEMMA LockUserStep ==
    ASSUME AuthInv, NEW r \in Requests, LockUser(r)
    PROVE  AuthInv'
<1>1. /\ request' \in [Requests -> Request]
      /\ \A q \in Requests \ {r} : request'[q] = request[q]
      /\ UNCHANGED <<user, token, session, mail>>
    <2> "retire" \in Steps /\ TypeOK
        BY DEF AuthInv, Steps
    <2> QED
        BY LockType DEF LockUser
<1>2. /\ request[r].pc = "lock" /\ request[r].op \in {"resend", "forgot"}
      /\ request'[r].op = request[r].op /\ request'[r].first = request[r].first
      /\ request'[r].pc = "retire" /\ Unlocked(r, "user")
      /\ request'[r].holds = request[r].holds \cup {"user"}
    BY DEF AuthInv, TypeOK, Request, Fits, InOrder, LockUser, Lock, Operations
<1>3. Fits(request[r])
    BY DEF AuthInv
<1>4. Fits(request'[r])
    BY <1>2, <1>3 DEF Fits, InOrder, EntryFits, IssueFits, UseFits
<1>5. \A q \in Requests \ {r} : request'[r].holds \cap request[q].holds = {}
    BY <1>2 DEF AuthInv, Locks, Unlocked
<1> QED
    BY <1>1, <1>2, <1>4, <1>5, Quiet

LEMMA RetireStep ==
    ASSUME AuthInv, NEW r \in Requests, Retire(r)
    PROVE  AuthInv'
<1>1. /\ request' \in [Requests -> Request]
      /\ \A q \in Requests \ {r} : request'[q] = request[q]
      /\ UNCHANGED <<user, token, session, mail>>
    <2> "commit" \in Steps /\ TypeOK
        BY DEF AuthInv, Steps
    <2> LiveTokens(KindOf(request[r].op)) \subseteq Requests
        BY DEF LiveTokens
    <2> QED
        BY LockType DEF Retire
<1>2. /\ request[r].pc = "retire" /\ request[r].op \in {"resend", "forgot"}
      /\ request'[r].op = request[r].op /\ request'[r].first = request[r].first
      /\ request'[r].pc = "commit"
      /\ request'[r].holds = request[r].holds \cup LiveTokens(KindOf(request[r].op))
      /\ \A u \in LiveTokens(KindOf(request[r].op)) : Unlocked(r, u)
    BY DEF AuthInv, TypeOK, Request, Fits, InOrder, Retire, Lock, Operations
<1>3. Fits(request[r])
    BY DEF AuthInv
<1>4. Fits(request'[r])
    BY <1>2, <1>3 DEF Fits, InOrder, EntryFits, IssueFits, UseFits
<1>5. \A q \in Requests \ {r} : request'[r].holds \cap request[q].holds = {}
    BY <1>2 DEF AuthInv, Locks, Unlocked
<1> QED
    BY <1>1, <1>2, <1>4, <1>5, Quiet

LEMMA ConsumeStep ==
    ASSUME AuthInv, NEW r \in Requests, Consume(r)
    PROVE  AuthInv'
<1>1. /\ request' \in [Requests -> Request]
      /\ \A q \in Requests \ {r} : request'[q] = request[q]
      /\ UNCHANGED <<user, token, session, mail>>
    <2>1. request \in [Requests -> Request] /\ request[r] \in Request
        BY DEF AuthInv, TypeOK
    <2>2. ASSUME request[r].pc = "consume"
          PROVE  request[r].arg \in Requests
        BY <2>1, <2>2 DEF AuthInv, Fits, InOrder, UseFits, Request, Operations
    <2>3. ASSUME NEW pc \in {"mark", "password"}, request[r].pc = "consume"
          PROVE  [request[r] EXCEPT !.pc = pc,
                    !.holds = request[r].holds \cup {request[r].arg}] \in Request
        BY <2>1, <2>2, <2>3 DEF Request, Steps
    <2>4. [request[r] EXCEPT !.pc = "done", !.holds = {}] \in Request
        BY <2>1 DEF Request, Steps
    <2> QED
        BY <2>1, <2>3, <2>4 DEF Consume, Lock, Answer
<1>2. /\ request[r].pc = "consume" /\ request[r].op \in {"verify", "reset"}
      /\ request'[r].op = request[r].op /\ request'[r].first = request[r].first
      /\ request'[r].arg = request[r].arg
      /\ \/ request'[r].pc = "done" /\ request'[r].holds = {}
         \/ /\ request'[r].pc = IF request[r].op = "verify" THEN "mark" ELSE "password"
            /\ token[request[r].arg].live /\ Unlocked(r, request[r].arg)
            /\ request'[r].holds = request[r].holds \cup {request[r].arg}
    BY DEF AuthInv, TypeOK, Request, Fits, InOrder, Consume, Lock, Answer, Operations
<1>3. Fits(request[r])
    BY DEF AuthInv
<1>4. Fits(request'[r])
    BY <1>2, <1>3 DEF Fits, InOrder, EntryFits, IssueFits, UseFits
<1>5. \A q \in Requests \ {r} : request'[r].holds \cap request[q].holds = {}
    BY <1>2 DEF AuthInv, Locks, Unlocked
<1> QED
    BY <1>1, <1>2, <1>4, <1>5, Quiet

LEMMA MarkStep ==
    ASSUME AuthInv, NEW r \in Requests, MarkEmailVerified(r)
    PROVE  AuthInv'
<1>1. /\ request' \in [Requests -> Request]
      /\ \A q \in Requests \ {r} : request'[q] = request[q]
      /\ UNCHANGED <<user, token, session, mail>>
    <2>1. request[r] \in Request
        BY DEF AuthInv, TypeOK
    <2>2. request[r].holds \cup {"user"} \in SUBSET (Requests \cup {"user"})
        BY <2>1 DEF Request
    <2>3. /\ [request[r] EXCEPT !.pc = "commit"] \in Request
          /\ [request[r] EXCEPT !.first = TRUE, !.pc = "commit",
                !.holds = request[r].holds \cup {"user"}] \in Request
        BY <2>1, <2>2 DEF Request, Steps
    <2> QED
        BY <2>3 DEF AuthInv, TypeOK, MarkEmailVerified, Go
<1>2. /\ request[r].op = "verify" /\ request[r].pc = "mark"
      /\ request'[r].op = request[r].op /\ request'[r].arg = request[r].arg
      /\ request'[r].pc = "commit"
      /\ \/ /\ user.verified /\ request'[r].first = request[r].first
            /\ request'[r].holds = request[r].holds
         \/ /\ ~user.verified /\ request'[r].first /\ Unlocked(r, "user")
            /\ request'[r].holds = request[r].holds \cup {"user"}
    BY DEF AuthInv, TypeOK, Request, Fits, InOrder, MarkEmailVerified, At, Go
<1>3. Fits(request[r])
    BY DEF AuthInv
<1>4. Fits(request'[r])
    BY <1>2, <1>3 DEF Fits, InOrder, EntryFits, IssueFits, UseFits
<1>5. \A q \in Requests \ {r} : request'[r].holds \cap request[q].holds = {}
    BY <1>2 DEF AuthInv, Locks, Unlocked
<1> QED
    BY <1>1, <1>2, <1>4, <1>5, Quiet

LEMMA UpdatePasswordStep ==
    ASSUME AuthInv, NEW r \in Requests, UpdatePasswordHash(r)
    PROVE  AuthInv'
<1>1. /\ request' \in [Requests -> Request]
      /\ \A q \in Requests \ {r} : request'[q] = request[q]
      /\ UNCHANGED <<user, token, session, mail>>
    <2> "revoke" \in Steps /\ TypeOK
        BY DEF AuthInv, Steps
    <2> QED
        BY LockType DEF UpdatePasswordHash
<1>2. /\ request[r].op = "reset" /\ request[r].pc = "password"
      /\ request'[r].op = request[r].op /\ request'[r].first = request[r].first
      /\ request'[r].arg = request[r].arg
      /\ request'[r].pc = "revoke" /\ Unlocked(r, "user")
      /\ request'[r].holds = request[r].holds \cup {"user"}
    BY DEF AuthInv, TypeOK, Request, Fits, InOrder, UpdatePasswordHash, At, Lock
<1>3. Fits(request[r])
    BY DEF AuthInv
<1>4. Fits(request'[r])
    BY <1>2, <1>3 DEF Fits, InOrder, EntryFits, IssueFits, UseFits
<1>5. \A q \in Requests \ {r} : request'[r].holds \cap request[q].holds = {}
    BY <1>2 DEF AuthInv, Locks, Unlocked
<1> QED
    BY <1>1, <1>2, <1>4, <1>5, Quiet

LEMMA RevokeStep ==
    ASSUME AuthInv, NEW r \in Requests, RevokeUserSessions(r)
    PROVE  AuthInv'
<1>1. /\ request' \in [Requests -> Request]
      /\ \A q \in Requests \ {r} : request'[q] = request[q]
      /\ UNCHANGED <<user, token, session, mail>>
    <2>1. request[r] \in Request /\ LiveSessions \in SUBSET Requests
        BY DEF AuthInv, TypeOK, LiveSessions
    <2>2. [request[r] EXCEPT !.pc = "commit", !.saw = LiveSessions] \in Request
        BY <2>1 DEF Request, Steps
    <2> QED
        BY <2>2 DEF AuthInv, TypeOK, RevokeUserSessions
<1>2. /\ request[r].op = "reset" /\ request[r].pc = "revoke"
      /\ request'[r].op = request[r].op /\ request'[r].first = request[r].first
      /\ request'[r].arg = request[r].arg
      /\ request'[r].pc = "commit" /\ request'[r].saw = LiveSessions
      /\ request'[r].holds = request[r].holds
    BY DEF AuthInv, TypeOK, Request, Fits, InOrder, RevokeUserSessions, At, LiveSessions
<1>3. Fits(request[r])
    BY DEF AuthInv
<1>4. Fits(request'[r])
    BY <1>2, <1>3 DEF Fits, InOrder, EntryFits, IssueFits, UseFits
<1>5. \A q \in Requests \ {r} : request'[r].holds \cap request[q].holds = {}
    BY <1>2 DEF AuthInv, Locks, Unlocked
<1> QED
    BY <1>1, <1>2, <1>4, <1>5, Quiet

\* A rollback is a statement that changes no row and frees every lock.
LEMMA AbortStep ==
    ASSUME AuthInv, NEW r \in Requests, Abort(r)
    PROVE  AuthInv'
<1>1. /\ request' \in [Requests -> Request]
      /\ \A q \in Requests \ {r} : request'[q] = request[q]
      /\ UNCHANGED <<user, token, session, mail>>
    BY AnswerType DEF AuthInv, Abort
<1>2. /\ request[r].pc \notin {"new", "done"}
      /\ request'[r].op = request[r].op /\ request'[r].first = request[r].first
      /\ request'[r].pc = "done" /\ request'[r].holds = {}
    BY DEF AuthInv, TypeOK, Request, Fits, InOrder, Abort, Answer, Started
<1>3. Fits(request[r])
    BY DEF AuthInv
<1>4. Fits(request'[r])
    BY <1>2, <1>3 DEF Fits, InOrder, EntryFits, IssueFits, UseFits
<1>5. \A q \in Requests \ {r} : request'[r].holds \cap request[q].holds = {}
    BY <1>2 DEF AuthInv, Locks, Unlocked
<1> QED
    BY <1>1, <1>2, <1>4, <1>5, Quiet

-----------------------------------------------------------------------------
(* Statements and commits that change rows.                                *)

\* The hash changes, the password does not.
LEMMA Rehashed ==
    ASSUME AuthInv, TypeOK', UNCHANGED <<token, session, mail>>,
           Exists', Exists, user'.verified = user.verified,
           \A h \in user'.hash : \E g \in user.hash : g.pw = h.pw,
           \A q \in Requests : Fits(request'[q]),
           \A q \in Requests : request[q].pc = "done" => request'[q].pc = "done",
           \A q \in Requests : request'[q].holds = request[q].holds
    PROVE  AuthInv'
<1>1. /\ MayResend' <=> MayResend
      /\ \A kind : LiveTokens(kind)' = LiveTokens(kind)
      /\ LiveSessions' = LiveSessions
    BY DEF MayResend, LiveTokens, LiveSessions
<1>2. \A q \in Requests : Fits(request[q])'
    BY <1>1 DEF Fits, InOrder, EntryFits, IssueFits, UseFits
<1>3. Locks' /\ Rows' /\ SingleTokens' /\ VerifiedEndsVerification' /\ Mails'
    BY <1>1 DEF AuthInv, Locks, Rows, SingleTokens, VerifiedEndsVerification, Mails
<1>4. OnlyOvertakenLoginsSurviveReset'
    <2> SUFFICES ASSUME NEW s \in LiveSessions, NEW h \in user'.hash
                 PROVE  session[s].pw = h.pw \/ session[s].late
        BY <1>1 DEF OnlyOvertakenLoginsSurviveReset
    <2>1. PICK g \in user.hash : g.pw = h.pw
        OBVIOUS
    <2> QED
        BY <2>1 DEF AuthInv, OnlyOvertakenLoginsSurviveReset
<1> QED
    BY <1>2, <1>3, <1>4 DEF AuthInv

LEMMA RehashStep ==
    ASSUME AuthInv, NEW r \in Requests, Rehash(r)
    PROVE  AuthInv'
<1>1. /\ request[r].op = "login" /\ request[r].pc = "rehash"
      /\ request[r] \in Request /\ Fits(request[r])
      /\ request' = [request EXCEPT ![r].pc = "open"]
      /\ UNCHANGED <<token, session, mail>>
    BY DEF AuthInv, TypeOK, Rehash, At, Go
<1>2. [request[r] EXCEPT !.pc = "open"] \in Request
    BY <1>1 DEF Request, Steps
<1>3. /\ request' \in [Requests -> Request]
      /\ \A q \in Requests \ {r} : request'[q] = request[q]
      /\ request'[r] = [request[r] EXCEPT !.pc = "open"]
    BY <1>1, <1>2 DEF AuthInv, TypeOK
<1>4. /\ request'[r].op = "login" /\ request'[r].pc = "open"
      /\ request'[r].holds = request[r].holds /\ request'[r].seen = request[r].seen
      /\ request'[r].pw = request[r].pw /\ request'[r].first = request[r].first
    BY <1>1, <1>3 DEF Request
<1>5. Fits(request'[r])
    BY <1>1, <1>4 DEF Fits, InOrder, EntryFits, IssueFits, UseFits
<1>6. CASE UNCHANGED user
    BY <1>1, <1>3, <1>4, <1>5, <1>6, Quiet DEF AuthInv, Locks
<1>7. ASSUME user.hash = request[r].seen,
             user' = [user EXCEPT !.hash = {[pw |-> request[r].pw,
                                             outdated |-> FALSE, by |-> r]}]
      PROVE  AuthInv'
    <2>1. [pw |-> request[r].pw, outdated |-> FALSE, by |-> r] \in Hash
        BY <1>1 DEF Hash, Request
    <2>2. user' \in User /\ user'.verified = user.verified
          /\ user'.hash = {[pw |-> request[r].pw, outdated |-> FALSE, by |-> r]}
        BY <1>7, <2>1 DEF AuthInv, TypeOK, User
    <2>3. TypeOK'
        BY <1>1, <1>3, <2>2 DEF AuthInv, TypeOK
    <2>4. Exists /\ \E g \in user.hash : g.pw = request[r].pw
        BY <1>1, <1>7 DEF Fits, EntryFits
    <2>5. Exists' /\ \A h \in user'.hash : \E g \in user.hash : g.pw = h.pw
        BY <2>2, <2>4 DEF Exists
    <2>6. /\ \A q \in Requests : Fits(request'[q])
          /\ \A q \in Requests : request[q].pc = "done" => request'[q].pc = "done"
          /\ \A q \in Requests : request'[q].holds = request[q].holds
        BY <1>1, <1>3, <1>4, <1>5 DEF AuthInv
    <2> QED
        BY <1>1, <2>2, <2>3, <2>4, <2>5, <2>6, Rehashed
<1> QED
    BY <1>6, <1>7 DEF Rehash

LEMMA RaiseCostStep ==
    ASSUME AuthInv, RaiseCost
    PROVE  AuthInv'
<1>1. PICK h \in user.hash : h \in Hash /\ user.hash = {h}
    BY HashType DEF AuthInv, RaiseCost
<1> DEFINE k == [h EXCEPT !.outdated = TRUE]
<1>2. k \in Hash /\ k.pw = h.pw
    BY <1>1 DEF Hash
<1>3. /\ user' \in User /\ user'.verified = user.verified
      /\ user'.hash = {k}
      /\ UNCHANGED <<token, session, mail, request>>
    <2>1. {[g EXCEPT !.outdated = TRUE] : g \in user.hash} = {k}
        BY <1>1
    <2>2. user \in User /\ user' = [user EXCEPT !.hash = {k}]
        BY <2>1 DEF AuthInv, TypeOK, RaiseCost
    <2> HIDE DEF k
    <2> QED
        BY <1>2, <2>2 DEF User, RaiseCost
<1> HIDE DEF k
<1>4. TypeOK'
    BY <1>3 DEF AuthInv, TypeOK
<1>5. Exists /\ Exists'
    BY <1>1, <1>3 DEF Exists
<1>6. \A x \in user'.hash : \E g \in user.hash : g.pw = x.pw
    BY <1>1, <1>2, <1>3
<1> QED
    BY <1>3, <1>4, <1>5, <1>6, Rehashed DEF AuthInv

\* Sessions end, and nothing else changes.
LEMMA Ended ==
    ASSUME AuthInv, UNCHANGED <<user, token, mail, request>>,
           session' \in [Requests -> Session],
           \A s \in Requests :
              \/ session'[s] = session[s]
              \/ /\ session[s].state = "live" /\ session'[s].state = "revoked"
                 /\ session'[s].late = session[s].late
    PROVE  AuthInv'
<1>1. TypeOK'
    BY DEF AuthInv, TypeOK
<1>2. /\ Exists' <=> Exists
      /\ MayResend' <=> MayResend
      /\ \A kind : LiveTokens(kind)' = LiveTokens(kind)
      /\ \A s \in LiveSessions' : s \in LiveSessions /\ session'[s] = session[s]
    BY DEF Exists, MayResend, LiveTokens, LiveSessions
<1>3. \A q \in Requests : Fits(request[q])'
    BY <1>2 DEF AuthInv, Fits, InOrder, EntryFits, IssueFits, UseFits
<1>4. Locks' /\ Rows' /\ SingleTokens' /\ VerifiedEndsVerification' /\ Mails'
    <2>1. Locks'
        BY DEF AuthInv, Locks
    <2>4. Rows'
        <3>1. \A s \in Requests : session'[s].state # "none" => session[s].state # "none"
            OBVIOUS
        <3> QED
            BY <1>2, <3>1 DEF AuthInv, Rows
    <2>2. SingleTokens' /\ VerifiedEndsVerification'
        BY <1>2 DEF AuthInv, SingleTokens, VerifiedEndsVerification
    <2>3. Mails'
        BY DEF AuthInv, Mails
    <2> QED
        BY <2>1, <2>2, <2>3, <2>4
<1>5. OnlyOvertakenLoginsSurviveReset'
    BY <1>2 DEF AuthInv, OnlyOvertakenLoginsSurviveReset
<1> QED
    BY <1>1, <1>3, <1>4, <1>5 DEF AuthInv

LEMMA RevokedType ==
    ASSUME NEW s \in Session
    PROVE  /\ Revoked(s) \in Session /\ Revoked(s).late = s.late /\ Revoked(s).pw = s.pw
           /\ \/ Revoked(s) = s /\ s.state # "live"
              \/ s.state = "live" /\ Revoked(s).state = "revoked"
BY DEF Session, Revoked

LEMMA LogoutStep ==
    ASSUME AuthInv, UNCHANGED <<user, token, mail, request>>, NEW S \in SUBSET Requests,
           session' = [s \in Requests |-> IF s \in S THEN Revoked(session[s])
                                                     ELSE session[s]]
    PROVE  AuthInv'
<1>1. session \in [Requests -> Session]
    BY DEF AuthInv, TypeOK
<1> QED
    BY <1>1, RevokedType, Ended

LEMMA GrowOldStep ==
    ASSUME AuthInv, NEW t \in Requests, GrowOld(t)
    PROVE  AuthInv'
<1>1. /\ token \in [Requests -> Token]
      /\ UNCHANGED <<user, session, mail, request>>
    BY DEF AuthInv, TypeOK, GrowOld
<1>2. /\ token' \in [Requests -> Token]
      /\ \A u \in Requests :
            /\ token'[u].kind = token[u].kind /\ token'[u].live = token[u].live
            /\ token'[u].age = "fresh" => token[u].age = "fresh"
    BY <1>1 DEF GrowOld, Token, Ages
<1>3. TypeOK'
    BY <1>1, <1>2 DEF AuthInv, TypeOK
<1>4. /\ Exists' <=> Exists
      /\ MayResend => MayResend'
      /\ \A kind : LiveTokens(kind)' = LiveTokens(kind)
      /\ LiveSessions' = LiveSessions
    BY <1>1, <1>2 DEF Exists, MayResend, LiveTokens, LiveSessions
<1>5. ASSUME NEW q \in Requests PROVE Fits(request[q])'
    <2>1. Fits(request[q]) /\ request[q] \in Request
        BY DEF AuthInv, TypeOK
    <2>2. InOrder(request[q])' /\ EntryFits(request[q])'
        BY <1>1, <1>4, <2>1 DEF Fits, InOrder, EntryFits
    <2>3. IssueFits(request[q])'
        BY <1>1, <1>4, <2>1 DEF Fits, IssueFits, KindOf
    <2>4. UseFits(request[q])'
        BY <1>1, <1>2, <1>4, <2>1 DEF Fits, UseFits, InOrder, Request, Operations
    <2> QED
        BY <2>2, <2>3, <2>4 DEF Fits
<1>6. Locks' /\ Rows' /\ SingleTokens' /\ VerifiedEndsVerification' /\ Mails'
    <2>1. Locks' /\ Rows' /\ SingleTokens'
        BY <1>1, <1>2, <1>4 DEF AuthInv, Locks, Rows, SingleTokens
    <2>2. VerifiedEndsVerification'
        BY <1>1, <1>4 DEF AuthInv, VerifiedEndsVerification
    <2>3. Mails'
        <3>1. Mails
            BY DEF AuthInv
        <3>2. \A r \in Requests : token'[r].kind = token[r].kind
            BY <1>2
        <3> QED
            BY <1>1, <3>1, <3>2 DEF Mails
    <2> QED
        BY <2>1, <2>2, <2>3
<1>7. OnlyOvertakenLoginsSurviveReset'
    BY <1>1, <1>4 DEF AuthInv, OnlyOvertakenLoginsSurviveReset
<1> QED
    BY <1>3, <1>5, <1>6, <1>7 DEF AuthInv

\* What a transaction's end leaves of the requests.
LEMMA Ends ==
    ASSUME AuthInv, NEW r \in Requests, Answer(r)
    PROVE  /\ request' \in [Requests -> Request]
           /\ \A q \in Requests \ {r} : request'[q] = request[q]
           /\ request'[r].pc = "done" /\ request'[r].holds = {}
           /\ request'[r].op = request[r].op
           /\ Locks'
<1>1. /\ request' \in [Requests -> Request]
      /\ \A q \in Requests \ {r} : request'[q] = request[q]
    BY AnswerType DEF AuthInv
<1>2. /\ request'[r].pc = "done" /\ request'[r].holds = {}
      /\ request'[r].op = request[r].op
    BY DEF AuthInv, TypeOK, Request, Answer
<1>3. Locks'
    BY <1>1, <1>2 DEF AuthInv, Locks
<1> QED
    BY <1>1, <1>2, <1>3

LEMMA CommitSignupStep ==
    ASSUME AuthInv, NEW r \in Requests, CommitSignup(r)
    PROVE  AuthInv'
<1> DEFINE h == [pw |-> request[r].pw, outdated |-> FALSE, by |-> r]
<1>1. /\ request[r] \in Request /\ Fits(request[r])
      /\ request[r].op = "signup" /\ request[r].pc = "commit"
      /\ Answer(r)
    BY DEF AuthInv, TypeOK, CommitSignup, At
<1>2. /\ "user" \in request[r].holds /\ ~Exists
      /\ \A t \in Requests : /\ token[t].kind = "none" /\ ~token[t].live
                             /\ session[t].state = "none"
      /\ ~user.verified
    BY <1>1 DEF AuthInv, Fits, EntryFits, Rows
<1>3. h \in Hash /\ h.pw = request[r].pw
    BY <1>1 DEF Hash, Request
<1>4. /\ user' \in User /\ user'.hash = {h} /\ ~user'.verified
      /\ Exists'
    <2>1. user' = [user EXCEPT !.hash = {h}]
        BY DEF CommitSignup
    <2> HIDE DEF h
    <2> QED
        BY <1>2, <1>3, <2>1 DEF AuthInv, TypeOK, User, Exists
<1>5. /\ token' \in [Requests -> Token]
      /\ token'[r].kind = "verification"
      /\ \A t \in Requests \ {r} : token'[t] = token[t]
    BY DEF AuthInv, TypeOK, CommitSignup, Token, Kinds, Ages
<1>6. /\ session' \in [Requests -> Session]
      /\ session'[r].pw = h.pw
      /\ \A t \in Requests \ {r} : session'[t] = session[t]
    BY <1>1 DEF AuthInv, TypeOK, CommitSignup, Session, Request
<1>7. mail' = mail \cup {<<"verification", r>>} /\ mail' \subseteq Mail \X Requests
    BY DEF AuthInv, TypeOK, CommitSignup, Mail, Kinds
<1>8. TypeOK'
    BY <1>1, <1>4, <1>5, <1>6, <1>7, Ends DEF TypeOK
<1>9. ASSUME NEW q \in Requests PROVE Fits(request[q])'
    <2>1. CASE q = r
        BY <1>1, <2>1, Ends DEF Fits, InOrder, EntryFits, IssueFits, UseFits
    <2>2. CASE q # r
        <3>1. Fits(request[q]) /\ request[q] \in Request /\ "user" \notin request[q].holds
            BY <1>2, <2>2 DEF AuthInv, TypeOK, Locks
        <3>2. request'[q] = request[q]
            BY <1>1, <2>2, Ends
        <3>3. request[q].pc \in {"new", "done"}
            BY <1>2, <3>1 DEF Fits, InOrder, EntryFits, IssueFits, UseFits, Request,
                              Operations
        <3> QED
            BY <3>1, <3>2, <3>3 DEF Fits, InOrder, EntryFits, IssueFits, UseFits
    <2> QED
        BY <2>1, <2>2
<1>10. Rows'
    BY <1>1, <1>2, <1>4, <1>5, <1>6, Ends DEF Rows
<1>11. SingleTokens' /\ VerifiedEndsVerification'
    BY <1>2, <1>4, <1>5 DEF SingleTokens, VerifiedEndsVerification
<1>12. Mails'
    BY <1>2, <1>4, <1>5, <1>7 DEF AuthInv, Mails, Kinds
<1>13. OnlyOvertakenLoginsSurviveReset'
    BY <1>2, <1>4, <1>6 DEF OnlyOvertakenLoginsSurviveReset, LiveSessions
<1> QED
    BY <1>1, <1>8, <1>9, <1>10, <1>11, <1>12, <1>13, Ends DEF AuthInv

LEMMA OpenSessionStep ==
    ASSUME AuthInv, NEW r \in Requests, OpenSession(r)
    PROVE  AuthInv'
<1>1. /\ request[r] \in Request /\ Fits(request[r])
      /\ request[r].op = "login" /\ request[r].pc = "open"
      /\ Answer(r) /\ UNCHANGED <<user, token, mail>>
    BY DEF AuthInv, TypeOK, OpenSession, At
<1>2. Exists
    BY <1>1 DEF Fits, EntryFits
<1>3. /\ session' \in [Requests -> Session]
      /\ session'[r].pw = request[r].pw
      /\ session'[r].late <=> \/ ResetPending
                              \/ \A h \in user.hash : h.pw # request[r].pw
      /\ \A t \in Requests \ {r} : session'[t] = session[t]
    BY <1>1 DEF AuthInv, TypeOK, OpenSession, Session, Request
<1>4. TypeOK'
    BY <1>1, <1>3, Ends DEF AuthInv, TypeOK
<1>5. /\ Exists'
      /\ MayResend' <=> MayResend
      /\ \A kind : LiveTokens(kind)' = LiveTokens(kind)
      /\ \A s \in LiveSessions' : s = r \/ (s \in LiveSessions /\ session'[s] = session[s])
    BY <1>1, <1>2, <1>3 DEF Exists, MayResend, LiveTokens, LiveSessions
<1>6. ASSUME NEW q \in Requests PROVE Fits(request[q])'
    <2>1. CASE q = r
        BY <1>1, <2>1, Ends DEF Fits, InOrder, EntryFits, IssueFits, UseFits
    <2>2. CASE q # r
        <3>1. Fits(request[q]) /\ request'[q] = request[q]
            BY <1>1, <2>2, Ends DEF AuthInv
        <3>2. request[q].op = "reset" /\ request[q].pc = "commit" => session'[r].late
            BY <1>3 DEF ResetPending, At
        <3>3. InOrder(request[q])' /\ EntryFits(request[q])' /\ IssueFits(request[q])'
            BY <1>1, <1>2, <1>5, <3>1 DEF Fits, InOrder, EntryFits, IssueFits
        <3>4. UseFits(request[q])'
            BY <1>1, <1>5, <3>1, <3>2 DEF Fits, UseFits
        <3> QED
            BY <3>3, <3>4 DEF Fits
    <2> QED
        BY <2>1, <2>2
<1>7. Rows'
    BY <1>1, <1>3, <1>5, Ends DEF AuthInv, Rows
<1>8. SingleTokens' /\ VerifiedEndsVerification' /\ Mails'
    BY <1>1, <1>5 DEF AuthInv, SingleTokens, VerifiedEndsVerification, Mails
<1>9. OnlyOvertakenLoginsSurviveReset'
    <2> SUFFICES ASSUME NEW s \in LiveSessions', NEW h \in user.hash
                 PROVE  session'[s].pw = h.pw \/ session'[s].late
        BY <1>1 DEF OnlyOvertakenLoginsSurviveReset
    <2>1. user.hash = {h}
        BY HashType DEF AuthInv
    <2> QED
        BY <1>3, <1>5, <2>1 DEF AuthInv, OnlyOvertakenLoginsSurviveReset
<1> QED
    BY <1>1, <1>4, <1>6, <1>7, <1>8, <1>9, Ends DEF AuthInv

LEMMA CommitIssueStep ==
    ASSUME AuthInv, NEW r \in Requests, CommitIssue(r)
    PROVE  AuthInv'
<1> DEFINE kind == KindOf(request[r].op)
<1>1. /\ request[r] \in Request /\ Fits(request[r])
      /\ request[r].op \in {"resend", "forgot"} /\ request[r].pc = "commit"
      /\ Answer(r) /\ UNCHANGED <<user, session>>
    BY DEF AuthInv, TypeOK, CommitIssue
<1>2. /\ Exists /\ "user" \in request[r].holds
      /\ request[r].op = "resend" => ~user.verified
      /\ LiveTokens(kind) \subseteq request[r].holds
      /\ token[r].kind = "none"
      /\ kind \in Kinds /\ (kind = "verification" => request[r].op = "resend")
    BY <1>1 DEF Fits, IssueFits, MayResend, AuthInv, Rows, KindOf, Kinds
<1>3. /\ token' = [t \in Requests |->
                     IF t = r
                        THEN [kind |-> kind, live |-> TRUE, age |-> "fresh"]
                        ELSE [token[t] EXCEPT !.live =
                                token[t].live /\ t \notin request[r].holds]]
      /\ mail' = mail \cup {<<kind, r>>}
    BY DEF CommitIssue
<1> HIDE DEF kind
<1>4. /\ token' \in [Requests -> Token]
      /\ token'[r].kind = kind /\ token'[r].live
      /\ \A t \in Requests \ {r} :
            /\ token'[t].kind = token[t].kind
            /\ token'[t].live <=> token[t].live /\ t \notin request[r].holds
    <2>1. token \in [Requests -> Token]
        BY DEF AuthInv, TypeOK
    <2>2. [kind |-> kind, live |-> TRUE, age |-> "fresh"] \in Token
        BY <1>2 DEF Token, Ages
    <2>3. ASSUME NEW t \in Requests
          PROVE  LET new == [token[t] EXCEPT !.live =
                               token[t].live /\ t \notin request[r].holds]
                 IN  /\ new \in Token /\ new.kind = token[t].kind
                     /\ new.live <=> token[t].live /\ t \notin request[r].holds
        <3> DEFINE stays == token[t].live /\ t \notin request[r].holds
        <3>1. stays \in BOOLEAN /\ token[t] \in Token
            BY <2>1 DEF Token
        <3> HIDE DEF stays
        <3>2. /\ [token[t] EXCEPT !.live = stays] \in Token
              /\ [token[t] EXCEPT !.live = stays].kind = token[t].kind
              /\ [token[t] EXCEPT !.live = stays].live = stays
            BY <3>1 DEF Token
        <3> QED
            BY <3>2 DEF stays
    <2> QED
        BY <1>3, <2>2, <2>3
<1>5. TypeOK'
    <2>1. <<kind, r>> \in Mail \X Requests
        BY <1>2 DEF Mail
    <2>2. mail' \subseteq Mail \X Requests
        BY <1>3, <2>1 DEF AuthInv, TypeOK
    <2> QED
        BY <1>1, <1>4, <2>2, Ends DEF AuthInv, TypeOK
<1>6. (Exists' <=> Exists) /\ LiveSessions' = LiveSessions
    BY <1>1 DEF Exists, LiveSessions
<1>7. ASSUME NEW q \in Requests PROVE Fits(request[q])'
    <2>1. CASE q = r
        BY <1>1, <2>1, Ends DEF Fits, InOrder, EntryFits, IssueFits, UseFits
    <2>2. CASE q # r
        <3>1. /\ Fits(request[q]) /\ request'[q] = request[q] /\ request[q] \in Request
              /\ request[q].holds \cap request[r].holds = {}
            BY <1>1, <2>2, Ends DEF AuthInv, TypeOK, Locks
        <3>2. InOrder(request[q])' /\ EntryFits(request[q])'
            BY <1>1, <1>6, <3>1 DEF Fits, InOrder, EntryFits
        <3>3. IssueFits(request[q])'
            BY <1>2, <1>6, <3>1 DEF Fits, IssueFits
        <3>4. UseFits(request[q])'
            <4>1. ASSUME NEW a \in Requests, token[a].kind # "none"
                  PROVE  /\ token'[a].kind = token[a].kind
                         /\ a \in request[q].holds /\ token[a].live => token'[a].live
                BY <1>2, <1>4, <3>1, <4>1
            <4> QED
                BY <1>1, <1>6, <3>1, <4>1 DEF Fits, UseFits, InOrder, Request, Operations
        <3> QED
            BY <3>2, <3>3, <3>4 DEF Fits
    <2> QED
        BY <2>1, <2>2
<1>8. Rows'
    BY <1>1, <1>2, <1>4, <1>6, Ends DEF AuthInv, Rows, Kinds
<1>9. SingleTokens'
    BY <1>2, <1>4 DEF AuthInv, SingleTokens, LiveTokens
<1>10. VerifiedEndsVerification'
    BY <1>1, <1>2, <1>4 DEF AuthInv, VerifiedEndsVerification, LiveTokens
<1>11. Mails'
    <2>1. ASSUME NEW k \in Kinds, NEW q \in Requests
          PROVE  <<k, q>> \in mail' <=> token'[q].kind = k
        BY <1>2, <1>3, <1>4 DEF AuthInv, Mails, Kinds
    <2>2. \A q \in Requests : <<"welcome", q>> \in mail' <=> <<"welcome", q>> \in mail
        BY <1>2, <1>3 DEF Kinds
    <2> QED
        BY <1>1, <2>1, <2>2 DEF AuthInv, Mails
<1>12. OnlyOvertakenLoginsSurviveReset'
    BY <1>1, <1>6 DEF AuthInv, OnlyOvertakenLoginsSurviveReset
<1> QED
    BY <1>1, <1>5, <1>7, <1>8, <1>9, <1>10, <1>11, <1>12, Ends DEF AuthInv

\* Consuming the token that r holds.
LEMMA Consumed ==
    ASSUME AuthInv, NEW r \in Requests, NEW a \in Requests,
           token' = [token EXCEPT ![a].live = FALSE]
    PROVE  /\ token' \in [Requests -> Token]
           /\ \A t \in Requests : /\ token'[t].kind = token[t].kind
                                  /\ token'[t].live <=> token[t].live /\ t # a
<1>1. token \in [Requests -> Token]
    BY DEF AuthInv, TypeOK
<1> QED
    BY <1>1 DEF Token

LEMMA CommitVerifyStep ==
    ASSUME AuthInv, NEW r \in Requests, CommitVerify(r)
    PROVE  AuthInv'
<1> DEFINE a == request[r].arg
<1>1. /\ request[r] \in Request /\ Fits(request[r])
      /\ request[r].op = "verify" /\ request[r].pc = "commit"
      /\ Answer(r) /\ UNCHANGED session
      /\ token' = [token EXCEPT ![a].live = FALSE]
    BY DEF AuthInv, TypeOK, CommitVerify, At
<1>2. /\ a \in Requests /\ a \in request[r].holds
      /\ token[a].live /\ token[a].kind = "verification"
      /\ request[r].first <=> ~user.verified
      /\ request[r].first => "user" \in request[r].holds
      /\ Exists
    BY <1>1 DEF Fits, UseFits, AuthInv, Rows
<1> HIDE DEF a
<1>3. user' \in User /\ user'.hash = user.hash /\ user'.verified
    BY DEF AuthInv, TypeOK, User, CommitVerify
<1>4. /\ token' \in [Requests -> Token]
      /\ \A t \in Requests : /\ token'[t].kind = token[t].kind
                             /\ token'[t].live <=> token[t].live /\ t # a
    BY <1>1, <1>2, Consumed
<1>5. mail' = IF request[r].first THEN mail \cup {<<"welcome", r>>} ELSE mail
    BY DEF CommitVerify
<1>6. TypeOK'
    BY <1>1, <1>3, <1>4, <1>5, Ends DEF AuthInv, TypeOK, Mail
<1>7. (Exists' <=> Exists) /\ LiveSessions' = LiveSessions
      /\ \A kind : LiveTokens(kind)' \subseteq LiveTokens(kind)
    BY <1>1, <1>3, <1>4 DEF Exists, LiveSessions, LiveTokens
<1>8. ASSUME NEW q \in Requests PROVE Fits(request[q])'
    <2>1. CASE q = r
        BY <1>1, <2>1, Ends DEF Fits, InOrder, EntryFits, IssueFits, UseFits
    <2>2. CASE q # r
        <3>1. /\ Fits(request[q]) /\ request'[q] = request[q] /\ request[q] \in Request
              /\ request[q].holds \cap request[r].holds = {}
            BY <1>1, <2>2, Ends DEF AuthInv, TypeOK, Locks
        <3>2. InOrder(request[q])' /\ EntryFits(request[q])'
            BY <1>7, <3>1 DEF Fits, InOrder, EntryFits
        <3>3. ~("user" \in request[q].holds /\ ~user.verified)
            BY <1>2, <3>1
        <3>4. IssueFits(request[q])'
            BY <1>7, <3>1, <3>3 DEF Fits, IssueFits, MayResend
        <3>5. UseFits(request[q])'
            BY <1>1, <1>2, <1>3, <1>4, <1>7, <3>1, <3>3
            DEF Fits, UseFits, InOrder, Request, Operations
        <3> QED
            BY <3>2, <3>4, <3>5 DEF Fits
    <2> QED
        BY <2>1, <2>2
<1>9. Rows'
    BY <1>1, <1>2, <1>4, <1>7, Ends DEF AuthInv, Rows
<1>10. SingleTokens' /\ VerifiedEndsVerification'
    BY <1>2, <1>4 DEF AuthInv, SingleTokens, VerifiedEndsVerification, LiveTokens
<1>11. Mails'
    <2>1. ASSUME NEW k \in Kinds, NEW q \in Requests
          PROVE  <<k, q>> \in mail' <=> token'[q].kind = k
        BY <1>4, <1>5 DEF AuthInv, Mails, Kinds
    <2>2. Mails /\ <<"welcome", r>> \in Mail \X Requests
        BY DEF AuthInv, Mail
    <2> QED
        BY <1>2, <1>3, <1>5, <2>1, <2>2 DEF Mails
<1>12. OnlyOvertakenLoginsSurviveReset'
    BY <1>1, <1>3, <1>7 DEF AuthInv, OnlyOvertakenLoginsSurviveReset
<1> QED
    BY <1>1, <1>6, <1>8, <1>9, <1>10, <1>11, <1>12, Ends DEF AuthInv

LEMMA CommitResetStep ==
    ASSUME AuthInv, NEW r \in Requests, CommitReset(r)
    PROVE  AuthInv'
<1> DEFINE a == request[r].arg
           h == [pw |-> request[r].pw, outdated |-> FALSE, by |-> r]
<1>1. /\ request[r] \in Request /\ Fits(request[r])
      /\ request[r].op = "reset" /\ request[r].pc = "commit"
      /\ Answer(r) /\ UNCHANGED mail
      /\ token' = [token EXCEPT ![a].live = FALSE]
      /\ user' = [user EXCEPT !.hash = {h}]
      /\ session' = [s \in Requests |-> IF s \in request[r].saw
                                           THEN Revoked(session[s])
                                           ELSE session[s]]
    BY DEF AuthInv, TypeOK, CommitReset, At
<1>2. /\ a \in Requests /\ a \in request[r].holds /\ "user" \in request[r].holds
      /\ \A s \in LiveSessions : s \in request[r].saw \/ session[s].late
      /\ Exists
    BY <1>1 DEF Fits, UseFits, AuthInv, Rows
<1>3. h \in Hash
    BY <1>1 DEF Hash, Request
<1> HIDE DEF a, h
<1>4. user' \in User /\ user'.hash = {h} /\ user'.verified = user.verified /\ Exists'
    BY <1>1, <1>3 DEF AuthInv, TypeOK, User, Exists
<1>5. /\ token' \in [Requests -> Token]
      /\ \A t \in Requests : /\ token'[t].kind = token[t].kind
                             /\ token'[t].live <=> token[t].live /\ t # a
    BY <1>1, <1>2, Consumed
<1>6. /\ session' \in [Requests -> Session]
      /\ \A s \in Requests : session'[s].state = "none" <=> session[s].state = "none"
      /\ \A s \in LiveSessions' : /\ s \in LiveSessions /\ s \notin request[r].saw
                                  /\ session'[s] = session[s]
    <2>1. session \in [Requests -> Session]
        BY DEF AuthInv, TypeOK
    <2> QED
        BY <1>1, <2>1, RevokedType DEF LiveSessions
<1>7. TypeOK'
    BY <1>1, <1>4, <1>5, <1>6, Ends DEF AuthInv, TypeOK
<1>8. \A kind : LiveTokens(kind)' \subseteq LiveTokens(kind)
    BY <1>5 DEF LiveTokens
<1>9. ASSUME NEW q \in Requests PROVE Fits(request[q])'
    <2>1. CASE q = r
        BY <1>1, <2>1, Ends DEF Fits, InOrder, EntryFits, IssueFits, UseFits
    <2>2. CASE q # r
        <3>1. /\ Fits(request[q]) /\ request'[q] = request[q] /\ request[q] \in Request
              /\ request[q].holds \cap request[r].holds = {}
            BY <1>1, <2>2, Ends DEF AuthInv, TypeOK, Locks
        <3>2. InOrder(request[q])' /\ EntryFits(request[q])'
            BY <1>2, <1>4, <3>1 DEF Fits, InOrder, EntryFits
        <3>3. IssueFits(request[q])'
            BY <1>2, <1>4, <3>1 DEF Fits, IssueFits
        <3>4. UseFits(request[q])'
            BY <1>1, <1>2, <1>4, <1>5, <3>1
            DEF Fits, UseFits, InOrder, Request, Operations
        <3> QED
            BY <3>2, <3>3, <3>4 DEF Fits
    <2> QED
        BY <2>1, <2>2
<1>10. Rows'
    BY <1>1, <1>2, <1>4, <1>5, <1>6, Ends DEF AuthInv, Rows
<1>11. SingleTokens'
    BY <1>5 DEF AuthInv, SingleTokens
<1>12. VerifiedEndsVerification'
    BY <1>4, <1>8 DEF AuthInv, VerifiedEndsVerification
<1>13. Mails'
    <2>1. Mails
        BY DEF AuthInv
    <2> QED
        BY <1>1, <1>4, <1>5, <2>1 DEF Mails
<1>14. OnlyOvertakenLoginsSurviveReset'
    BY <1>2, <1>6 DEF OnlyOvertakenLoginsSurviveReset
<1> QED
    BY <1>1, <1>7, <1>9, <1>10, <1>11, <1>12, <1>13, <1>14, Ends DEF AuthInv

-----------------------------------------------------------------------------
(* Every step keeps the invariant.                                         *)

LEMMA RequestStepHolds ==
    ASSUME AuthInv, NEW r \in Requests, RequestStep(r) \/ Abort(r)
    PROVE  AuthInv'
BY CommitSignupStep, RehashStep, OpenSessionStep, CheckResendStep, LockUserStep,
   RetireStep, CommitIssueStep, ConsumeStep, MarkStep, CommitVerifyStep,
   UpdatePasswordStep, RevokeStep, CommitResetStep, AbortStep
DEF RequestStep, BreakDeadlock

LEMMA StartHolds ==
    ASSUME AuthInv, NEW r \in Requests, Start(r)
    PROVE  AuthInv'
BY SignupStep, LoginStep, ForgotStep, ResendStep, VerifyStep, ResetStep DEF Start

LEMMA AuthInvNext == AuthInv /\ [Next]_vars => AuthInv'
<1> SUFFICES ASSUME AuthInv, [Next]_vars PROVE AuthInv'
    OBVIOUS
<1>1. ASSUME NEW s \in Requests, Logout(s) PROVE AuthInv'
    <2>1. session' = [t \in Requests |-> IF t \in {s} THEN Revoked(session[t])
                                                      ELSE session[t]]
        BY <1>1 DEF AuthInv, TypeOK, Logout
    <2> QED
        BY <1>1, <2>1, LogoutStep DEF Logout
<1>2. CASE LogoutAll
    <2>1. session' = [t \in Requests |-> IF t \in Requests THEN Revoked(session[t])
                                                           ELSE session[t]]
        BY <1>2 DEF LogoutAll
    <2> QED
        BY <1>2, <2>1, LogoutStep DEF LogoutAll
<1>3. CASE UNCHANGED vars
    <2>1. session \in [Requests -> Session]
        BY DEF AuthInv, TypeOK
    <2> QED
        BY <1>3, <2>1, Ended DEF vars
<1> QED
    BY <1>1, <1>2, <1>3, RequestStepHolds, StartHolds, GrowOldStep, RaiseCostStep
    DEF Next

-----------------------------------------------------------------------------
(* What an action may do, from the invariant.                              *)

\* AuthInv holds in every reachable state.
THEOREM AuthInvariance == Spec => []AuthInv
BY AuthInvInit, AuthInvNext, PTL DEF Spec

\* The types of the rows and of the requests.
THEOREM TypeCorrect == Spec => []TypeOK
<1>1. AuthInv => TypeOK
    BY DEF AuthInv
<1> QED
    BY <1>1, AuthInvariance, PTL

LEMMA OneLive == AuthInv => OneLiveToken
<1> SUFFICES ASSUME AuthInv, NEW kind \in Kinds
             PROVE  Cardinality(LiveTokens(kind)) <= 1
    BY DEF OneLiveToken
<1>1. CASE LiveTokens(kind) = {}
    BY <1>1, FS_EmptySet
<1>2. ASSUME NEW t \in LiveTokens(kind) PROVE Cardinality(LiveTokens(kind)) <= 1
    <2>1. LiveTokens(kind) = {t}
        BY DEF AuthInv, SingleTokens, LiveTokens
    <2> QED
        BY <2>1, FS_Singleton
<1> QED
    BY <1>1, <1>2

\* At most one usable token of a kind, for any number of concurrent requests:
\* the row lock of createToken (lockUserSQL) is enough.
THEOREM TokensAreSingle == Spec => []OneLiveToken
BY OneLive, AuthInvariance, PTL

\* A verified address keeps no usable verification link (VerifyEmail,
\* ResendVerification).
THEOREM VerificationEnds == Spec => []VerifiedEndsVerification
<1>1. AuthInv => VerifiedEndsVerification
    BY DEF AuthInv
<1> QED
    BY <1>1, AuthInvariance, PTL

LEMMA MailsMatch == AuthInv => MailMatchesRows
<1> SUFFICES ASSUME AuthInv PROVE MailMatchesRows
    OBVIOUS
<1> DEFINE W == {r \in Requests : <<"welcome", r>> \in mail}
<1>1. CASE user.verified
    <2>1. PICK r \in Requests : <<"welcome", r>> \in mail
        BY <1>1 DEF AuthInv, Mails
    <2>2. W = {r}
        BY <2>1 DEF AuthInv, Mails
    <2>3. Cardinality({r}) = 1
        BY FS_Singleton
    <2> QED
        BY <1>1, <2>2, <2>3 DEF AuthInv, Mails, MailMatchesRows
<1>2. CASE ~user.verified
    <2>1. W = {}
        BY <1>2 DEF AuthInv, Mails
    <2>2. Cardinality(W) = 0
        BY <2>1, FS_EmptySet
    <2> QED
        BY <1>2, <2>2 DEF AuthInv, Mails, MailMatchesRows
<1> QED
    BY <1>1, <1>2

\* Every token has its mail and every mail its token, and one welcome mail is
\* enqueued exactly when the address is verified (InTx around row and job).
THEOREM MailsMatchRows == Spec => []MailMatchesRows
BY MailsMatch, AuthInvariance, PTL

\* A session survives a password reset only if its login was overtaken by it.
THEOREM ResetEndsSessions == Spec => []OnlyOvertakenLoginsSurviveReset
<1>1. AuthInv => OnlyOvertakenLoginsSurviveReset
    BY DEF AuthInv
<1> QED
    BY <1>1, AuthInvariance, PTL

\* Only statements, time and a release change users and tokens.
LEMMA Movers ==
    ASSUME Next
    PROVE  \/ \E r \in Requests : RequestStep(r)
           \/ \E t \in Requests : GrowOld(t)
           \/ RaiseCost
           \/ UNCHANGED <<user, token, mail>>
<1>1. ASSUME NEW r \in Requests, Start(r) PROVE UNCHANGED <<user, token, mail>>
    <2>1. ASSUME NEW p \in Passwords, Signup(r, p) PROVE UNCHANGED <<user, token, mail>>
        BY <2>1 DEF Signup
    <2>2. ASSUME NEW p \in Passwords, Login(r, p) PROVE UNCHANGED <<user, token, mail>>
        BY <2>2 DEF Login
    <2>3. ASSUME NEW t \in Requests, NEW p \in Passwords, ResetPassword(r, t, p)
          PROVE  UNCHANGED <<user, token, mail>>
        BY <2>3 DEF ResetPassword
    <2> QED
        BY <1>1, <2>1, <2>2, <2>3
        DEF Start, ForgotPassword, ResendVerification, VerifyEmail, UseToken
<1>2. ASSUME NEW r \in Requests, Abort(r) PROVE UNCHANGED <<user, token, mail>>
    BY <1>2 DEF Abort
<1>3. ASSUME NEW s \in Requests, Logout(s) PROVE UNCHANGED <<user, token, mail>>
    BY <1>3 DEF Logout
<1>4. ASSUME LogoutAll PROVE UNCHANGED <<user, token, mail>>
    BY <1>4 DEF LogoutAll
<1> QED
    BY <1>1, <1>2, <1>3, <1>4 DEF Next

\* A submitted token that takes effect was unconsumed (consumeToken).
THEOREM TokensTakeEffect == Spec => TokensTakeEffectOnce
<1> DEFINE Effect == \A r \in Requests :
                        /\ request[r].op \in {"verify", "reset"}
                        /\ request[r].pc = "commit"
                        /\ <<user, token, mail>>' # <<user, token, mail>>
                        /\ request'[r].pc = "done"
                        => token[request[r].arg].live
<1>1. AuthInv /\ [Next]_vars => [Effect]_vars
    BY DEF AuthInv, Fits, UseFits
<1> QED
    BY <1>1, AuthInvariance, PTL DEF Spec, TokensTakeEffectOnce

\* Only a reset changes the password: RehashPassword is conditional on the hash
\* that the login verified.
THEOREM PasswordsChangeByReset == Spec => OnlyResetChangesPassword
<1> DEFINE Reset == \A old \in user.hash, new \in user'.hash :
                       new.pw # old.pw => \E r \in Requests :
                                             /\ At(r, "reset", "commit")
                                             /\ request'[r].pc = "done"
<1>1. AuthInv /\ [Next]_vars => [Reset]_vars
    <2> SUFFICES ASSUME AuthInv, Next, NEW old \in user.hash, NEW new \in user'.hash,
                        new.pw # old.pw
                 PROVE  \E r \in Requests : /\ At(r, "reset", "commit")
                                            /\ request'[r].pc = "done"
        OBVIOUS
    <2>1. user.hash = {old} /\ user \in User
        BY HashType DEF AuthInv, TypeOK
    <2>2. user'.hash # user.hash
        BY <2>1
    <2>3. ASSUME NEW r \in Requests, CommitSignup(r) PROVE FALSE
        <3>1. Fits(request[r])
            BY DEF AuthInv
        <3> QED
            BY <2>1, <2>3, <3>1 DEF CommitSignup, At, Fits, EntryFits, Exists
    <2>4. ASSUME NEW r \in Requests, Rehash(r) PROVE FALSE
        <3>1. Fits(request[r])
            BY DEF AuthInv
        <3>2. old.pw = request[r].pw
            BY <2>1, <2>2, <2>4, <3>1 DEF Rehash, At, Fits, EntryFits
        <3>3. user' = [user EXCEPT !.hash = {[pw |-> request[r].pw,
                                              outdated |-> FALSE, by |-> r]}]
            BY <2>2, <2>4 DEF Rehash
        <3>4. new.pw = request[r].pw
            BY <2>1, <3>3 DEF User
        <3> QED
            BY <3>2, <3>4
    <2>5. ASSUME NEW r \in Requests, CommitVerify(r) PROVE FALSE
        BY <2>1, <2>2, <2>5 DEF CommitVerify, User
    <2>6. ASSUME RaiseCost PROVE FALSE
        <3>1. old \in Hash
            BY HashType DEF AuthInv
        <3>2. user'.hash = {[h EXCEPT !.outdated = TRUE] : h \in user.hash}
            BY <2>1, <2>6 DEF RaiseCost, User
        <3>3. new = [old EXCEPT !.outdated = TRUE]
            BY <2>1, <3>2
        <3> QED
            BY <3>1, <3>3 DEF Hash
    <2>7. ASSUME NEW r \in Requests, CommitReset(r)
          PROVE  At(r, "reset", "commit") /\ request'[r].pc = "done"
        BY <2>7, Ends DEF CommitReset
    <2>8. PICK r \in Requests : RequestStep(r)
        BY <2>2, <2>6, Movers DEF GrowOld
    <2>9. CommitReset(r)
        BY <2>2, <2>3, <2>4, <2>5, <2>8 DEF RequestStep, OpenSession, CheckResend,
           LockUser, Retire, CommitIssue, Consume, MarkEmailVerified,
           UpdatePasswordHash, RevokeUserSessions, BreakDeadlock, Abort
    <2> QED
        BY <2>7, <2>9
<1> QED
    BY <1>1, AuthInvariance, PTL DEF Spec, OnlyResetChangesPassword

\* No verification mail within the cooldown of another, however resends
\* interleave (GetUserForUpdate in ResendVerification).
THEOREM CooldownsHold == Spec => CooldownHolds
<1> DEFINE Cool == \A r \in Requests :
                      token[r].kind = "none" /\ token'[r].kind = "verification"
                         => \A t \in Requests : token[t].kind = "verification"
                                                   => token[t].age # "fresh"
<1>1. AuthInv /\ [Next]_vars => [Cool]_vars
    <2> SUFFICES ASSUME AuthInv, Next, NEW r \in Requests,
                        token[r].kind = "none", token'[r].kind = "verification"
                 PROVE  \A t \in Requests : token[t].kind = "verification"
                                               => token[t].age # "fresh"
        OBVIOUS
    <2>1. token \in [Requests -> Token]
        BY DEF AuthInv, TypeOK
    <2>2. ASSUME NEW q \in Requests, CommitSignup(q)
          PROVE  \A t \in Requests : token[t].kind = "none"
        <3>1. Fits(request[q])
            BY DEF AuthInv
        <3> QED
            BY <2>2, <3>1 DEF CommitSignup, At, Fits, EntryFits, AuthInv, Rows
    <2>3. ASSUME NEW q \in Requests, CommitIssue(q) PROVE MayResend
        <3>1. Fits(request[q])
            BY DEF AuthInv
        <3>2. q = r
            BY <2>1, <2>3 DEF CommitIssue, Token
        <3>3. token'[r].kind = KindOf(request[q].op)
            BY <2>3, <3>2 DEF CommitIssue
        <3> QED
            BY <2>3, <3>1, <3>3 DEF CommitIssue, KindOf, Fits, IssueFits
    <2>4. ASSUME NEW q \in Requests, CommitVerify(q) \/ CommitReset(q) PROVE FALSE
        BY <2>1, <2>4 DEF CommitVerify, CommitReset, Token
    <2>5. ASSUME NEW q \in Requests, GrowOld(q) PROVE FALSE
        BY <2>1, <2>5 DEF GrowOld, Token
    <2>6. token' # token
        OBVIOUS
    <2>7. PICK q \in Requests : RequestStep(q)
        BY <2>5, <2>6, Movers DEF RaiseCost
    <2>8. CommitSignup(q) \/ CommitIssue(q)
        BY <2>4, <2>6, <2>7 DEF RequestStep, Rehash, OpenSession, CheckResend,
           LockUser, Retire, Consume, MarkEmailVerified, UpdatePasswordHash,
           RevokeUserSessions, BreakDeadlock, Abort
    <2> QED
        BY <2>2, <2>3, <2>8 DEF MayResend
<1> QED
    BY <1>1, AuthInvariance, PTL DEF Spec, CooldownHolds


-----------------------------------------------------------------------------
(* Sessions end for good.                                                  *)

LEMMA RevokedStays ==
    ASSUME AuthInv, [Next]_vars, NEW s \in Requests, session[s].state = "revoked"
    PROVE  session'[s].state = "revoked"
<1>1. session \in [Requests -> Session]
    BY DEF AuthInv, TypeOK
<1>2. ASSUME NEW r \in Requests, CommitSignup(r) \/ OpenSession(r)
      PROVE  session'[s].state = "revoked"
    <2>1. s # r
        BY <1>2 DEF CommitSignup, OpenSession, At, AuthInv, Rows
    <2> QED
        BY <1>1, <1>2, <2>1 DEF CommitSignup, OpenSession
<1>3. ASSUME NEW r \in Requests, CommitReset(r)
      PROVE  session'[s].state = "revoked"
    BY <1>3 DEF CommitReset, Revoked
<1>4. ASSUME NEW t \in Requests, Logout(t)
      PROVE  session'[s].state = "revoked"
    BY <1>1, <1>4 DEF Logout
<1>5. CASE LogoutAll
    BY <1>5 DEF LogoutAll, Revoked
<1>6. CASE UNCHANGED session
    BY <1>6
<1>7. ASSUME NEW r \in Requests, Start(r) PROVE UNCHANGED session
    <2>1. ASSUME NEW p \in Passwords, Signup(r, p) \/ Login(r, p)
          PROVE  UNCHANGED session
        BY <2>1 DEF Signup, Login
    <2>2. ASSUME NEW t \in Requests, NEW p \in Passwords, ResetPassword(r, t, p)
          PROVE  UNCHANGED session
        BY <2>2 DEF ResetPassword
    <2> QED
        BY <1>7, <2>1, <2>2
        DEF Start, ForgotPassword, ResendVerification, VerifyEmail, UseToken
<1>8. ASSUME NEW r \in Requests, RequestStep(r)
      PROVE  \/ CommitSignup(r) \/ OpenSession(r) \/ CommitReset(r)
             \/ UNCHANGED session
    BY <1>8 DEF RequestStep, Rehash, CheckResend, LockUser, Retire, CommitIssue,
       Consume, MarkEmailVerified, CommitVerify, UpdatePasswordHash,
       RevokeUserSessions, BreakDeadlock, Abort
<1> QED
    BY <1>2, <1>3, <1>4, <1>5, <1>6, <1>7, <1>8 DEF Next, Abort, GrowOld, RaiseCost, vars

-----------------------------------------------------------------------------
(* The calls.                                                              *)

\* A call past its session check has a session; one that came with an ended
\* session has not come past the check, and its session is still ended.
CallFits(c) ==
    /\ caller[c].pc \notin {"idle", "arrived", "answered"} => caller[c].cookie \in Requests
    /\ caller[c].dead =>
          /\ caller[c].pc = "arrived"
          /\ caller[c].cookie \in Requests =>
                caller[c].cookie \in expired \/ session[caller[c].cookie].state = "revoked"

SessionInv ==
    /\ AuthInv
    /\ expired \subseteq Requests
    /\ caller \in [Callers -> Caller]
    /\ \A c \in Callers : CallFits(c)

\* What a call may become.
LEMMA CallTypes ==
    /\ NoCall \in Caller /\ [NoCall EXCEPT !.pc = "answered"] \in Caller
    /\ ~NoCall.dead /\ NoCall.pc = "idle"
    /\ [NoCall EXCEPT !.pc = "answered"].pc = "answered"
    /\ ~[NoCall EXCEPT !.pc = "answered"].dead
BY DEF NoCall, Caller

LEMMA AnswerHolds ==
    ASSUME SessionInv, NEW c \in Callers, AnswerCall(c)
    PROVE  /\ caller' \in [Callers -> Caller]
           /\ caller'[c].pc = "answered" /\ ~caller'[c].dead
           /\ \A d \in Callers \ {c} : caller'[d] = caller[d]
BY CallTypes DEF SessionInv, AnswerCall

LEMMA StepHolds ==
    ASSUME SessionInv, NEW c \in Callers,
           NEW pc \in Handlers \cup {"due", "recent"}, Step(c, pc),
           caller[c].cookie \in Requests, ~caller[c].dead
    PROVE  /\ caller' \in [Callers -> Caller]
           /\ caller'[c].cookie \in Requests /\ ~caller'[c].dead
           /\ \A d \in Callers \ {c} : caller'[d] = caller[d]
<1>1. caller[c] \in Caller
    BY DEF SessionInv
<1>2. /\ [caller[c] EXCEPT !.pc = pc] \in Caller
      /\ [caller[c] EXCEPT !.pc = pc].cookie = caller[c].cookie
      /\ [caller[c] EXCEPT !.pc = pc].dead = caller[c].dead
    BY <1>1 DEF Caller
<1> QED
    BY <1>2 DEF SessionInv, Step

\* A step of the table that is one of AuthTokens, or none, and of one call.
LEMMA CallHolds ==
    ASSUME SessionInv, [Next]_vars, expired \subseteq expired', expired' \subseteq Requests,
           NEW c \in Callers, caller' \in [Callers -> Caller],
           \/ caller'[c].pc = "answered" /\ ~caller'[c].dead
           \/ caller'[c].cookie \in Requests /\ ~caller'[c].dead,
           \A d \in Callers \ {c} : caller'[d] = caller[d]
    PROVE  SessionInv'
<1>1. AuthInv'
    BY AuthInvNext DEF SessionInv
<1>2. \A s \in Requests : session[s].state = "revoked" => session'[s].state = "revoked"
    BY RevokedStays DEF SessionInv
<1>3. \A d \in Callers : CallFits(d)'
    BY <1>2 DEF SessionInv, CallFits
<1> QED
    BY <1>1, <1>3 DEF SessionInv

\* No caller moves.
LEMMA CallsRest ==
    ASSUME SessionInv, [Next]_vars, expired \subseteq expired', expired' \subseteq Requests,
           UNCHANGED caller
    PROVE  SessionInv'
<1>1. AuthInv'
    BY AuthInvNext DEF SessionInv
<1>2. \A s \in Requests : session[s].state = "revoked" => session'[s].state = "revoked"
    BY RevokedStays DEF SessionInv
<1>3. \A d \in Callers : CallFits(d)'
    BY <1>2 DEF SessionInv, CallFits
<1> QED
    BY <1>1, <1>3 DEF SessionInv

-----------------------------------------------------------------------------
(* Every step of the endpoints is a step of AuthTokens, or of no row.      *)

LEMMA EndpointsRefine ==
    ASSUME SessionInv, [SessionNext]_sessionVars
    PROVE  [Next]_vars
<1>1. session \in [Requests -> Session]
    BY DEF SessionInv, AuthInv, TypeOK
<1>2. CASE Anonymous
    BY <1>2 DEF Anonymous, Next, Start
<1>3. ASSUME NEW c \in Callers, CallLogout(c) PROVE [Next]_vars
    <2> DEFINE s == caller[c].cookie
    <2>1. s \in Requests
        BY <1>3 DEF SessionInv, CallFits, CallLogout
    <2>2. session' = [session EXCEPT ![s] = Revoked(session[s])]
          /\ UNCHANGED <<user, token, mail, request>>
        BY <1>3 DEF CallLogout
    <2> HIDE DEF s
    <2>3. CASE session[s].state = "live"
        BY <2>1, <2>2, <2>3 DEF Next, Logout
    <2>4. CASE session[s].state # "live"
        <3>1. session' = session
            BY <1>1, <2>1, <2>2, <2>4 DEF Revoked
        <3> QED
            BY <2>2, <3>1 DEF vars
    <2> QED
        BY <2>3, <2>4
<1>4. ASSUME NEW c \in Callers, CallLogoutAll(c) PROVE [Next]_vars
    <2>1. /\ session' = [s \in Requests |-> Revoked(session[s])]
          /\ UNCHANGED <<user, token, mail, request>>
        BY <1>4 DEF CallLogoutAll
    <2>2. CASE LiveSessions # {}
        BY <2>1, <2>2 DEF Next, LogoutAll
    <2>3. CASE LiveSessions = {}
        <3>1. \A s \in Requests : Revoked(session[s]) = session[s]
            BY <2>3 DEF LiveSessions, Revoked
        <3>2. session' = session
            BY <1>1, <2>1, <3>1
        <3> QED
            BY <2>1, <3>2 DEF vars
    <2> QED
        BY <2>2, <2>3
<1>5. ASSUME NEW c \in Callers, NEW r \in Requests, CallResend(c, r) PROVE [Next]_vars
    BY <1>5 DEF CallResend, Next, Start
<1>6. ASSUME NEW c \in Callers, CallStep(c) PROVE [Next]_vars
    BY <1>3, <1>4, <1>5, <1>6 DEF CallStep, Resolve, Touch, Me
<1> QED
    BY <1>2, <1>6 DEF SessionNext, Arrive, FailCall, Expire, sessionVars

LEMMA SessionInvInit == SessionInit => SessionInv
<1> SUFFICES ASSUME SessionInit PROVE SessionInv
    OBVIOUS
<1>1. AuthInv
    BY AuthInvInit DEF SessionInit
<1>2. caller \in [Callers -> Caller] /\ \A c \in Callers : CallFits(c)
    BY CallTypes DEF SessionInit, CallFits
<1> QED
    BY <1>1, <1>2 DEF SessionInit, SessionInv

LEMMA SessionInvNext == SessionInv /\ [SessionNext]_sessionVars => SessionInv'
<1> SUFFICES ASSUME SessionInv, [SessionNext]_sessionVars PROVE SessionInv'
    OBVIOUS
<1>1. [Next]_vars /\ expired \subseteq Requests
    BY EndpointsRefine DEF SessionInv
<1>2. CASE Anonymous
    BY <1>1, <1>2, CallsRest DEF Anonymous
<1>3. ASSUME NEW c \in Callers, NEW s \in Requests \cup {NoRequest}, Arrive(c, s)
      PROVE  SessionInv'
    <2> DEFINE new == [pc |-> "arrived", cookie |-> s,
                       dead |-> s = NoRequest \/ ~Usable(s)]
    <2>1. new \in Caller
        BY DEF Caller
    <2>2. caller' \in [Callers -> Caller] /\ caller'[c] = new
          /\ \A d \in Callers \ {c} : caller'[d] = caller[d]
        BY <1>3, <2>1 DEF Arrive, SessionInv
    <2>3. s \in Requests /\ ~Usable(s) => s \in expired \/ session[s].state = "revoked"
        BY <1>3, AuthAssumption DEF Usable, Arrive, SessionInv, AuthInv, TypeOK, Session
    <2>4. UNCHANGED <<vars, expired>>
        BY <1>3 DEF Arrive
    <2>5. CallFits(c)'
        <3>1. /\ caller'[c].pc = "arrived"
              /\ caller'[c].cookie = s
              /\ caller'[c].dead = (s = NoRequest \/ ~Usable(s))
            <4>1. /\ new.pc = "arrived"
                  /\ new.cookie = s
                  /\ new.dead = (s = NoRequest \/ ~Usable(s))
                OBVIOUS
            <4> HIDE DEF new
            <4> QED
                BY <2>2, <4>1
        <3>2. session' = session /\ expired' = expired
            BY <2>4 DEF vars
        <3>3. CASE s = NoRequest
            BY <3>1, <3>3, AuthAssumption DEF CallFits
        <3>4. CASE s # NoRequest
            BY <2>3, <3>1, <3>2, <3>4 DEF CallFits
        <3> QED
            BY <3>3, <3>4
    <2>6. \A d \in Callers \ {c} : CallFits(d)'
        BY <2>2, <2>4 DEF CallFits, vars, SessionInv
    <2>7. AuthInv'
        BY <1>1, AuthInvNext DEF SessionInv
    <2> QED
        BY <2>2, <2>4, <2>5, <2>6, <2>7 DEF SessionInv
<1>4. ASSUME NEW c \in Callers, Resolve(c) PROVE SessionInv'
    <2>1. UNCHANGED expired
        BY <1>4 DEF Resolve
    <2>2. CASE AnswerCall(c)
        BY <1>1, <2>1, <2>2, AnswerHolds, CallHolds
    <2>3. ASSUME caller[c].cookie # NoRequest, Usable(caller[c].cookie),
                 NEW seen \in {"due", "recent"}, Step(c, seen)
          PROVE  SessionInv'
        <3>1. caller[c] \in Caller /\ CallFits(c)
            BY DEF SessionInv
        <3>2. caller[c].cookie \in Requests /\ ~caller[c].dead
            BY <2>3, <3>1 DEF Caller, CallFits, Usable
        <3> QED
            BY <1>1, <2>1, <2>3, <3>2, StepHolds, CallHolds
    <2> QED
        BY <1>4, <2>2, <2>3 DEF Resolve
<1>5. ASSUME NEW c \in Callers, NEW handler \in Handlers, Touch(c, handler)
      PROVE  SessionInv'
    <2>1. caller[c].cookie \in Requests /\ ~caller[c].dead
        BY <1>5 DEF SessionInv, CallFits, Touch
    <2> QED
        BY <1>1, <1>5, <2>1, StepHolds, CallHolds DEF Touch
<1>6. ASSUME NEW c \in Callers,
             Me(c) \/ CallLogout(c) \/ CallLogoutAll(c) \/ FailCall(c)
                \/ \E r \in Requests : CallResend(c, r)
      PROVE  SessionInv'
    <2>1. AnswerCall(c) /\ UNCHANGED expired
        BY <1>6 DEF Me, CallLogout, CallLogoutAll, FailCall, CallResend
    <2> QED
        BY <1>1, <2>1, AnswerHolds, CallHolds
<1>7. ASSUME NEW s \in Requests, Expire(s) PROVE SessionInv'
    BY <1>1, <1>7, CallsRest DEF Expire
<1>8. CASE UNCHANGED sessionVars
    BY <1>1, <1>8, CallsRest DEF sessionVars
<1> QED
    BY <1>2, <1>3, <1>4, <1>5, <1>6, <1>7, <1>8 DEF SessionNext, CallStep

-----------------------------------------------------------------------------
\* SessionInv holds in every reachable state.
THEOREM SessionInvariance == SessionSpec => []SessionInv
BY SessionInvInit, SessionInvNext, PTL DEF SessionSpec

\* The types of the rows, the requests and the calls.
THEOREM SessionTypes == SessionSpec => []SessionTypeOK
<1>1. SessionInv => SessionTypeOK
    BY DEF SessionInv, SessionTypeOK, AuthInv
<1> QED
    BY <1>1, SessionInvariance, PTL

\* The endpoints behind RequireSession keep every promise of AuthTokens.
THEOREM EndpointsImplementTokens == SessionSpec => Spec
<1>1. SessionInit => Init
    BY DEF SessionInit
<1>2. SessionInv /\ [SessionNext]_sessionVars => [Next]_vars
    BY EndpointsRefine
<1> QED
    BY <1>1, <1>2, SessionInvariance, PTL DEF SessionSpec, Spec

\* A call with an ended session runs no handler (RequireSession).
THEOREM EndedSessionsAreRefused == SessionSpec => []EndedSessionsServeNothing
<1>1. SessionInv => EndedSessionsServeNothing
    BY DEF SessionInv, CallFits, EndedSessionsServeNothing
<1> QED
    BY <1>1, SessionInvariance, PTL

\* No step of any endpoint revives a session (touchSessionSQL writes one
\* column).
THEOREM RevocationsAreFinal == SessionSpec => RevocationIsFinal
<1> DEFINE Stays == \A s \in Requests :
                       session[s].state = "revoked" => session'[s].state = "revoked"
<1>1. SessionInv /\ [SessionNext]_sessionVars => [Stays]_sessionVars
    <2> SUFFICES ASSUME SessionInv, [SessionNext]_sessionVars PROVE Stays
        OBVIOUS
    <2> QED
        BY EndpointsRefine, RevokedStays DEF SessionInv
<1> QED
    BY <1>1, SessionInvariance, PTL DEF SessionSpec, RevocationIsFinal

=============================================================================
