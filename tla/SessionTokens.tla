----------------------------- MODULE SessionTokens -----------------------------
(***************************************************************************)
(* Accounts and session tokens of the Auth Service (src/auth_service):     *)
(* POST /auth/register, the end of POST /auth/login and /auth/verify-otp   *)
(* that hands out a token, POST /auth/logout that puts the token on the    *)
(* Redis blacklist, GET /auth/current-user that checks it, and DELETE      *)
(* /auth/users/{email}.                                                    *)
(*                                                                         *)
(* A token is its claims: the same user, signed in twice within a second,  *)
(* gets the same string.  Time is in ticks, of which a second has several, *)
(* because tokens, the library that decodes them and Redis count in whole  *)
(* seconds.                                                                *)
(***************************************************************************)
EXTENDS Naturals

CONSTANTS
    RegisterReq, SignInReq, LogoutReq, CurrentReq, DeleteReq,   \* requests
    Emails,
    Second,         \* ticks in a second
    Life,           \* lifetime of a token, in ticks
    MaxTime,        \* bound on the clock
    None            \* a value that is not there

ASSUME ClockAssumption ==
    /\ {Second, Life} \subseteq Nat \ {0}
    /\ Life % Second = 0
    /\ MaxTime \in Nat
ASSUME NoneAssumption == None \notin [by : RegisterReq, email : Emails]

Account == [by : RegisterReq, email : Emails]   \* "by" stands for the user id
Token   == [sub : Emails, iat : Nat, exp : Nat]
Key     == [token : Token, until : Nat]

VARIABLES
    now,        \* the clock
    users,      \* table users
    blacklist,  \* Redis bl:{token}, with the time at which each key expires
    reg,        \* reg[r]: the coroutine of register request r
    sgn,        \* sgn[s]: that of a login or an OTP verification
    out,        \* out[l]: logout request l
    cur,        \* cur[q]: the coroutine of a /current-user request
    del         \* del[d]: that of a deletion

vars == <<now, users, blacklist, reg, sgn, out, cur, del>>

NoReply == 0
NoToken == [sub |-> None, iat |-> 0, exp |-> 0]

(***************************************************************************)
(* A registration that found its email free waits for the commit of its    *)
(* row ("commit"); a sign-in has its user and waits for the password       *)
(* check, the Risk Engine and the MFA Handler ("checks"); a /current-user  *)
(* request waits for the SELECT of its user ("select"); a deletion waits   *)
(* for the MFA Handler ("mfa") and for the commit.                         *)
(***************************************************************************)
RegisterIdle == [pc |-> "idle", email |-> None, reply |-> NoReply]
Registering  == [pc : {"commit", "done"}, email : Emails, reply : {NoReply, 201, 400, 500}]
SignInIdle   == [pc |-> "idle", user |-> None, token |-> NoToken]
SigningIn    == [pc : {"checks", "done"}, user : Account, token : Token \cup {NoToken}]
LogoutIdle   == [token |-> NoToken, at |-> 0, reply |-> NoReply]
LoggingOut   == [token : Token, at : Nat, reply : {200, 400, 401, 500}]
CurrentIdle  == [pc |-> "idle", token |-> NoToken, at |-> 0, user |-> None,
                 reply |-> NoReply]
Reading      == [pc : {"select", "done"}, token : Token, at : Nat,
                 user : Account \cup {None}, reply : {NoReply, 200, 401, 404, 500}]
DeleteIdle   == [pc |-> "idle", email |-> None, reply |-> NoReply]
Deleting     == [pc : {"mfa", "commit", "done"}, email : Emails,
                 reply : {NoReply, 200, 404, 500}]

\* Every variable has its type, and a key of the blacklist ends no later than
\* its token (logout_user).
TypeOK ==
    /\ now \in Nat
    /\ users \subseteq Account
    /\ blacklist \subseteq Key
    /\ \A k \in blacklist : k.until \in now .. k.token.exp
    /\ reg \in [RegisterReq -> Registering \cup {RegisterIdle}]
    /\ sgn \in [SignInReq -> SigningIn \cup {SignInIdle}]
    /\ out \in [LogoutReq -> LoggingOut \cup {LogoutIdle}]
    /\ cur \in [CurrentReq -> Reading \cup {CurrentIdle}]
    /\ del \in [DeleteReq -> Deleting \cup {DeleteIdle}]

Init ==
    /\ now = 0
    /\ users = {}
    /\ blacklist = {}
    /\ reg = [r \in RegisterReq |-> RegisterIdle]
    /\ sgn = [s \in SignInReq |-> SignInIdle]
    /\ out = [l \in LogoutReq |-> LogoutIdle]
    /\ cur = [q \in CurrentReq |-> CurrentIdle]
    /\ del = [d \in DeleteReq |-> DeleteIdle]

-----------------------------------------------------------------------------
(* Time, tokens and the blacklist *)

\* TtlBug, TtlRoundedUp and BlacklistWithBug are plausible slips in the
\* definition that follows each; nothing refers to them.

\* int() of a number of seconds, and the seconds of a time claim
WholeSeconds(t) == t - (t % Second)

\* create_access_token
NewToken(e) == [sub |-> e, iat |-> WholeSeconds(now), exp |-> WholeSeconds(now + Life)]

\* jose's decode looks at whole seconds, and lets the last one pass
Decodes(token) == WholeSeconds(now) <= token.exp

TtlBug(token) == WholeSeconds(now - token.iat)  \* the age for the time left
TtlRoundedUp(token) == WholeSeconds(token.exp - now) + Second
\* logout_user: how long the token stays on the blacklist, 0 included
Ttl(token) == WholeSeconds(token.exp - now)

Blacklisted(token) == \E b \in blacklist : b.token = token

BlacklistWithBug(token) == {[token |-> token, until |-> now + Ttl(token)]}
\* setex
BlacklistWith(token) ==
    {b \in blacklist : b.token # token}
        \cup {[token |-> token, until |-> now + Ttl(token)]}

Registered(e) == {u \in users : u.email = e}

\* tokens that clients hold
Issued == {sgn[s].token : s \in {x \in SignInReq : sgn[x].token # NoToken}}

\* what a step leaves in the state of its request
NewReg(e, code)      == [pc |-> IF code = NoReply THEN "commit" ELSE "done", email |-> e,
                         reply |-> code]
RegReply(k, code)    == [pc |-> "done", email |-> k.email, reply |-> code]
Answer(token, code)  == [token |-> token, at |-> now, reply |-> code]
InChecks(u)          == [pc |-> "checks", user |-> u, token |-> NoToken]
SignedIn(k)          == [pc |-> "done", user |-> k.user, token |-> NewToken(k.user.email)]
NewCur(token, reply) == [pc |-> IF reply = NoReply THEN "select" ELSE "done",
                         token |-> token, at |-> now, user |-> None, reply |-> reply]
CurReply(k, u, code) == [pc |-> "done", token |-> k.token, at |-> k.at, user |-> u,
                         reply |-> code]
NewDel(e, code)      == [pc |-> IF code = NoReply THEN "mfa" ELSE "done", email |-> e,
                         reply |-> code]
AfterMfa(k)          == [k EXCEPT !.pc = "commit"]
DelReply(k, code)    == [pc |-> "done", email |-> k.email, reply |-> code]

-----------------------------------------------------------------------------
(* POST /auth/register *)

\* the SELECT finds the email taken, or the row of a new user goes to the
\* database; or it fails
RegisterBegins(r, e) ==
    /\ reg[r].pc = "idle"
    /\ \E code \in {500, IF Registered(e) # {} THEN 400 ELSE NoReply} :
          reg' = [reg EXCEPT ![r] = NewReg(e, code)]
    /\ UNCHANGED <<now, users, blacklist, sgn, out, cur, del>>

\* the commit: the email is unique, and nobody catches the IntegrityError, nor
\* any other failure of the database
RegisterCommit(r) ==
    /\ reg[r].pc = "commit"
    /\ \/ /\ Registered(reg[r].email) = {}
          /\ users' = users \cup {[by |-> r, email |-> reg[r].email]}
          /\ reg' = [reg EXCEPT ![r] = RegReply(@, 201)]
       \/ /\ reg' = [reg EXCEPT ![r] = RegReply(@, 500)]
          /\ UNCHANGED users
    /\ UNCHANGED <<now, blacklist, sgn, out, cur, del>>

-----------------------------------------------------------------------------
(* POST /auth/login, /auth/verify-otp *)

\* get_user_by_email has returned the user
SignInBegins(s, u) ==
    /\ sgn[s].pc = "idle"
    /\ u \in users
    /\ sgn' = [sgn EXCEPT ![s] = InChecks(u)]
    /\ UNCHANGED <<now, users, blacklist, reg, out, cur, del>>

\* password, Risk Engine and MFA Handler agree: the user read at the start
\* gets a token
SignInToken(s) ==
    /\ sgn[s].pc = "checks"
    /\ sgn' = [sgn EXCEPT ![s] = SignedIn(@)]
    /\ UNCHANGED <<now, users, blacklist, reg, out, cur, del>>

-----------------------------------------------------------------------------
(* POST /auth/logout: one step, nothing in it waits *)

Answers(l, token, code) ==
    out' = [out EXCEPT ![l] = Answer(token, code)]

\* the token has time left, at least the second that Redis asks for
LogoutBlacklists(l, token) ==
    /\ out[l].reply = NoReply
    /\ Decodes(token)
    /\ token.exp > now
    /\ Ttl(token) > 0
    /\ blacklist' = BlacklistWith(token)
    /\ Answers(l, token, 200)
    /\ UNCHANGED <<now, users, reg, sgn, cur, del>>

\* less than a second is left: setex refuses a TTL of 0 and the request fails
LogoutTooLate(l, token) ==
    /\ out[l].reply = NoReply
    /\ Decodes(token)
    /\ token.exp > now
    /\ Ttl(token) = 0
    /\ Answers(l, token, 500)
    /\ UNCHANGED <<now, users, blacklist, reg, sgn, cur, del>>

\* nothing is left, or the library does not decode the token any more
LogoutRefused(l, token) ==
    /\ out[l].reply = NoReply
    /\ token.exp <= now
    /\ Answers(l, token, IF Decodes(token) THEN 400 ELSE 401)
    /\ UNCHANGED <<now, users, blacklist, reg, sgn, cur, del>>

-----------------------------------------------------------------------------
(* GET /auth/current-user *)

\* get_current_user up to its await: the blacklist, then the token itself
CurrentArrive(q, token) ==
    /\ cur[q].pc = "idle"
    /\ cur' = [cur EXCEPT ![q] =
           NewCur(token, IF Blacklisted(token) \/ ~ Decodes(token) THEN 401 ELSE NoReply)]
    /\ UNCHANGED <<now, users, blacklist, reg, sgn, out, del>>

\* the SELECT looks for the email the token names, or fails
CurrentSelect(q) ==
    /\ cur[q].pc = "select"
    /\ \/ \E u \in Registered(cur[q].token.sub) :
             cur' = [cur EXCEPT ![q] = CurReply(@, u, 200)]
       \/ /\ Registered(cur[q].token.sub) = {}
          /\ cur' = [cur EXCEPT ![q] = CurReply(@, None, 404)]
       \/ cur' = [cur EXCEPT ![q] = CurReply(@, None, 500)]
    /\ UNCHANGED <<now, users, blacklist, reg, sgn, out, del>>

-----------------------------------------------------------------------------
(* DELETE /auth/users/{email} *)

\* the user is looked up, which may fail; the MFA Handler is asked to forget
\* devices and logs
DeleteBegins(d, e) ==
    /\ del[d].pc = "idle"
    /\ \E code \in {500, IF Registered(e) = {} THEN 404 ELSE NoReply} :
          del' = [del EXCEPT ![d] = NewDel(e, code)]
    /\ UNCHANGED <<now, users, blacklist, reg, sgn, out, cur>>

\* the MFA Handler has answered, or has failed half-way: then the user stays
DeleteAsks(d) ==
    /\ del[d].pc = "mfa"
    /\ \/ del' = [del EXCEPT ![d] = AfterMfa(@)]
       \/ del' = [del EXCEPT ![d] = DelReply(@, 500)]
    /\ UNCHANGED <<now, users, blacklist, reg, sgn, out, cur>>

\* the DELETE goes by email: whoever has it by now; or it fails
DeleteCommit(d) ==
    /\ del[d].pc = "commit"
    /\ \/ /\ users' = users \ Registered(del[d].email)
          /\ del' = [del EXCEPT ![d] = DelReply(@, 200)]
       \/ /\ del' = [del EXCEPT ![d] = DelReply(@, 500)]
          /\ UNCHANGED users
    /\ UNCHANGED <<now, blacklist, reg, sgn, out, cur>>

-----------------------------------------------------------------------------
\* time passes; Redis drops the keys whose TTL has run out
Tick ==
    /\ now < MaxTime
    /\ now' = now + 1
    /\ blacklist' = {b \in blacklist : b.until > now + 1}
    /\ UNCHANGED <<users, reg, sgn, out, cur, del>>

LogoutNext(l) ==
    \E token \in Issued :
        LogoutBlacklists(l, token) \/ LogoutTooLate(l, token) \/ LogoutRefused(l, token)

Next ==
    \/ \E r \in RegisterReq : \/ \E e \in Emails : RegisterBegins(r, e)
                              \/ RegisterCommit(r)
    \/ \E s \in SignInReq : \/ \E u \in users : SignInBegins(s, u)
                            \/ SignInToken(s)
    \/ \E l \in LogoutReq : LogoutNext(l)
    \/ \E q \in CurrentReq : \/ \E token \in Issued : CurrentArrive(q, token)
                             \/ CurrentSelect(q)
    \/ \E d \in DeleteReq : \/ \E e \in Emails : DeleteBegins(d, e)
                            \/ DeleteAsks(d) \/ DeleteCommit(d)
    \/ Tick

Spec == Init /\ [][Next]_vars

-----------------------------------------------------------------------------
(* Correctness *)

\* a token that is on the blacklist, or whose last second has begun
HeldBack(token) == Blacklisted(token) \/ now + Second > token.exp

\* a logout was answered 200 for the token before time t
LoggedOutBefore(token, t) ==
    \E l \in LogoutReq : out[l].reply = 200 /\ out[l].token = token /\ out[l].at < t

\* A token that was logged out is refused by /current-user until the last
\* second of its life: int() on the TTL costs it less than one second, and a
\* second logout, the expiry of keys or a slow SELECT costs it nothing more.
RevokedUntilLastSecond ==
    \A q \in CurrentReq :
        (cur[q].reply = 200 /\ LoggedOutBefore(cur[q].token, cur[q].at))
            => cur[q].at + Second > cur[q].token.exp

\* Why: every logout that succeeded still holds its token back, a key lasts to
\* the last second of its token, and a request that passed the blacklist check
\* (it may still wait for its SELECT) passed it while that was so.
TokenInv ==
    /\ \A l \in LogoutReq : out[l].reply = 200 => HeldBack(out[l].token)
    /\ \A k \in blacklist : k.until + Second > k.token.exp
    /\ \A l \in LogoutReq : out[l].at <= now
    /\ \A q \in CurrentReq : cur[q].at <= now
    /\ \A q \in CurrentReq :
        (\/ cur[q].pc = "select"
         \/ cur[q].reply = 200) =>
            \/ ~ LoggedOutBefore(cur[q].token, cur[q].at)
            \/ cur[q].at + Second > cur[q].token.exp
===============================================================================
