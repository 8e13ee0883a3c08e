----------------------------- MODULE AuthService ------------------------------
(***************************************************************************)
(* The Auth Service (src/auth_service): POST /auth/login and /auth/verify- *)
(* otp, which call the Risk Engine and the MFA Handler, and the handlers   *)
(* that change accounts: register, change-password, the deletion of one    *)
(* user or of all.  Tokens and logout are the module SessionTokens.        *)
(*                                                                         *)
(* The answers of the two other services are parameters of the actions     *)
(* that receive them: here they are arbitrary, AdaptiveMfa supplies those  *)
(* of MfaHandler.  A call that times out may still arrive.                 *)
(***************************************************************************)
EXTENDS Naturals, FiniteSets

CONSTANTS
    CheckReq,      \* logins; a login is its event id
    VerifyReq,     \* requests to /auth/verify-otp
    ChangeReq,     \* requests to /auth/change-password
    DeleteReq,     \* requests to DELETE /auth/users/{email} and /users
    Users,         \* user ids; each is created by one registration
    Registered,    \* those whose rows are there from before the start
    Emails,
    EmailOf,       \* the address of each user id
    Devices,
    Passwords,
    Otps,
    Scores,        \* scores of the Risk Engine
    EVENT_EXPIRE,  \* lifetime of a cached event id, in ticks
    MaxTime,       \* bound on the clock
    None           \* a value that is not there

VARIABLES
    now,     \* the clock
    users,   \* table users: the password of each row, None without a row
    reg,     \* reg[u]: the registration that creates user id u
    mfaKey,  \* Redis mfa:{email}: the event id of a challenged login, or None
    login,   \* login[l]: the coroutine of login l
    ver,     \* ver[v]: the coroutine of verification v
    change,  \* change[c]: the coroutine of password change c
    del      \* del[x]: the coroutine of deletion x

requests == <<reg, login, ver, change, del>>
vars     == <<now, users, mfaKey, requests>>

NoReply == 0    \* no HTTP status yet

KeyEntry == [event : CheckReq, expires : Nat]

(***************************************************************************)
(* A login waits for the Risk Engine ("risk"), then for the MFA Handler    *)
(* ("check", with the score it sends).  A verification waits for its       *)
(* SELECT ("lookup"), then for the MFA Handler ("verify", with the event   *)
(* it sends).  A change waits for its UPDATE ("update").  A deletion waits *)
(* for the MFA Handler to forget devices ("devices") and logs ("logs"),    *)
(* then for its commit ("commit"); "call" is what it has asked to delete   *)
(* while that request is on its way, "todo" the users still to come.       *)
(***************************************************************************)
LoginIdle  == [pc |-> "idle", user |-> None, device |-> None, score |-> None,
               reply |-> NoReply]
VerIdle    == [pc |-> "idle", user |-> None, device |-> None, otp |-> None,
               event |-> None, reply |-> NoReply]
ChangeIdle == [pc |-> "idle", user |-> None, password |-> None, reply |-> NoReply]
DelIdle    == [pc |-> "idle", email |-> None, todo |-> {}, call |-> None,
               reply |-> NoReply]

LoginCoroutine == [pc : {"risk", "check", "done"}, user : Users \cup {None},
                   device : Devices, score : Scores \cup {None},
                   reply : {NoReply, 200, 202, 401, 500, 502}]
VerCoroutine   == [pc : {"lookup", "verify", "done"}, user : Users \cup {None},
                   device : Devices, otp : Otps, event : CheckReq \cup {None},
                   reply : {NoReply, 200, 400, 401, 404, 500, 502}]
ChangeCoroutine == [pc : {"update", "done"}, user : Users \cup {None},
                    password : Passwords, reply : {NoReply, 200, 404, 500}]
DelCoroutine   == [pc : {"devices", "logs", "commit", "done"},
                   email : Emails \cup {None}, todo : SUBSET Users,
                   call : Users \cup Emails \cup {None},
                   reply : {NoReply, 200, 404, 500}]

\* Every variable keeps its shape, and an address has at most one row.
TypeOK ==
    /\ now \in Nat
    /\ users \in [Users -> Passwords \cup {None}]
    /\ \A u, w \in Users : users[u] # None /\ users[w] # None
                              /\ EmailOf[u] = EmailOf[w] => u = w
    /\ reg \in [Users -> {"new", "commit", "done"}]
    /\ mfaKey \in [Emails -> KeyEntry \cup {None}]
    /\ login \in [CheckReq -> LoginCoroutine \cup {LoginIdle}]
    /\ ver \in [VerifyReq -> VerCoroutine \cup {VerIdle}]
    /\ change \in [ChangeReq -> ChangeCoroutine \cup {ChangeIdle}]
    /\ del \in [DeleteReq -> DelCoroutine \cup {DelIdle}]

Init ==
    /\ now = 0
    /\ users \in [Users -> Passwords \cup {None}]
    /\ \A u \in Users : users[u] # None <=> u \in Registered
    /\ reg = [u \in Users |-> IF u \in Registered THEN "done" ELSE "new"]
    /\ mfaKey = [e \in Emails |-> None]
    /\ login = [l \in CheckReq |-> LoginIdle]
    /\ ver = [v \in VerifyReq |-> VerIdle]
    /\ change = [c \in ChangeReq |-> ChangeIdle]
    /\ del = [x \in DeleteReq |-> DelIdle]

-----------------------------------------------------------------------------
(* Helpers; each operator named ...Bug is a plausible slip in the definition *)
(* that follows it, and nothing refers to it.                                *)

\* get_user_by_email: the row of the address, if there is one
Account(e) == {u \in Users : EmailOf[u] = e /\ users[u] # None}

\* the code that login_user answers for the code of /mfa/check
LoginCode(code) == IF code \in {200, 202} THEN code ELSE 502

KeysAfterBug(l, code) ==    \* the event id is cached before the answer is looked at
    [mfaKey EXCEPT ![EmailOf[login[l].user]] =
        [event |-> l, expires |-> now + EVENT_EXPIRE]]
KeysAfterKept(l, code) ==   \* a key that is there is not written again
    IF code = 202 /\ mfaKey[EmailOf[login[l].user]] = None
    THEN [mfaKey EXCEPT ![EmailOf[login[l].user]] =
             [event |-> l, expires |-> now + EVENT_EXPIRE]]
    ELSE mfaKey
\* redis.setex of the event id, for a login that was challenged
KeysAfter(l, code) ==
    IF code = 202
    THEN [mfaKey EXCEPT ![EmailOf[login[l].user]] =
             [event |-> l, expires |-> now + EVENT_EXPIRE]]
    ELSE mfaKey

VerifyCodeBug(code) ==      \* every answer but 401 carries on to the token
    IF code = 401 THEN 401 ELSE 200
\* the code that verify_otp answers for the code of /mfa/verify
VerifyCode(code) == IF code \in {200, 401} THEN code ELSE 502

AdvanceBug(k) ==            \* the loop goes over the same ids again
    IF k.pc = "devices" /\ k.email = None /\ k.todo # {}
    THEN {[k EXCEPT !.call = u] : u \in k.todo}
    ELSE IF k.pc = "devices" /\ k.email # None
    THEN {[k EXCEPT !.pc = "logs", !.call = k.email]}
    ELSE {[k EXCEPT !.pc = "commit"]}
\* how deletion k goes on once the MFA Handler has answered: with the devices
\* of the next user, with the logs (delete_user only), or with the users
Advance(k) ==
    IF k.todo # {}
    THEN {[k EXCEPT !.todo = @ \ {u}, !.call = u] : u \in k.todo}
    ELSE IF k.pc = "devices" /\ k.email # None
    THEN {[k EXCEPT !.pc = "logs", !.call = k.email]}
    ELSE {[k EXCEPT !.pc = "commit"]}

UsersUpdatedBug(u, p) ==    \* the row is written whole, as by session.merge
    [users EXCEPT ![u] = p]
\* UPDATE users, WHERE id = ...: no row when the user is gone by now
UsersUpdated(u, p) ==
    IF users[u] = None THEN users ELSE [users EXCEPT ![u] = p]

\* DELETE FROM users, WHERE email = ... for delete_user: whoever has the
\* address by now
UsersWithout(e) ==
    [u \in Users |-> IF e \in {None, EmailOf[u]} THEN None ELSE users[u]]

\* the answer ends a coroutine
WithReply(k, code) == [k EXCEPT !.pc = "done", !.reply = code]

LoginReplies(l, code)  == login' = [login EXCEPT ![l] = WithReply(@, code)]
VerReplies(v, code)    == ver' = [ver EXCEPT ![v] = WithReply(@, code)]
ChangeReplies(c, code) == change' = [change EXCEPT ![c] = WithReply(@, code)]

-----------------------------------------------------------------------------
(* register, and change-password *)

\* no row has the address yet; the user id is new
RegisterBegins(u) ==
    /\ reg[u] = "new"
    /\ reg' = [reg EXCEPT ![u] =
           IF Account(EmailOf[u]) = {} THEN "commit" ELSE "done"]
    /\ UNCHANGED <<now, users, mfaKey, login, ver, change, del>>

\* the row commits unless the column's uniqueness, or the database, is against it
RegisterCommits(u, p) ==
    /\ reg[u] = "commit"
    /\ reg' = [reg EXCEPT ![u] = "done"]
    /\ \/ /\ Account(EmailOf[u]) = {}
          /\ users' = [users EXCEPT ![u] = p]
       \/ UNCHANGED users
    /\ UNCHANGED <<now, mfaKey, login, ver, change, del>>

\* change_user_password looks the address up (404 without a row, 500 if the
\* SELECT fails) and starts its UPDATE
ChangeBegins(c, e, p) ==
    /\ change[c].pc = "idle"
    /\ \/ \E u \in Account(e) :
             change' = [change EXCEPT ![c] =
                 [pc |-> "update", user |-> u, password |-> p, reply |-> NoReply]]
       \/ /\ Account(e) = {}
          /\ \E code \in {404, 500} :
                change' = [change EXCEPT ![c] =
                    [pc |-> "done", user |-> None, password |-> p, reply |-> code]]
    /\ UNCHANGED <<now, users, mfaKey, reg, login, ver, del>>

\* the UPDATE commits, by the user id found before
ChangeCommits(c) ==
    /\ change[c].pc = "update"
    /\ users' = UsersUpdated(change[c].user, change[c].password)
    /\ ChangeReplies(c, 200)
    /\ UNCHANGED <<now, mfaKey, reg, login, ver, del>>

ChangeFails(c) ==
    /\ change[c].pc = "update"
    /\ ChangeReplies(c, 500)
    /\ UNCHANGED <<now, users, mfaKey, reg, login, ver, del>>

-----------------------------------------------------------------------------
(* login_user *)

\* the address has a row with this password: ask the Risk Engine
LoginBegins(l, e, d, p) ==
    /\ login[l].pc = "idle"
    /\ \E u \in Account(e) :
         /\ users[u] = p
         /\ login' = [login EXCEPT ![l] =
                [LoginIdle EXCEPT !.pc = "risk", !.user = u, !.device = d]]
    /\ UNCHANGED <<now, users, mfaKey, reg, ver, change, del>>

\* it has not: publish the attempt and answer 401, or 500 without the broker
LoginRefused(l, e, d, p) ==
    /\ login[l].pc = "idle"
    /\ \A u \in Account(e) : users[u] # p
    /\ \E code \in {401, 500} :
         login' = [login EXCEPT ![l] =
             [LoginIdle EXCEPT !.pc = "done", !.device = d, !.reply = code]]
    /\ UNCHANGED <<now, users, mfaKey, reg, ver, change, del>>

\* the score arrives: ask the MFA Handler
LoginScored(l, s) ==
    /\ login[l].pc = "risk"
    /\ login' = [login EXCEPT ![l] = [@ EXCEPT !.pc = "check", !.score = s]]
    /\ UNCHANGED <<now, users, mfaKey, reg, ver, change, del>>

\* /mfa/check has answered: publish the attempt, then cache the event id of a
\* challenge or hand out a token
LoginChecked(l, code) ==
    /\ login[l].pc = "check"
    /\ mfaKey' = KeysAfter(l, code)
    /\ LoginReplies(l, LoginCode(code))
    /\ UNCHANGED <<now, users, reg, ver, change, del>>

\* the Risk Engine answers an error (502); either call fails or times out, or
\* the broker refuses the attempt (500, whatever /mfa/check has answered)
LoginFails(l) ==
    /\ \/ login[l].pc = "risk" /\ LoginReplies(l, 502)
       \/ login[l].pc \in {"risk", "check"} /\ LoginReplies(l, 500)
    /\ UNCHANGED <<now, users, mfaKey, reg, ver, change, del>>

-----------------------------------------------------------------------------
(* verify_otp *)

\* the SELECT by address; 404 without a row, 500 if it fails
VerifyLooksUp(v, e, d, o) ==
    /\ ver[v].pc = "idle"
    /\ \/ \E u \in Account(e) :
             ver' = [ver EXCEPT ![v] = [VerIdle EXCEPT !.pc = "lookup", !.user = u,
                                                       !.device = d, !.otp = o]]
       \/ /\ Account(e) = {}
          /\ \E code \in {404, 500} :
                ver' = [ver EXCEPT ![v] = [VerIdle EXCEPT !.pc = "done", !.device = d,
                                                          !.otp = o, !.reply = code]]
    /\ UNCHANGED <<now, users, mfaKey, reg, login, change, del>>

\* read the cached event id and send it; without one the request does not
\* validate, which is answered 400
VerifyReads(v) ==
    LET key == mfaKey[EmailOf[ver[v].user]]
    IN /\ ver[v].pc = "lookup"
       /\ \/ /\ key # None
             /\ ver' = [ver EXCEPT ![v] = [@ EXCEPT !.pc = "verify",
                                                         !.event = key.event]]
          \/ /\ key = None
             /\ VerReplies(v, 400)
       /\ UNCHANGED <<now, users, mfaKey, reg, login, change, del>>

\* /mfa/verify has answered
VerifyAnswered(v, code) ==
    /\ ver[v].pc = "verify"
    /\ VerReplies(v, VerifyCode(code))
    /\ UNCHANGED <<now, users, mfaKey, reg, login, change, del>>

\* the SELECT fails, outside of any try: an unhandled 500.  Or the call fails or
\* times out: the bare except answers 400
VerifyFails(v) ==
    /\ \/ ver[v].pc = "lookup" /\ VerReplies(v, 500)
       \/ ver[v].pc = "verify" /\ VerReplies(v, 400)
    /\ UNCHANGED <<now, users, mfaKey, reg, login, change, del>>

-----------------------------------------------------------------------------
(* delete_user, and delete_all_users of api/db.py *)

\* delete_user finds the row, or answers 404, or 500 if the SELECT fails
DeleteBegins(x, e) ==
    /\ del[x].pc = "idle"
    /\ \/ \E u \in Account(e) :
             del' = [del EXCEPT ![x] = [DelIdle EXCEPT !.pc = "devices",
                                                       !.email = e, !.call = u]]
       \/ /\ Account(e) = {}
          /\ \E code \in {404, 500} :
                del' = [del EXCEPT ![x] = [DelIdle EXCEPT !.pc = "done", !.email = e,
                                                          !.reply = code]]
    /\ UNCHANGED <<now, users, mfaKey, reg, login, ver, change>>

\* delete_all_users selects the ids of all rows
DeleteAllBegins(x) ==
    /\ del[x].pc = "idle"
    /\ \E k \in Advance([DelIdle EXCEPT !.pc = "devices",
                                        !.todo = {u \in Users : users[u] # None}]) :
         del' = [del EXCEPT ![x] = k]
    /\ UNCHANGED <<now, users, mfaKey, reg, login, ver, change>>

\* the request to the MFA Handler gets there
DeleteArrives(x) ==
    /\ del[x].call # None
    /\ del' = [del EXCEPT ![x] = [@ EXCEPT !.call = None]]
    /\ UNCHANGED <<now, users, mfaKey, reg, login, ver, change>>

\* its answer is back
DeleteAnswered(x) ==
    /\ del[x].pc \in {"devices", "logs"}
    /\ del[x].call = None
    /\ \E k \in Advance(del[x]) : del' = [del EXCEPT ![x] = k]
    /\ UNCHANGED <<now, users, mfaKey, reg, login, ver, change>>

\* the call fails, times out or is answered by an error without a body to
\* parse, or the commit fails: an unhandled 500.  A request that is still on
\* its way may get there
DeleteFails(x) ==
    /\ del[x].pc \in {"devices", "logs", "commit"}
    /\ \E call \in {None, del[x].call} :
         del' = [del EXCEPT ![x] = [WithReply(@, 500) EXCEPT !.call = call]]
    /\ UNCHANGED <<now, users, mfaKey, reg, login, ver, change>>

DeleteCommits(x) ==
    /\ del[x].pc = "commit"
    /\ users' = UsersWithout(del[x].email)
    /\ del' = [del EXCEPT ![x] = WithReply(@, 200)]
    /\ UNCHANGED <<now, mfaKey, reg, login, ver, change>>

-----------------------------------------------------------------------------
\* time passes; Redis drops the keys whose TTL has run out
Tick ==
    /\ now < MaxTime
    /\ now' = now + 1
    /\ mfaKey' = [e \in Emails |->
           IF mfaKey[e] # None /\ mfaKey[e].expires <= now + 1 THEN None
           ELSE mfaKey[e]]
    /\ UNCHANGED <<users, requests>>

===============================================================================
