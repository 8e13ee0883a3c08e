-------------------------- MODULE AdaptiveMfaProofs ---------------------------
(* Proofs about AdaptiveMfa, for every set of requests, accounts, devices,   *)
(* passwords and scores and every value of the time constants: the types,    *)
(* the invariant that links the two services, and that the Auth Service is   *)
(* the environment MfaHandler assumes, so that what is proved of MfaHandler  *)
(* holds of the system; then, from these, what deletions and challenges      *)
(* promise.                                                                  *)
EXTENDS AdaptiveMfa, MfaOtpProofs, MfaTrustProofs

(* The value of None is that of no user, password, score and so on. *)
LEMMA NoneFacts ==
    /\ None \notin Users /\ None \notin Emails /\ None \notin Passwords
    /\ None \notin Scores /\ None \notin DeleteReq
BY AbsentAssumption DEF AbsentAssumption

(* A coroutine of the Auth Service that has started holds a request. *)
LEMMA Started ==
    ASSUME A!TypeOK
    PROVE  /\ \A l \in CheckReq : login[l].pc # "idle" => login[l] \in A!LoginCoroutine
           /\ \A v \in VerifyReq : ver[v].pc # "idle" => ver[v] \in A!VerCoroutine
           /\ \A c \in ChangeReq : change[c].pc # "idle" =>
                 change[c] \in A!ChangeCoroutine
           /\ \A x \in DeleteReq : del[x].pc # "idle" => del[x] \in A!DelCoroutine
BY DEF A!TypeOK, A!LoginIdle, A!VerIdle, A!ChangeIdle, A!DelIdle

(* An answer ends a coroutine and leaves the request as it is. *)
LEMMA LoginAnswered ==
    ASSUME NEW k \in A!LoginCoroutine, NEW code \in {200, 202, 401, 500, 502}
    PROVE  A!WithReply(k, code) \in A!LoginCoroutine
<1> DEFINE P == {"risk", "check", "done"}
           R == {A!NoReply, 200, 202, 401, 500, 502}
           T == [pc : P, user : Users \cup {None}, device : Devices,
                 score : Scores \cup {None}, reply : R]
<1>1. code \in R /\ "done" \in P /\ k \in T
  BY DEF A!LoginCoroutine
<1> HIDE DEF P, R
<1>2. [k EXCEPT !.pc = "done", !.reply = code] \in T
  BY <1>1
<1>3. QED
  BY <1>2 DEF A!WithReply, A!LoginCoroutine, P, R

LEMMA VerAnswered ==
    ASSUME NEW k \in A!VerCoroutine, NEW code \in {200, 400, 401, 500, 502}
    PROVE  A!WithReply(k, code) \in A!VerCoroutine
<1> DEFINE P == {"lookup", "verify", "done"}
           R == {A!NoReply, 200, 400, 401, 404, 500, 502}
           T == [pc : P, user : Users \cup {None}, device : Devices, otp : Otps,
                 event : CheckReq \cup {None}, reply : R]
<1>1. code \in R /\ "done" \in P /\ k \in T
  BY DEF A!VerCoroutine
<1> HIDE DEF P, R
<1>2. [k EXCEPT !.pc = "done", !.reply = code] \in T
  BY <1>1
<1>3. QED
  BY <1>2 DEF A!WithReply, A!VerCoroutine, P, R

LEMMA ChangeAnswered ==
    ASSUME NEW k \in A!ChangeCoroutine, NEW code \in {200, 500}
    PROVE  A!WithReply(k, code) \in A!ChangeCoroutine
<1> DEFINE P == {"update", "done"}
           R == {A!NoReply, 200, 404, 500}
           T == [pc : P, user : Users \cup {None}, password : Passwords, reply : R]
<1>1. code \in R /\ "done" \in P /\ k \in T
  BY DEF A!ChangeCoroutine
<1> HIDE DEF P, R
<1>2. [k EXCEPT !.pc = "done", !.reply = code] \in T
  BY <1>1
<1>3. QED
  BY <1>2 DEF A!WithReply, A!ChangeCoroutine, P, R

(* What the score makes of the coroutine of a login, and the event id of     *)
(* that of a verification.                                                   *)
Scored(k, s) == [k EXCEPT !.pc = "check", !.score = s]
Sent(k, i)   == [k EXCEPT !.pc = "verify", !.event = i]

LEMMA ScoredType ==
    ASSUME NEW k \in A!LoginCoroutine, NEW s \in Scores
    PROVE  Scored(k, s) \in A!LoginCoroutine
<1> DEFINE P == {"risk", "check", "done"}
           R == {A!NoReply, 200, 202, 401, 500, 502}
           S == Scores \cup {None}
           T == [pc : P, user : Users \cup {None}, device : Devices, score : S, reply : R]
<1>1. "check" \in P /\ s \in S /\ k \in T
  BY DEF A!LoginCoroutine
<1> HIDE DEF P, R, S
<1>2. [k EXCEPT !.pc = "check", !.score = s] \in T
  BY <1>1
<1>3. QED
  BY <1>2 DEF Scored, A!LoginCoroutine, P, R, S

LEMMA SentType ==
    ASSUME NEW k \in A!VerCoroutine, NEW i \in CheckReq
    PROVE  Sent(k, i) \in A!VerCoroutine
<1> DEFINE P == {"lookup", "verify", "done"}
           R == {A!NoReply, 200, 400, 401, 404, 500, 502}
           E == CheckReq \cup {None}
           T == [pc : P, user : Users \cup {None}, device : Devices, otp : Otps,
                 event : E, reply : R]
<1>1. "verify" \in P /\ i \in E /\ k \in T
  BY DEF A!VerCoroutine
<1> HIDE DEF P, R, E
<1>2. [k EXCEPT !.pc = "verify", !.event = i] \in T
  BY <1>1
<1>3. QED
  BY <1>2 DEF Sent, A!VerCoroutine, P, R, E

(* What an error makes of the coroutine of a deletion, *)
Failed(k, call) == [A!WithReply(k, 500) EXCEPT !.call = call]

(* and what the steps of a deletion do. *)
LEMMA DelMoved ==
    ASSUME NEW k \in A!DelCoroutine
    PROVE  /\ [k EXCEPT !.call = None] \in A!DelCoroutine
           /\ [k EXCEPT !.pc = "commit"] \in A!DelCoroutine
           /\ [k EXCEPT !.pc = "logs", !.call = k.email] \in A!DelCoroutine
           /\ \A u \in Users : [k EXCEPT !.todo = @ \ {u}, !.call = u] \in A!DelCoroutine
           /\ A!WithReply(k, 200) \in A!DelCoroutine
           /\ \A call \in {None, k.call} : Failed(k, call) \in A!DelCoroutine
<1> DEFINE P == {"devices", "logs", "commit", "done"}
           C == Users \cup Emails \cup {None}
           R == {A!NoReply, 200, 404, 500}
           T == [pc : P, email : Emails \cup {None}, todo : SUBSET Users, call : C,
                 reply : R]
<1>1. /\ k \in T /\ 200 \in R /\ 500 \in R
      /\ "logs" \in P /\ "commit" \in P /\ "done" \in P
      /\ None \in C /\ k.call \in C /\ k.email \in C /\ Users \subseteq C
  BY DEF A!DelCoroutine
<1> HIDE DEF P, C, R
<1>0. ASSUME NEW code \in R PROVE [k EXCEPT !.pc = "done", !.reply = code] \in T
  BY <1>1
<1>2. /\ [k EXCEPT !.call = None] \in T
      /\ [k EXCEPT !.pc = "commit"] \in T
      /\ [k EXCEPT !.pc = "logs", !.call = k.email] \in T
      /\ [k EXCEPT !.pc = "done", !.reply = 200] \in T
  <2>1. [k EXCEPT !.call = None] \in T
    BY <1>1
  <2>2. [k EXCEPT !.pc = "commit"] \in T
    BY <1>1
  <2>3. [k EXCEPT !.pc = "logs", !.call = k.email] \in T
    BY <1>1
  <2>4. [k EXCEPT !.pc = "done", !.reply = 200] \in T
    <3>1. PICK code \in R : code = 200
      BY <1>1
    <3>2. [k EXCEPT !.pc = "done", !.reply = code] \in T
      BY <1>0
    <3>3. QED
      BY <3>1, <3>2
  <2>5. QED
    BY <2>1, <2>2, <2>3, <2>4
<1>3. ASSUME NEW u \in Users PROVE [k EXCEPT !.todo = @ \ {u}, !.call = u] \in T
  BY <1>1
<1>5. 500 \in R
  BY <1>1
<1>4. ASSUME NEW call \in {None, k.call}
      PROVE  [[k EXCEPT !.pc = "done", !.reply = 500] EXCEPT !.call = call] \in T
  <2>1. [k EXCEPT !.pc = "done", !.reply = 500] \in T
    <3>1. PICK code \in R : code = 500
      BY <1>5
    <3>2. [k EXCEPT !.pc = "done", !.reply = code] \in T
      BY <1>0
    <3>3. QED
      BY <3>1, <3>2
  <2>2. call \in C
    BY <1>1
  <2> DEFINE j == [k EXCEPT !.pc = "done", !.reply = 500]
  <2> HIDE DEF j
  <2>3. j \in T => [j EXCEPT !.call = call] \in T
    BY <2>2
  <2>4. QED
    BY <2>1, <2>3 DEF j
<1>6. QED
  BY <1>2, <1>3, <1>4, ZenonT(40) DEF Failed, A!WithReply, A!DelCoroutine, P, C, R

(* The logins of the Auth Service keep their types. *)
LEMMA LoginTypes ==
    ASSUME A!TypeOK, NEW l \in CheckReq,
           \/ \E e \in Emails, d \in Devices, p \in Passwords :
                 A!LoginBegins(l, e, d, p) \/ A!LoginRefused(l, e, d, p)
           \/ \E s \in Scores : A!LoginScored(l, s)
           \/ A!LoginFails(l)
    PROVE  A!TypeOK'
<1> DEFINE T == A!LoginCoroutine
<1>1. ASSUME NEW k \in T, login' = [login EXCEPT ![l] = k],
             UNCHANGED <<now, users, mfaKey, reg, ver, change, del>>
      PROVE  A!TypeOK'
  BY <1>1 DEF A!TypeOK
<1>2. CASE \E e \in Emails, d \in Devices, p \in Passwords : A!LoginBegins(l, e, d, p)
  <2>1. PICK e \in Emails, d \in Devices, p \in Passwords : A!LoginBegins(l, e, d, p)
    BY <1>2
  <2>2. PICK u \in Users : login' = [login EXCEPT ![l] =
            [A!LoginIdle EXCEPT !.pc = "risk", !.user = u, !.device = d]]
    BY <2>1 DEF A!LoginBegins, A!Account
  <2>3. [A!LoginIdle EXCEPT !.pc = "risk", !.user = u, !.device = d] \in T
    BY DEF A!LoginIdle, A!LoginCoroutine, A!NoReply
  <2>4. QED
    BY <1>1, <2>1, <2>2, <2>3 DEF A!LoginBegins
<1>3. CASE \E e \in Emails, d \in Devices, p \in Passwords : A!LoginRefused(l, e, d, p)
  <2>1. PICK e \in Emails, d \in Devices, p \in Passwords : A!LoginRefused(l, e, d, p)
    BY <1>3
  <2>2. PICK code \in {401, 500} : login' = [login EXCEPT ![l] =
            [A!LoginIdle EXCEPT !.pc = "done", !.device = d, !.reply = code]]
    BY <2>1 DEF A!LoginRefused
  <2>3. [A!LoginIdle EXCEPT !.pc = "done", !.device = d, !.reply = code] \in T
    BY ZenonT(40) DEF A!LoginIdle, A!LoginCoroutine, A!NoReply
  <2>4. QED
    BY <1>1, <2>1, <2>2, <2>3 DEF A!LoginRefused
<1>4. ASSUME NEW s \in Scores, A!LoginScored(l, s) PROVE A!TypeOK'
  <2>1. login[l] \in T
    BY <1>4, Started DEF A!LoginScored
  <2>2. Scored(login[l], s) \in T
    BY <2>1, ScoredType
  <2>3. login' = [login EXCEPT ![l] = Scored(login[l], s)]
    BY <1>4 DEF A!LoginScored, Scored
  <2>4. QED
    BY <1>1, <1>4, <2>2, <2>3 DEF A!LoginScored
<1>5. CASE A!LoginFails(l)
  <2>1. login[l] \in T
    BY <1>5, Started DEF A!LoginFails
  <2>2. PICK code \in {500, 502} :
            login' = [login EXCEPT ![l] = A!WithReply(login[l], code)]
    BY <1>5 DEF A!LoginFails, A!LoginReplies
  <2>3. A!WithReply(login[l], code) \in T
    BY <2>1, LoginAnswered
  <2>4. QED
    BY <1>1, <1>5, <2>2, <2>3 DEF A!LoginFails
<1>6. QED
  BY <1>2, <1>3, <1>4, <1>5

(* So do its verifications, *)
LEMMA VerTypes ==
    ASSUME A!TypeOK, VerificationsLinked, NEW v \in VerifyReq,
           \/ \E e \in Emails, d \in Devices, o \in Otps : A!VerifyLooksUp(v, e, d, o)
           \/ A!VerifyReads(v)
           \/ A!VerifyFails(v)
           \/ \E code : A!VerifyAnswered(v, code)
    PROVE  A!TypeOK'
<1> DEFINE T == A!VerCoroutine
<1>1. ASSUME NEW k \in T, ver' = [ver EXCEPT ![v] = k],
             UNCHANGED <<now, users, mfaKey, reg, login, change, del>>
      PROVE  A!TypeOK'
  BY <1>1 DEF A!TypeOK
<1>2. ASSUME NEW e \in Emails, NEW d \in Devices, NEW o \in Otps,
             A!VerifyLooksUp(v, e, d, o)
      PROVE  A!TypeOK'
  <2>1. ASSUME NEW u \in Users
        PROVE  [A!VerIdle EXCEPT !.pc = "lookup", !.user = u, !.device = d, !.otp = o]
                  \in T
    BY DEF A!VerIdle, A!VerCoroutine, A!NoReply
  <2>2. ASSUME NEW code \in {404, 500}
        PROVE  [A!VerIdle EXCEPT !.pc = "done", !.device = d, !.otp = o, !.reply = code]
                  \in T
    BY ZenonT(40) DEF A!VerIdle, A!VerCoroutine, A!NoReply
  <2>3. PICK k \in T : ver' = [ver EXCEPT ![v] = k]
    BY <1>2, <2>1, <2>2, ZenonT(40) DEF A!VerifyLooksUp, A!Account
  <2>4. QED
    BY <1>1, <1>2, <2>3 DEF A!VerifyLooksUp
<1>3. CASE A!VerifyReads(v)
  <2>1. ver[v] \in T
    BY <1>3, Started DEF A!VerifyReads
  <2>2. CASE A!VerReplies(v, 400)
    <3>1. A!WithReply(ver[v], 400) \in T
      BY <2>1, VerAnswered
    <3>2. QED
      BY <1>1, <1>3, <2>2, <3>1 DEF A!VerifyReads, A!VerReplies
  <2>3. CASE /\ mfaKey[EmailOf[ver[v].user]] # None
             /\ ver' = [ver EXCEPT ![v] = [ver[v] EXCEPT !.pc = "verify",
                            !.event = mfaKey[EmailOf[ver[v].user]].event]]
    <3>1. ver[v].user \in Users
      BY <1>3, <2>1 DEF A!VerifyReads, A!VerCoroutine, VerificationsLinked
    <3>2. EmailOf[ver[v].user] \in Emails
      BY <3>1, UserAssumption DEF UserAssumption
    <3>3. mfaKey[EmailOf[ver[v].user]].event \in CheckReq
      BY <2>3, <3>2 DEF A!TypeOK, A!KeyEntry
    <3>4. Sent(ver[v], mfaKey[EmailOf[ver[v].user]].event) \in T
      BY <2>1, <3>3, SentType
    <3>5. ver' = [ver EXCEPT ![v] = Sent(ver[v], mfaKey[EmailOf[ver[v].user]].event)]
      BY <2>3 DEF Sent
    <3>6. QED
      BY <1>1, <1>3, <3>4, <3>5 DEF A!VerifyReads
  <2>4. QED
    BY <1>3, <2>2, <2>3 DEF A!VerifyReads
<1>4. ASSUME NEW code \in {200, 400, 401, 500, 502}, A!VerReplies(v, code),
             ver[v].pc \in {"lookup", "verify"},
             UNCHANGED <<now, users, mfaKey, reg, login, change, del>>
      PROVE  A!TypeOK'
  <2>1. ver[v] \in T
    BY <1>4, Started
  <2>2. A!WithReply(ver[v], code) \in T
    BY <2>1, VerAnswered
  <2>3. QED
    BY <1>1, <1>4, <2>2 DEF A!VerReplies
<1>5. CASE A!VerifyFails(v)
  BY <1>4, <1>5 DEF A!VerifyFails
<1>6. ASSUME NEW code, A!VerifyAnswered(v, code) PROVE A!TypeOK'
  <2>1. A!VerifyCode(code) \in {200, 400, 401, 500, 502}
    BY DEF A!VerifyCode
  <2>2. QED
    BY <1>4, <1>6, <2>1 DEF A!VerifyAnswered
<1>7. QED
  BY <1>2, <1>3, <1>5, <1>6

(* the answer of /mfa/check with the key it writes, *)
LEMMA LoginCheckedTypes ==
    ASSUME A!TypeOK, LoginsLinked, now \in Nat, NEW l \in CheckReq, NEW code,
           A!LoginChecked(l, code)
    PROVE  A!TypeOK'
<1>1. login[l] \in A!LoginCoroutine /\ login[l].user \in Users
  <2>1. login[l] \in A!LoginCoroutine
    BY Started DEF A!LoginChecked
  <2>2. QED
    BY <2>1 DEF A!LoginChecked, A!LoginCoroutine, LoginsLinked
<1>2. A!LoginCode(code) \in {200, 202, 401, 500, 502}
  BY DEF A!LoginCode
<1>3. A!WithReply(login[l], A!LoginCode(code)) \in A!LoginCoroutine
  BY <1>1, <1>2, LoginAnswered
<1>4. login' \in [CheckReq -> A!LoginCoroutine \cup {A!LoginIdle}]
  BY <1>3 DEF A!LoginChecked, A!LoginReplies, A!TypeOK
<1>5. mfaKey' \in [Emails -> A!KeyEntry \cup {None}]
  <2>1. EmailOf[login[l].user] \in Emails
    BY <1>1, UserAssumption DEF UserAssumption
  <2>2. [event |-> l, expires |-> now + EVENT_EXPIRE] \in A!KeyEntry
    BY EventAssumption DEF EventAssumption, A!KeyEntry
  <2>3. QED
    BY <2>1, <2>2 DEF A!LoginChecked, A!KeysAfter, A!TypeOK
<1>6. QED
  BY <1>4, <1>5 DEF A!LoginChecked, A!TypeOK

(* registrations and password changes, which leave an address one row, *)
LEMMA AccountTypes ==
    ASSUME A!TypeOK,
           \/ \E u \in Users : \/ A!RegisterBegins(u)
                               \/ \E p \in Passwords : A!RegisterCommits(u, p)
           \/ \E c \in ChangeReq :
                 \/ \E e \in Emails, p \in Passwords : A!ChangeBegins(c, e, p)
                 \/ A!ChangeCommits(c) \/ A!ChangeFails(c)
    PROVE  A!TypeOK'
<1>1. CASE \E u \in Users : A!RegisterBegins(u)
  BY <1>1 DEF A!RegisterBegins, A!TypeOK
<1>2. ASSUME NEW u \in Users, NEW p \in Passwords, A!RegisterCommits(u, p)
      PROVE  A!TypeOK'
  <2>1. users' \in [Users -> Passwords \cup {None}]
    BY <1>2 DEF A!RegisterCommits, A!TypeOK
  <2>2. ASSUME NEW w \in Users, NEW x \in Users, users'[w] # None, users'[x] # None,
               EmailOf[w] = EmailOf[x]
        PROVE  w = x
    <3>1. CASE users' = users
      BY <2>2, <3>1 DEF A!TypeOK
    <3>2. CASE A!Account(EmailOf[u]) = {} /\ users' = [users EXCEPT ![u] = p]
      BY <2>2, <3>2 DEF A!TypeOK, A!Account
    <3>3. QED
      BY <1>2, <3>1, <3>2 DEF A!RegisterCommits
  <2>3. reg' \in [Users -> {"new", "commit", "done"}]
    BY <1>2 DEF A!RegisterCommits, A!TypeOK
  <2>4. QED
    BY <1>2, <2>1, <2>2, <2>3 DEF A!RegisterCommits, A!TypeOK
<1>3. ASSUME NEW c \in ChangeReq, NEW k \in A!ChangeCoroutine,
             change' = [change EXCEPT ![c] = k],
             UNCHANGED <<now, mfaKey, reg, login, ver, del>>,
             users' \in [Users -> Passwords \cup {None}],
             \A u \in Users : users'[u] # None => users[u] # None
      PROVE  A!TypeOK'
  BY <1>3 DEF A!TypeOK
<1>4. ASSUME NEW c \in ChangeReq, NEW e \in Emails, NEW p \in Passwords,
             A!ChangeBegins(c, e, p)
      PROVE  A!TypeOK'
  <2>1. PICK k \in A!ChangeCoroutine : change' = [change EXCEPT ![c] = k]
    BY <1>4, ZenonT(40) DEF A!ChangeBegins, A!Account, A!ChangeCoroutine, A!NoReply
  <2>2. QED
    BY <1>3, <1>4, <2>1 DEF A!ChangeBegins, A!TypeOK
<1>5. ASSUME NEW c \in ChangeReq, A!ChangeCommits(c) \/ A!ChangeFails(c)
      PROVE  A!TypeOK'
  <2>1. change[c] \in A!ChangeCoroutine
    BY <1>5, Started DEF A!ChangeCommits, A!ChangeFails
  <2>2. PICK code \in {200, 500} :
            change' = [change EXCEPT ![c] = A!WithReply(change[c], code)]
    BY <1>5 DEF A!ChangeCommits, A!ChangeFails, A!ChangeReplies
  <2>3. A!WithReply(change[c], code) \in A!ChangeCoroutine
    BY <2>1, ChangeAnswered
  <2>4. /\ users' \in [Users -> Passwords \cup {None}]
        /\ \A u \in Users : users'[u] # None => users[u] # None
    <3>1. change[c].password \in Passwords
      BY <2>1 DEF A!ChangeCoroutine
    <3>2. QED
      BY <1>5, <3>1 DEF A!ChangeCommits, A!ChangeFails, A!UsersUpdated, A!TypeOK
  <2>5. UNCHANGED <<now, mfaKey, reg, login, ver, del>>
    BY <1>5 DEF A!ChangeCommits, A!ChangeFails
  <2>6. PICK k \in A!ChangeCoroutine : change' = [change EXCEPT ![c] = k]
    BY <2>2, <2>3
  <2>7. QED
    BY <2>4, <2>5, <2>6 DEF A!TypeOK
<1>6. QED
  BY <1>1, <1>2, <1>4, <1>5

(* deletions, *)
LEMMA AdvanceTypes ==
    ASSUME NEW k \in A!DelCoroutine, NEW j \in A!Advance(k)
    PROVE  j \in A!DelCoroutine
<1>1. k.todo \subseteq Users
  BY DEF A!DelCoroutine
<1>2. ASSUME NEW u \in k.todo PROVE [k EXCEPT !.todo = @ \ {u}, !.call = u] \in A!DelCoroutine
  <2>1. u \in Users
    BY <1>1
  <2>2. QED
    BY <2>1, DelMoved
<1>3. \/ \E u \in k.todo : j = [k EXCEPT !.todo = @ \ {u}, !.call = u]
      \/ j = [k EXCEPT !.pc = "logs", !.call = k.email]
      \/ j = [k EXCEPT !.pc = "commit"]
  BY DEF A!Advance
<1>4. /\ [k EXCEPT !.pc = "logs", !.call = k.email] \in A!DelCoroutine
      /\ [k EXCEPT !.pc = "commit"] \in A!DelCoroutine
  BY DelMoved
<1>5. QED
  BY <1>2, <1>3, <1>4

LEMMA DeleteTypes ==
    ASSUME A!TypeOK, NEW x \in DeleteReq,
           \/ \E e \in Emails : A!DeleteBegins(x, e)
           \/ A!DeleteAllBegins(x) \/ A!DeleteArrives(x) \/ A!DeleteAnswered(x)
           \/ A!DeleteFails(x) \/ A!DeleteCommits(x)
    PROVE  A!TypeOK'
<1> DEFINE T == A!DelCoroutine
<1>1. ASSUME NEW k \in T, del' = [del EXCEPT ![x] = k],
             UNCHANGED <<now, users, mfaKey, reg, login, ver, change>>
      PROVE  A!TypeOK'
  BY <1>1 DEF A!TypeOK
<1>2. ASSUME NEW e \in Emails, A!DeleteBegins(x, e) PROVE A!TypeOK'
  <2>1. ASSUME NEW u \in Users
        PROVE  [A!DelIdle EXCEPT !.pc = "devices", !.email = e, !.call = u] \in T
    BY DEF A!DelIdle, A!DelCoroutine, A!NoReply
  <2>2. ASSUME NEW code \in {404, 500}
        PROVE  [A!DelIdle EXCEPT !.pc = "done", !.email = e, !.reply = code] \in T
    BY DEF A!DelIdle, A!DelCoroutine, A!NoReply
  <2>3. PICK k \in T : del' = [del EXCEPT ![x] = k]
    <3> DEFINE Codes == {404, 500}
               Found == \E u \in Users : del' = [del EXCEPT ![x] =
                   [A!DelIdle EXCEPT !.pc = "devices", !.email = e, !.call = u]]
               Missed == \E code \in Codes : del' = [del EXCEPT ![x] =
                   [A!DelIdle EXCEPT !.pc = "done", !.email = e, !.reply = code]]
    <3>0. \A code \in Codes :
             [A!DelIdle EXCEPT !.pc = "done", !.email = e, !.reply = code] \in T
      BY <2>2
    <3>1. CASE Found
      BY <2>1, <3>1
    <3>2. Found \/ Missed
      BY <1>2 DEF A!DeleteBegins, A!Account
    <3> HIDE DEF Codes
    <3>3. CASE Missed
      BY <3>0, <3>3
    <3> HIDE DEF Found, Missed
    <3>4. QED
      BY <3>1, <3>2, <3>3
  <2>4. QED
    BY <1>1, <1>2, <2>3 DEF A!DeleteBegins
<1>3. CASE A!DeleteAllBegins(x)
  <2>1. [A!DelIdle EXCEPT !.pc = "devices",
                          !.todo = {u \in Users : users[u] # None}] \in T
    BY DEF A!DelIdle, A!DelCoroutine, A!NoReply
  <2>2. QED
    BY <1>1, <1>3, <2>1, AdvanceTypes DEF A!DeleteAllBegins
<1>4. CASE A!DeleteArrives(x)
  <2>1. del[x] \in T
    BY <1>4 DEF A!DeleteArrives, A!TypeOK, A!DelIdle
  <2>2. QED
    BY <1>1, <1>4, <2>1, DelMoved DEF A!DeleteArrives
<1>5. CASE A!DeleteAnswered(x)
  <2>1. del[x] \in T
    BY <1>5, Started DEF A!DeleteAnswered
  <2>2. QED
    BY <1>1, <1>5, <2>1, AdvanceTypes DEF A!DeleteAnswered
<1>6. CASE A!DeleteFails(x)
  <2>1. del[x] \in T
    BY <1>6, Started DEF A!DeleteFails
  <2>2. PICK call \in {None, del[x].call} : del' = [del EXCEPT ![x] = Failed(del[x], call)]
    BY <1>6 DEF A!DeleteFails, Failed
  <2>3. Failed(del[x], call) \in T
    BY <2>1, DelMoved
  <2>4. QED
    BY <1>1, <1>6, <2>2, <2>3 DEF A!DeleteFails
<1>7. CASE A!DeleteCommits(x)
  <2>1. del[x] \in T
    BY <1>7, Started DEF A!DeleteCommits
  <2>2. A!WithReply(del[x], 200) \in T
    BY <2>1, DelMoved
  <2>3. /\ users' \in [Users -> Passwords \cup {None}]
        /\ \A u \in Users : users'[u] # None => users[u] # None
    BY <1>7 DEF A!DeleteCommits, A!UsersWithout, A!TypeOK
  <2>4. del' \in [DeleteReq -> T \cup {A!DelIdle}]
    BY <1>7, <2>2 DEF A!DeleteCommits, A!TypeOK
  <2>5. QED
    BY <1>7, <2>3, <2>4 DEF A!DeleteCommits, A!TypeOK
<1>8. QED
  BY <1>2, <1>3, <1>4, <1>5, <1>6, <1>7

(* and the clock. *)
LEMMA TickTypes ==
    ASSUME A!TypeOK, A!Tick
    PROVE  A!TypeOK'
<1>1. mfaKey' \in [Emails -> A!KeyEntry \cup {None}]
  BY DEF A!Tick, A!TypeOK
<1>2. QED
  BY <1>1 DEF A!Tick, A!TypeOK, A!requests

-----------------------------------------------------------------------------
(* What the MFA Handler sees of a step of the system is a step of its own.   *)
LEMMA HandlerStep ==
    ASSUME SysTypeOK, LinkInv, [SysNext]_sysvars
    PROVE  [Next]_vars
<1>1. ASSUME NEW l \in CheckReq, LoginNext(l) PROVE [Next]_vars
  <2>1. CASE CheckReceived(l)
    <3>1. login[l] \in A!LoginCoroutine /\ login[l].user # None
      BY <2>1 DEF CheckReceived, LinkInv, LoginsLinked, SysTypeOK, A!TypeOK, A!LoginIdle
    <3>2. login[l].user \in Users /\ login[l].device \in Devices /\ login[l].score \in Scores
      BY <2>1, <3>1 DEF CheckReceived, A!LoginCoroutine
    <3>3. QED
      BY <2>1, <3>2 DEF CheckReceived, CheckNext, Next
  <2>2. CASE CheckRuns(l)
    BY <2>2 DEF CheckRuns, CheckNext, Next
  <2>3. QED
    BY <1>1, <2>1, <2>2
    DEF LoginNext, LoginArrives, LoginScored, LoginFails, LoginChecked, MfaUnchanged
<1>2. ASSUME NEW v \in VerifyReq, VerificationNext(v) PROVE [Next]_vars
  <2>1. CASE VerificationReceived(v)
    <3>1. /\ ver[v] \in A!VerCoroutine /\ ver[v].user # None
          /\ ChallengedFor(ver[v].event, EmailOf[ver[v].user])
      BY <2>1
      DEF VerificationReceived, LinkInv, VerificationsLinked, SysTypeOK, A!TypeOK, A!VerIdle
    <3>2. /\ ver[v].user \in Users /\ ver[v].device \in Devices
          /\ ver[v].event \in CheckReq /\ ver[v].otp \in Otps
      BY <2>1, <3>1 DEF VerificationReceived, A!VerCoroutine
    <3>3. VerifyArrive(v, ver[v].user, ver[v].device, ver[v].event, ver[v].otp)
      BY <2>1, <3>1 DEF VerificationReceived, VerifyArrive, ChallengedFor
    <3>4. QED
      BY <3>2, <3>3 DEF VerifyNext, Next
  <2>2. CASE VerificationRuns(v)
    BY <2>2 DEF VerificationRuns, VerifyNext, Next
  <2>3. QED
    BY <1>2, <2>1, <2>2
    DEF VerificationNext, VerificationArrives, VerificationReads, VerificationFails,
        VerificationAnswered, MfaUnchanged
<1>3. CASE \E u \in Users : RegistrationArrives(u) \/ RegistrationEnds(u)
  BY <1>3 DEF RegistrationArrives, RegistrationEnds, MfaUnchanged
<1>4. CASE \E c \in ChangeReq : ChangeArrives(c) \/ ChangeEnds(c)
  BY <1>4 DEF ChangeArrives, ChangeEnds, MfaUnchanged
<1>5. ASSUME NEW x \in DeleteReq, DeletionNext(x) PROVE [Next]_vars
  BY <1>5
  DEF DeletionNext, DeletionArrives, DeletionCommits, DeletionFails, PurgeArrives,
      PurgeCommits, PurgeRollsBack, MfaUnchanged, Next
<1>6. CASE SysTick
  BY <1>6 DEF SysTick, Next
<1>7. CASE UNCHANGED sysvars
  BY <1>7 DEF sysvars
<1>8. QED
  BY <1>1, <1>2, <1>3, <1>4, <1>5, <1>6, <1>7 DEF SysNext

(* The Auth Service stands still. *)
LEMMA StillTypes ==
    ASSUME A!TypeOK, now' \in Nat, UNCHANGED <<users, mfaKey, requests>>
    PROVE  A!TypeOK'
BY DEF A!TypeOK, requests

(* No step of the system breaks a type of the Auth Service. *)
LEMMA AuthTypes ==
    ASSUME SysTypeOK, LinkInv, [SysNext]_sysvars, TypeOK'
    PROVE  A!TypeOK'
<1>1. A!TypeOK /\ LoginsLinked /\ VerificationsLinked /\ now \in Nat /\ now' \in Nat
  BY DEF SysTypeOK, LinkInv, TypeOK
<1>2. ASSUME NEW l \in CheckReq, LoginNext(l) PROVE A!TypeOK'
  <2>1. CASE CheckReceived(l) \/ CheckRuns(l)
    BY <1>1, <2>1, StillTypes DEF CheckReceived, CheckRuns, AuthUnchanged
  <2>2. CASE LoginChecked(l)
    BY <1>1, <2>2, LoginCheckedTypes DEF LoginChecked
  <2>3. CASE LoginArrives(l) \/ LoginScored(l) \/ LoginFails(l)
    BY <1>1, <2>3, LoginTypes DEF LoginArrives, LoginScored, LoginFails
  <2>4. QED
    BY <1>2, <2>1, <2>2, <2>3 DEF LoginNext
<1>3. ASSUME NEW v \in VerifyReq, VerificationNext(v) PROVE A!TypeOK'
  <2>1. CASE VerificationReceived(v) \/ VerificationRuns(v)
    BY <1>1, <2>1, StillTypes DEF VerificationReceived, VerificationRuns, AuthUnchanged
  <2>2. CASE \/ VerificationArrives(v) \/ VerificationReads(v)
             \/ VerificationFails(v) \/ VerificationAnswered(v)
    BY <1>1, <2>2, VerTypes
    DEF VerificationArrives, VerificationReads, VerificationFails, VerificationAnswered
  <2>3. QED
    BY <1>3, <2>1, <2>2 DEF VerificationNext
<1>4. CASE \E u \in Users : RegistrationArrives(u) \/ RegistrationEnds(u)
  BY <1>1, <1>4, AccountTypes DEF RegistrationArrives, RegistrationEnds
<1>5. CASE \E c \in ChangeReq : ChangeArrives(c) \/ ChangeEnds(c)
  BY <1>1, <1>5, AccountTypes DEF ChangeArrives, ChangeEnds
<1>6. ASSUME NEW x \in DeleteReq, DeletionNext(x) PROVE A!TypeOK'
  <2>1. CASE del[x].pc \notin {"devices", "logs"} /\ (PurgeCommits(x) \/ PurgeRollsBack(x))
    BY <1>1, <2>1, StillTypes DEF PurgeCommits, PurgeRollsBack, Answers
  <2>2. CASE del[x].pc \in {"devices", "logs"} /\ (PurgeCommits(x) \/ PurgeRollsBack(x))
    BY <1>1, <2>2, DeleteTypes DEF PurgeCommits, PurgeRollsBack, Answers
  <2>3. CASE \/ DeletionArrives(x) \/ DeletionCommits(x) \/ DeletionFails(x)
             \/ PurgeArrives(x)
    BY <1>1, <2>3, DeleteTypes
    DEF DeletionArrives, DeletionCommits, DeletionFails, PurgeArrives
  <2>4. QED
    BY <1>6, <2>1, <2>2, <2>3 DEF DeletionNext
<1>7. CASE SysTick
  BY <1>1, <1>7, TickTypes DEF SysTick
<1>8. CASE UNCHANGED sysvars
  BY <1>1, <1>8, StillTypes DEF sysvars
<1>9. QED
  BY <1>2, <1>3, <1>4, <1>5, <1>6, <1>7, <1>8 DEF SysNext

LEMMA SysTypes ==
    ASSUME SysTypeOK, LinkInv, [SysNext]_sysvars
    PROVE  SysTypeOK'
<1>1. TypeOK'
  BY HandlerStep, NextTypeOK DEF SysTypeOK
<1>2. A!TypeOK'
  BY <1>1, AuthTypes
<1>3. (purger \in DeleteReq \cup {None})'
  BY DEF SysTypeOK, SysNext, LoginNext, VerificationNext, DeletionNext, LoginArrives,
         LoginScored, LoginFails, CheckReceived, CheckRuns, LoginChecked,
         VerificationArrives, VerificationReads, VerificationFails, VerificationReceived,
         VerificationRuns, VerificationAnswered, RegistrationArrives, RegistrationEnds, ChangeArrives, ChangeEnds,
         DeletionArrives, DeletionCommits, DeletionFails, PurgeArrives, PurgeCommits,
         PurgeRollsBack, SysTick, AuthUnchanged, MfaUnchanged, sysvars
<1>4. (begun \in [DeleteReq -> SUBSET TrustedRow])'
  <2>1. ASSUME NEW e PROVE DevicesOf(e) \in SUBSET TrustedRow
    BY DEF DevicesOf, SysTypeOK, TypeOK
  <2>2. \/ begun' = begun
        \/ \E x \in DeleteReq, e \in Emails \cup {None} :
              begun' = [begun EXCEPT ![x] = DevicesOf(e)]
    BY DEF SysNext, LoginNext, VerificationNext, DeletionNext, LoginArrives,
           LoginScored, LoginFails, CheckReceived, CheckRuns, LoginChecked,
           VerificationArrives, VerificationReads, VerificationFails, VerificationReceived,
           VerificationRuns, VerificationAnswered, RegistrationArrives, RegistrationEnds, ChangeArrives, ChangeEnds,
           DeletionArrives, DeletionCommits, DeletionFails, PurgeArrives, PurgeCommits,
           PurgeRollsBack, SysTick, AuthUnchanged, MfaUnchanged, sysvars
  <2>3. QED
    BY <2>1, <2>2 DEF SysTypeOK
<1>5. QED
  BY <1>1, <1>2, <1>3, <1>4 DEF SysTypeOK

-----------------------------------------------------------------------------
(* What an answer of the Auth Service leaves of a login and a verification.  *)
LEMMA AnsweredFields ==
    ASSUME NEW code
    PROVE  /\ \A k \in A!LoginCoroutine :
                 /\ A!WithReply(k, code).pc = "done"
                 /\ A!WithReply(k, code).reply = code
                 /\ A!WithReply(k, code).user = k.user
                 /\ A!WithReply(k, code).device = k.device
                 /\ A!WithReply(k, code).score = k.score
           /\ \A k \in A!VerCoroutine :
                 /\ A!WithReply(k, code).pc = "done"
                 /\ A!WithReply(k, code).reply = code
                 /\ A!WithReply(k, code).user = k.user
                 /\ A!WithReply(k, code).device = k.device
                 /\ A!WithReply(k, code).event = k.event
BY DEF A!WithReply, A!LoginCoroutine, A!VerCoroutine

(* A check that runs on: its request stays, its answer ends it, and 202 is   *)
(* the answer to a challenge.                                                *)
LEMMA CheckRunsOn ==
    ASSUME TypeOK, ChecksChallenge, NEW c \in CheckReq, CheckStep(c)
    PROVE  /\ chk[c].pc \in {"query", "result", "mail", "log"}
           /\ chk'[c].pc # "idle"
           /\ chk'[c].user = chk[c].user
           /\ chk'[c].device = chk[c].device
           /\ chk'[c].score = chk[c].score
           /\ chk'[c].reply # NoReply => chk'[c].pc = "done"
           /\ chk'[c].pc \in {"mail", "log"} \/ chk'[c].reply = 202 =>
                 chk'[c].otp # None /\ chk'[c].score >= RISK_THRESHOLD
           /\ chk'[c].otp = chk[c].otp \/ CheckChallenge(c)
<1>1. chk[c].pc \in {"query", "result", "mail", "log"}
  BY DEF CheckStep, CheckQuery, CheckAmbiguous, CheckTrusted, CheckLowRisk,
         CheckChallenge, CheckMail, CheckLog, CheckDbFails
<1>2. chk[c] \in CheckCoroutine /\ chk[c].reply = NoReply
  BY <1>1, StartedCheck DEF ChecksChallenge
<1>3. CASE CheckQuery(c)
  <2>1. PICK rows : chk'[c] = WithRows(chk[c], rows)
    BY <1>3 DEF CheckQuery, TypeOK
  <2>2. WithRows(chk[c], rows).otp = chk[c].otp
    BY <1>2 DEF WithRows, CheckCoroutine
  <2>3. QED
    BY <1>1, <1>2, <2>1, <2>2, CheckFields DEF NoReply
<1>4. CASE CheckAmbiguous(c) \/ CheckTrusted(c) \/ CheckLowRisk(c) \/ CheckDbFails(c)
  <2>1. PICK code \in {200, 500} : chk'[c] = WithReply(chk[c], code)
    BY <1>4
    DEF CheckAmbiguous, CheckTrusted, CheckLowRisk, CheckDbFails, CheckReplies, TypeOK
  <2>2. QED
    BY <1>1, <1>2, <2>1, CheckFields
<1>5. CASE CheckChallenge(c)
  <2>1. PICK o \in Otps : chk'[c] = WithOtp(chk[c], o)
    BY <1>5 DEF CheckChallenge, TypeOK
  <2>2. o # None /\ chk[c].score >= RISK_THRESHOLD
    BY <1>5, NoneAssumption DEF CheckChallenge, NoneAssumption
  <2>3. QED
    BY <1>1, <1>2, <1>5, <2>1, <2>2, CheckFields
<1>6. CASE CheckMail(c)
  <2>1. PICK status \in {"sent", "failed-send"} :
            chk' = [chk EXCEPT ![c] = WithMail(chk[c], status)]
    BY <1>6 DEF CheckMail
  <2>2. chk'[c] = WithMail(chk[c], status)
    BY <2>1 DEF TypeOK
  <2>3. chk[c].otp # None /\ chk[c].score >= RISK_THRESHOLD
    BY <1>6 DEF CheckMail, ChecksChallenge
  <2> DEFINE k == WithMail(chk[c], status)
  <2>4. /\ k.pc = "log" /\ k.reply = chk[c].reply /\ k.user = chk[c].user
        /\ k.device = chk[c].device /\ k.score = chk[c].score /\ k.otp = chk[c].otp
    BY <1>2 DEF WithMail, CheckCoroutine
  <2> HIDE DEF k
  <2>5. chk'[c] = k
    BY <2>2 DEF k
  <2>6. QED
    BY <1>1, <1>2, <2>3, <2>4, <2>5
<1>7. CASE CheckLog(c)
  <2>1. PICK code : chk'[c] = WithReply(chk[c], code)
    BY <1>7 DEF CheckLog, CheckReplies, TypeOK
  <2>2. chk[c].otp # None /\ chk[c].score >= RISK_THRESHOLD
    BY <1>7 DEF CheckLog, ChecksChallenge
  <2>3. QED
    BY <1>1, <1>2, <2>1, <2>2, CheckFields
<1>8. QED
  BY <1>3, <1>4, <1>5, <1>6, <1>7 DEF CheckStep

(* A check that arrives. *)
LEMMA CheckArrives ==
    ASSUME TypeOK, NEW c \in CheckReq, NEW u, NEW d, NEW s, CheckArrive(c, u, d, s)
    PROVE  /\ chk[c].pc = "idle"
           /\ chk'[c].pc # "idle"
           /\ chk'[c].user = u /\ chk'[c].device = d /\ chk'[c].score = s
           /\ chk'[c].otp = None
           /\ \/ chk'[c].pc = "query" /\ chk'[c].reply = NoReply
              \/ chk'[c].pc = "done" /\ chk'[c].reply = 200
           /\ \A b \in CheckReq : b # c => chk'[b] = chk[b]
<1> DEFINE k == NewCheck(u, d, s)
<1>1. /\ k.pc = "query" /\ k.reply = NoReply /\ k.otp = None
      /\ k.user = u /\ k.device = d /\ k.score = s
  BY DEF NewCheck
<1>2. /\ WithReply(k, 200).pc = "done" /\ WithReply(k, 200).reply = 200
      /\ WithReply(k, 200).otp = None
      /\ WithReply(k, 200).user = u /\ WithReply(k, 200).device = d
      /\ WithReply(k, 200).score = s
  BY DEF NewCheck, WithReply
<1> HIDE DEF k
<1>3. /\ chk[c].pc = "idle"
      /\ \/ chk' = [chk EXCEPT ![c] = k]
         \/ chk' = [chk EXCEPT ![c] = WithReply(k, 200)]
  BY DEF CheckArrive, k
<1>4. CASE chk' = [chk EXCEPT ![c] = k]
  BY <1>1, <1>3, <1>4 DEF TypeOK
<1>5. CASE chk' = [chk EXCEPT ![c] = WithReply(k, 200)]
  <2>1. /\ chk'[c] = WithReply(k, 200)
        /\ \A b \in CheckReq : b # c => chk'[b] = chk[b]
    BY <1>5 DEF TypeOK
  <2>2. QED
    BY <1>2, <1>3, <2>1
<1>6. QED
  BY <1>3, <1>4, <1>5

(* A verification that runs on publishes in its own name only. *)
LEMMA VerifyRunsOn ==
    ASSUME TypeOK, NEW v \in VerifyReq, VerifyStep(v)
    PROVE  /\ chk' = chk
           /\ vrf[v].pc # "idle" /\ vrf'[v].pc # "idle"
           /\ vrf'[v].user = vrf[v].user
           /\ vrf'[v].device = vrf[v].device
           /\ \A w \in VerifyReq : w # v => vrf'[w] = vrf[w]
           /\ \A m \in completed' : m \in completed \/ m.by = v
           /\ completed \subseteq completed'
<1>1. vrf[v].pc # "idle"
  BY DEF VerifyStep, VerifyLog, VerifyUnbound, VerifyRefuse, VerifyAccept,
         VerifyPublishFails, VerifyTrust, VerifyCache, VerifyDbFails
<1>2. VerifyNext(v)
  BY DEF VerifyNext
<1>3. /\ \A m \in completed' : m \in completed \/ m.by = v
      /\ completed \subseteq completed'
  BY DEF VerifyStep, VerifyLog, VerifyUnbound, VerifyRefuse, VerifyAccept,
         VerifyPublishFails, VerifyTrust, VerifyCache, VerifyDbFails, CompletedWith
<1>4. QED
  BY <1>1, <1>2, <1>3, VerifyOthers, VerifyKeeps

(* The links under a step of a login, *)
LEMMA LoginLinks ==
    ASSUME SysTypeOK, LinkInv, NEW l \in CheckReq, LoginNext(l)
    PROVE  LinkInv'
<1>1. TypeOK /\ A!TypeOK /\ LoginsLinked /\ ChecksChallenge /\ KeysLinked
      /\ VerificationsLinked /\ CompletedLinked
  BY DEF SysTypeOK, LinkInv
<1>2. ASSUME UNCHANGED vars, ver' = ver
      PROVE  ChecksChallenge' /\ VerificationsLinked' /\ CompletedLinked'
  BY <1>1, <1>2
  DEF vars, ChecksChallenge, VerificationsLinked, CompletedLinked, ChallengedFor
<1>3. ASSUME UNCHANGED vars, ver' = ver, mfaKey' = mfaKey, NEW k,
             login' = [login EXCEPT ![l] = k],
             k.pc \in {"risk", "check"} => k.user # None /\ k.reply = NoReply,
             k.pc \in {"idle", "risk"} => k.score = None,
             k.score # None => k.user # None,
             chk[l].pc # "idle" => /\ k.score # None /\ k.score = login[l].score
                                   /\ k.user = login[l].user
                                   /\ k.device = login[l].device
      PROVE  LinkInv'
  <2>1. login'[l] = k /\ \A b \in CheckReq : b # l => login'[b] = login[b]
    BY <1>1, <1>3 DEF A!TypeOK
  <2>2. chk' = chk
    BY <1>3 DEF vars
  <2>3. LoginsLinked'
    <3> SUFFICES ASSUME NEW b \in CheckReq
                 PROVE  /\ login'[b].pc \in {"risk", "check"} =>
                              login'[b].user # None /\ login'[b].reply = NoReply
                        /\ login'[b].pc \in {"idle", "risk"} => login'[b].score = None
                        /\ login'[b].score # None => login'[b].user # None
                        /\ chk'[b].pc # "idle" => /\ login'[b].score # None
                                                  /\ login'[b].score = chk'[b].score
                                                  /\ login'[b].user = chk'[b].user
                                                  /\ login'[b].device = chk'[b].device
      BY DEF LoginsLinked
    <3>1. CASE b = l
      BY <1>1, <1>3, <2>1, <2>2, <3>1 DEF LoginsLinked
    <3>2. CASE b # l
      BY <1>1, <2>1, <2>2, <3>2 DEF LoginsLinked
    <3>3. QED
      BY <3>1, <3>2
  <2>4. KeysLinked'
    BY <1>1, <1>3, <2>2 DEF KeysLinked, ChallengedFor
  <2>5. QED
    BY <1>2, <1>3, <2>3, <2>4 DEF LinkInv
<1>4. CASE LoginArrives(l)
  <2>1. PICK e \in Emails, d \in Devices, p \in Passwords :
            A!LoginBegins(l, e, d, p) \/ A!LoginRefused(l, e, d, p)
    BY <1>4 DEF LoginArrives
  <2>2. chk[l].pc = "idle"
    BY <1>1, <2>1 DEF A!LoginBegins, A!LoginRefused, LoginsLinked
  <2>3. UNCHANGED vars /\ ver' = ver /\ mfaKey' = mfaKey
    BY <1>4, <2>1 DEF LoginArrives, MfaUnchanged, A!LoginBegins, A!LoginRefused
  <2>4. CASE A!LoginBegins(l, e, d, p)
    <3>1. PICK u \in Users : login' = [login EXCEPT ![l] =
              [A!LoginIdle EXCEPT !.pc = "risk", !.user = u, !.device = d]]
      BY <2>4 DEF A!LoginBegins, A!Account
    <3> DEFINE k == [A!LoginIdle EXCEPT !.pc = "risk", !.user = u, !.device = d]
    <3>2. k.pc = "risk" /\ k.user = u /\ k.reply = NoReply /\ k.score = None
      BY DEF A!LoginIdle, A!NoReply, NoReply
    <3>3. u # None
      BY NoneFacts
    <3> HIDE DEF k
    <3>4. login' = [login EXCEPT ![l] = k]
      BY <3>1 DEF k
    <3>5. QED
      BY <1>3, <2>2, <2>3, <3>2, <3>3, <3>4
  <2>5. CASE A!LoginRefused(l, e, d, p)
    <3>1. PICK code \in {401, 500} : login' = [login EXCEPT ![l] =
              [A!LoginIdle EXCEPT !.pc = "done", !.device = d, !.reply = code]]
      BY <2>5 DEF A!LoginRefused
    <3> DEFINE k == [A!LoginIdle EXCEPT !.pc = "done", !.device = d, !.reply = code]
    <3>2. k.pc = "done" /\ k.score = None
      BY DEF A!LoginIdle
    <3> HIDE DEF k
    <3>3. login' = [login EXCEPT ![l] = k]
      BY <3>1 DEF k
    <3>4. QED
      BY <1>3, <2>2, <2>3, <3>2, <3>3
  <2>6. QED
    BY <2>1, <2>4, <2>5
<1>5. CASE LoginScored(l)
  <2>1. PICK s \in Scores : A!LoginScored(l, s)
    BY <1>5 DEF LoginScored
  <2>2. login[l] \in A!LoginCoroutine
    BY <1>1, <2>1, Started DEF A!LoginScored
  <2>3. /\ chk[l].pc = "idle" /\ s # None
        /\ login[l].user # None /\ login[l].reply = NoReply
    BY <1>1, <2>1, NoneFacts DEF A!LoginScored, LoginsLinked
  <2>4. UNCHANGED vars /\ ver' = ver /\ mfaKey' = mfaKey
    BY <1>5, <2>1 DEF LoginScored, MfaUnchanged, A!LoginScored
  <2> DEFINE k == [login[l] EXCEPT !.pc = "check", !.score = s]
  <2>5. /\ k.pc = "check" /\ k.score = s /\ k.user = login[l].user
        /\ k.reply = login[l].reply
    BY <2>2 DEF A!LoginCoroutine
  <2>6. login' = [login EXCEPT ![l] = k]
    BY <2>1 DEF A!LoginScored
  <2> HIDE DEF k
  <2>7. QED
    BY <1>3, <2>3, <2>4, <2>5, <2>6
<1>6. ASSUME login[l].pc \in {"risk", "check"}, NEW code,
             login' = [login EXCEPT ![l] = A!WithReply(login[l], code)]
      PROVE  /\ login[l] \in A!LoginCoroutine
             /\ chk' = chk => LoginsLinked'
             /\ UNCHANGED vars /\ ver' = ver /\ mfaKey' = mfaKey => LinkInv'
  <2>1. login[l] \in A!LoginCoroutine
    BY <1>1, <1>6, Started
  <2> DEFINE k == A!WithReply(login[l], code)
  <2>2. /\ k.pc = "done" /\ k.user = login[l].user /\ k.device = login[l].device
        /\ k.score = login[l].score
    BY <2>1, AnsweredFields
  <2>3. login' = [login EXCEPT ![l] = k]
    BY <1>6
  <2> HIDE DEF k
  <2>4. login'[l] = k /\ \A b \in CheckReq : b # l => login'[b] = login[b]
    BY <1>1, <2>3 DEF A!TypeOK
  <2>5. ASSUME chk' = chk PROVE LoginsLinked'
    BY <1>1, <2>2, <2>4, <2>5 DEF LoginsLinked
  <2>6. ASSUME UNCHANGED vars, ver' = ver, mfaKey' = mfaKey PROVE LinkInv'
    BY <1>1, <1>3, <2>2, <2>3, <2>6 DEF LoginsLinked
  <2>7. QED
    BY <2>1, <2>5, <2>6
<1>7. CASE LoginFails(l)
  BY <1>6, <1>7 DEF LoginFails, A!LoginFails, A!LoginReplies, MfaUnchanged
<1>8. CASE LoginChecked(l)
  <2>1. /\ login[l].pc = "check" /\ chk[l].pc = "done"
        /\ login' = [login EXCEPT ![l] =
                        A!WithReply(login[l], A!LoginCode(chk[l].reply))]
        /\ UNCHANGED vars /\ ver' = ver /\ chk' = chk
        /\ mfaKey' = A!KeysAfter(l, chk[l].reply)
    BY <1>8 DEF LoginChecked, A!LoginChecked, A!LoginReplies, MfaUnchanged, vars
  <2>2. LoginsLinked' /\ login[l] \in A!LoginCoroutine
    BY <1>6, <2>1
  <2>3. KeysLinked'
    <3>1. EmailOf[login[l].user] \in Emails /\ login[l].user = chk[l].user
      BY <1>1, <2>1, <2>2, UserAssumption
      DEF UserAssumption, A!LoginCoroutine, LoginsLinked
    <3> SUFFICES ASSUME NEW e \in Emails, mfaKey'[e] # None
                 PROVE  ChallengedFor(mfaKey'[e].event, e)
      BY <2>1 DEF KeysLinked, ChallengedFor
    <3>2. CASE mfaKey'[e] = mfaKey[e]
      BY <1>1, <3>2 DEF KeysLinked
    <3>3. CASE mfaKey'[e] # mfaKey[e]
      <4>1. e = EmailOf[login[l].user] /\ chk[l].reply = 202 /\ mfaKey'[e].event = l
        BY <1>1, <2>1, <3>1, <3>3 DEF A!KeysAfter, A!TypeOK
      <4>2. QED
        BY <3>1, <4>1 DEF ChallengedFor
    <3>4. QED
      BY <3>2, <3>3
  <2>4. QED
    BY <1>2, <2>1, <2>2, <2>3 DEF LinkInv
<1>9. ASSUME login' = login, mfaKey' = mfaKey, ver' = ver, vrf' = vrf,
             completed' = completed, ChecksChallenge',
             \A b \in CheckReq : b # l => chk'[b] = chk[b],
             chk[l].pc # "done",
             chk'[l].pc # "idle" => /\ login[l].score # None
                                    /\ login[l].score = chk'[l].score
                                    /\ login[l].user = chk'[l].user
                                    /\ login[l].device = chk'[l].device
      PROVE  LinkInv'
  <2>1. LoginsLinked'
    BY <1>1, <1>9 DEF LoginsLinked
  <2>2. ASSUME NEW b \in CheckReq, chk[b].reply = 202 PROVE chk'[b] = chk[b]
    BY <1>1, <1>9, <2>2 DEF ChecksChallenge, NoReply
  <2>3. KeysLinked'
    <3> SUFFICES ASSUME NEW e \in Emails, mfaKey[e] # None
                 PROVE  ChallengedFor(mfaKey[e].event, e)'
      BY <1>9 DEF KeysLinked, ChallengedFor
    <3>1. mfaKey[e].event \in CheckReq
      BY <1>1 DEF A!TypeOK, A!KeyEntry
    <3>2. QED
      BY <1>1, <1>9, <2>2, <3>1 DEF KeysLinked, ChallengedFor
  <2>4. VerificationsLinked'
    <3>1. ASSUME NEW v \in VerifyReq, ver[v].event # None
          PROVE  ver[v].event \in CheckReq
      BY <1>1, <3>1 DEF A!TypeOK, A!VerCoroutine, A!VerIdle
    <3>2. QED
      BY <1>1, <1>9, <2>2, <3>1 DEF VerificationsLinked, ChallengedFor
  <2>5. CompletedLinked'
    BY <1>1, <1>9 DEF CompletedLinked
  <2>6. QED
    BY <1>9, <2>1, <2>3, <2>4, <2>5 DEF LinkInv
<1>10. CASE CheckReceived(l)
  <2>1. CheckArrive(l, login[l].user, login[l].device, login[l].score)
        /\ login[l].score # None
    BY <1>10 DEF CheckReceived
  <2>2. /\ chk[l].pc = "idle" /\ chk'[l].pc # "idle"
        /\ chk'[l].user = login[l].user /\ chk'[l].device = login[l].device
        /\ chk'[l].score = login[l].score
        /\ \/ chk'[l].pc = "query" /\ chk'[l].reply = NoReply
           \/ chk'[l].pc = "done" /\ chk'[l].reply = 200
        /\ \A b \in CheckReq : b # l => chk'[b] = chk[b]
    BY <1>1, <2>1, CheckArrives
  <2>3. ChecksChallenge'
    BY <1>1, <2>2 DEF ChecksChallenge, NoReply
  <2>4. vrf' = vrf /\ completed' = completed
    BY <2>1 DEF CheckArrive
  <2>5. login' = login /\ mfaKey' = mfaKey /\ ver' = ver
    BY <1>10 DEF CheckReceived, AuthUnchanged, requests
  <2>6. QED
    BY <1>9, <2>1, <2>2, <2>3, <2>4, <2>5
<1>11. CASE CheckRuns(l)
  <2>1. CheckStep(l) /\ CheckNext(l)
    BY <1>11 DEF CheckRuns, CheckNext
  <2>2. /\ vrf' = vrf /\ completed' = completed
        /\ \A b \in CheckReq : b # l => chk'[b] = chk[b]
    BY <1>1, <2>1, CheckOthers
  <2>3. ChecksChallenge'
    BY <1>1, <2>1, <2>2, CheckRunsOn DEF ChecksChallenge
  <2>4. login' = login /\ mfaKey' = mfaKey /\ ver' = ver
    BY <1>11 DEF CheckRuns, AuthUnchanged, requests
  <2>5. /\ chk[l].pc # "done" /\ login[l].score # None
        /\ login[l].score = chk'[l].score /\ login[l].user = chk'[l].user
        /\ login[l].device = chk'[l].device
    BY <1>1, <2>1, CheckRunsOn DEF LoginsLinked
  <2>6. QED
    BY <1>9, <2>2, <2>3, <2>4, <2>5
<1>12. QED
  BY <1>4, <1>5, <1>7, <1>8, <1>10, <1>11 DEF LoginNext

(* of a verification, *)
LEMMA VerificationLinks ==
    ASSUME SysTypeOK, LinkInv, NEW v \in VerifyReq, VerificationNext(v)
    PROVE  LinkInv'
<1>1. TypeOK /\ A!TypeOK /\ LoginsLinked /\ ChecksChallenge /\ KeysLinked
      /\ VerificationsLinked /\ CompletedLinked
  BY DEF SysTypeOK, LinkInv
<1>2. ASSUME UNCHANGED vars, login' = login, mfaKey' = mfaKey, NEW k,
             ver' = [ver EXCEPT ![v] = k],
             k.pc \in {"lookup", "verify"} => k.user # None /\ k.reply = NoReply,
             k.pc \in {"idle", "lookup"} => k.event = None,
             k.event # None => /\ k.user # None
                               /\ ChallengedFor(k.event, EmailOf[k.user]),
             vrf[v].pc # "idle" => /\ k.event # None
                                   /\ k.user = ver[v].user
                                   /\ k.device = ver[v].device
      PROVE  LinkInv'
  <2>1. ver'[v] = k /\ \A w \in VerifyReq : w # v => ver'[w] = ver[w]
    BY <1>1, <1>2 DEF A!TypeOK
  <2>2. chk' = chk /\ vrf' = vrf
    BY <1>2 DEF vars
  <2>3. VerificationsLinked'
    <3> SUFFICES ASSUME NEW w \in VerifyReq
                 PROVE  /\ ver'[w].pc \in {"lookup", "verify"} =>
                              ver'[w].user # None /\ ver'[w].reply = NoReply
                        /\ ver'[w].pc \in {"idle", "lookup"} => ver'[w].event = None
                        /\ ver'[w].event # None =>
                              /\ ver'[w].user # None
                              /\ ChallengedFor(ver'[w].event, EmailOf[ver'[w].user])
                        /\ vrf[w].pc # "idle" => /\ ver'[w].event # None
                                                 /\ ver'[w].user = vrf[w].user
                                                 /\ ver'[w].device = vrf[w].device
      BY <2>2 DEF VerificationsLinked, ChallengedFor
    <3>1. CASE w = v
      BY <1>1, <1>2, <2>1, <3>1 DEF VerificationsLinked
    <3>2. CASE w # v
      BY <1>1, <2>1, <3>2 DEF VerificationsLinked
    <3>3. QED
      BY <3>1, <3>2
  <2>4. LoginsLinked' /\ ChecksChallenge' /\ KeysLinked' /\ CompletedLinked'
    BY <1>1, <1>2
    DEF vars, LoginsLinked, ChecksChallenge, KeysLinked, CompletedLinked, ChallengedFor
  <2>5. QED
    BY <2>3, <2>4 DEF LinkInv
<1>3. CASE VerificationArrives(v)
  <2>1. PICK e \in Emails, d \in Devices, o \in Otps : A!VerifyLooksUp(v, e, d, o)
    BY <1>3 DEF VerificationArrives
  <2>2. vrf[v].pc = "idle"
    BY <1>1, <2>1 DEF A!VerifyLooksUp, VerificationsLinked
  <2>3. UNCHANGED vars /\ login' = login /\ mfaKey' = mfaKey
    BY <1>3, <2>1 DEF VerificationArrives, MfaUnchanged, A!VerifyLooksUp
  <2>4. ASSUME NEW u \in Users, ver' = [ver EXCEPT ![v] =
                   [A!VerIdle EXCEPT !.pc = "lookup", !.user = u, !.device = d, !.otp = o]]
        PROVE  LinkInv'
    <3> DEFINE k == [A!VerIdle EXCEPT !.pc = "lookup", !.user = u, !.device = d, !.otp = o]
    <3>1. k.pc = "lookup" /\ k.user = u /\ k.reply = NoReply /\ k.event = None
      BY DEF A!VerIdle, A!NoReply, NoReply
    <3>2. u # None
      BY NoneFacts
    <3> HIDE DEF k
    <3>3. ver' = [ver EXCEPT ![v] = k]
      BY <2>4 DEF k
    <3>4. QED
      BY <1>2, <2>2, <2>3, <3>1, <3>2, <3>3
  <2>5. ASSUME NEW code, ver' = [ver EXCEPT ![v] =
                   [A!VerIdle EXCEPT !.pc = "done", !.device = d, !.otp = o, !.reply = code]]
        PROVE  LinkInv'
    <3> DEFINE k == [A!VerIdle EXCEPT !.pc = "done", !.device = d, !.otp = o, !.reply = code]
    <3>1. k.pc = "done" /\ k.event = None
      BY DEF A!VerIdle
    <3> HIDE DEF k
    <3>2. ver' = [ver EXCEPT ![v] = k]
      BY <2>5 DEF k
    <3>3. QED
      BY <1>2, <2>2, <2>3, <3>1, <3>2
  <2> DEFINE Found == \E u \in Users : ver' = [ver EXCEPT ![v] =
                 [A!VerIdle EXCEPT !.pc = "lookup", !.user = u, !.device = d, !.otp = o]]
             Missed == \E code : ver' = [ver EXCEPT ![v] =
                 [A!VerIdle EXCEPT !.pc = "done", !.device = d, !.otp = o, !.reply = code]]
  <2>6. Found \/ Missed
    BY <2>1 DEF A!VerifyLooksUp, A!Account
  <2>7. CASE Found
    BY <2>4, <2>7
  <2>8. CASE Missed
    BY <2>5, <2>8
  <2> HIDE DEF Found, Missed
  <2>9. QED
    BY <2>6, <2>7, <2>8
<1>4. ASSUME ver[v].pc \in {"lookup", "verify"}, NEW code, A!VerReplies(v, code),
             UNCHANGED vars, login' = login, mfaKey' = mfaKey
      PROVE  LinkInv'
  <2>1. ver[v] \in A!VerCoroutine
    BY <1>1, <1>4, Started
  <2> DEFINE k == A!WithReply(ver[v], code)
  <2>2. /\ k.pc = "done" /\ k.user = ver[v].user /\ k.device = ver[v].device
        /\ k.event = ver[v].event
    BY <2>1, AnsweredFields
  <2>3. ver' = [ver EXCEPT ![v] = k]
    BY <1>4 DEF A!VerReplies
  <2> HIDE DEF k
  <2>4. QED
    BY <1>1, <1>2, <1>4, <2>2, <2>3 DEF VerificationsLinked
<1>5. CASE VerificationReads(v)
  <2>1. /\ ver[v].pc = "lookup" /\ UNCHANGED vars
        /\ login' = login /\ mfaKey' = mfaKey
    BY <1>5 DEF VerificationReads, A!VerifyReads, MfaUnchanged
  <2>2. CASE A!VerReplies(v, 400)
    BY <1>4, <2>1, <2>2
  <2>3. CASE /\ mfaKey[EmailOf[ver[v].user]] # None
             /\ ver' = [ver EXCEPT ![v] = [ver[v] EXCEPT !.pc = "verify",
                            !.event = mfaKey[EmailOf[ver[v].user]].event]]
    <3>1. ver[v] \in A!VerCoroutine /\ ver[v].user # None /\ ver[v].reply = NoReply
          /\ vrf[v].pc = "idle"
      BY <1>1, <2>1, Started DEF VerificationsLinked
    <3>2. EmailOf[ver[v].user] \in Emails
      BY <3>1, UserAssumption DEF UserAssumption, A!VerCoroutine
    <3>3. ChallengedFor(mfaKey[EmailOf[ver[v].user]].event, EmailOf[ver[v].user])
      BY <1>1, <2>3, <3>2 DEF KeysLinked
    <3> DEFINE k == [ver[v] EXCEPT !.pc = "verify",
                         !.event = mfaKey[EmailOf[ver[v].user]].event]
    <3>4. /\ k.pc = "verify" /\ k.user = ver[v].user /\ k.reply = ver[v].reply
          /\ k.event = mfaKey[EmailOf[ver[v].user]].event
      BY <3>1 DEF A!VerCoroutine
    <3>5. ver' = [ver EXCEPT ![v] = k]
      BY <2>3
    <3> HIDE DEF k
    <3>6. QED
      BY <1>2, <2>1, <3>1, <3>3, <3>4, <3>5
  <2>4. QED
    BY <1>5, <2>2, <2>3 DEF VerificationReads, A!VerifyReads
<1>6. CASE VerificationFails(v) \/ VerificationAnswered(v)
  BY <1>4, <1>6
  DEF VerificationFails, VerificationAnswered, A!VerifyFails, A!VerifyAnswered, MfaUnchanged
<1>7. ASSUME login' = login, mfaKey' = mfaKey, ver' = ver, chk' = chk,
             \A w \in VerifyReq : w # v => vrf'[w] = vrf[w],
             vrf'[v].pc # "idle", ver[v].event # None,
             ver[v].user = vrf'[v].user, ver[v].device = vrf'[v].device,
             \A m \in completed' : m \in completed \/ m.by = v
      PROVE  LinkInv'
  <2>1. LoginsLinked' /\ ChecksChallenge' /\ KeysLinked'
    BY <1>1, <1>7 DEF LoginsLinked, ChecksChallenge, KeysLinked, ChallengedFor
  <2>2. VerificationsLinked'
    BY <1>1, <1>7 DEF VerificationsLinked, ChallengedFor
  <2>3. ASSUME NEW m \in completed, m.by # v PROVE m.by \in VerifyReq
    BY <1>1 DEF TypeOK, Completion
  <2>4. CompletedLinked'
    BY <1>1, <1>7, <2>3 DEF CompletedLinked
  <2>5. QED
    BY <2>1, <2>2, <2>4 DEF LinkInv
<1>8. CASE VerificationReceived(v)
  <2>1. /\ vrf[v].pc = "idle" /\ ver[v].event # None
        /\ vrf' = [vrf EXCEPT ![v] = NewVerify(ver[v].user, ver[v].device,
                                               ver[v].event, ver[v].otp)]
        /\ chk' = chk /\ completed' = completed
        /\ login' = login /\ mfaKey' = mfaKey /\ ver' = ver
    BY <1>8 DEF VerificationReceived, VerifyReceived, AuthUnchanged, requests
  <2> DEFINE k == NewVerify(ver[v].user, ver[v].device, ver[v].event, ver[v].otp)
  <2>2. k.pc = "log" /\ k.user = ver[v].user /\ k.device = ver[v].device
    BY DEF NewVerify
  <2>3. vrf' = [vrf EXCEPT ![v] = k]
    BY <2>1
  <2> HIDE DEF k
  <2>4. vrf'[v] = k /\ \A w \in VerifyReq : w # v => vrf'[w] = vrf[w]
    BY <1>1, <2>3 DEF TypeOK
  <2>5. QED
    BY <1>7, <2>1, <2>2, <2>4
<1>9. CASE VerificationRuns(v)
  <2>1. VerifyStep(v) /\ login' = login /\ mfaKey' = mfaKey /\ ver' = ver
    BY <1>9 DEF VerificationRuns, AuthUnchanged, requests
  <2>2. /\ ver[v].event # None /\ ver[v].user = vrf'[v].user
        /\ ver[v].device = vrf'[v].device
    BY <1>1, <2>1, VerifyRunsOn DEF VerificationsLinked
  <2>3. QED
    BY <1>1, <1>7, <2>1, <2>2, VerifyRunsOn
<1>10. QED
  BY <1>3, <1>5, <1>6, <1>8, <1>9 DEF VerificationNext

(* and of everything else. *)
LEMMA OtherLinks ==
    ASSUME SysTypeOK, LinkInv,
           \/ \E u \in Users : RegistrationArrives(u) \/ RegistrationEnds(u)
           \/ \E c \in ChangeReq : ChangeArrives(c) \/ ChangeEnds(c)
           \/ \E x \in DeleteReq : DeletionNext(x)
           \/ SysTick
           \/ UNCHANGED sysvars
    PROVE  /\ login' = login /\ ver' = ver /\ chk' = chk /\ vrf' = vrf
           /\ completed' = completed
           /\ LinkInv'
<1>1. /\ login' = login /\ ver' = ver /\ chk' = chk /\ vrf' = vrf
      /\ completed' = completed
      /\ mfaKey' = mfaKey \/ SysTick
  <2>1. CASE \E u \in Users : RegistrationArrives(u) \/ RegistrationEnds(u)
    BY <2>1 DEF RegistrationArrives, RegistrationEnds, A!RegisterBegins, A!RegisterCommits, MfaUnchanged, vars
  <2>2. CASE \E c \in ChangeReq : ChangeArrives(c) \/ ChangeEnds(c)
    BY <2>2 DEF ChangeArrives, ChangeEnds, A!ChangeBegins, A!ChangeCommits,
                A!ChangeFails, MfaUnchanged, vars
  <2>3. ASSUME NEW x \in DeleteReq, DeletionNext(x)
        PROVE  /\ login' = login /\ ver' = ver /\ chk' = chk /\ vrf' = vrf
               /\ completed' = completed /\ mfaKey' = mfaKey
    BY <2>3
    DEF DeletionNext, DeletionArrives, DeletionCommits, DeletionFails, PurgeArrives,
        PurgeCommits, PurgeRollsBack, Answers, A!DeleteBegins, A!DeleteAllBegins,
        A!DeleteArrives, A!DeleteAnswered, A!DeleteFails, A!DeleteCommits,
        PurgeMatch, PurgeCommit, PurgeFails, MfaUnchanged, vars, requests
  <2>4. CASE SysTick
    BY <2>4 DEF SysTick, Tick, A!Tick, A!requests
  <2>5. CASE UNCHANGED sysvars
    BY <2>5 DEF sysvars, vars, requests
  <2>6. QED
    BY <2>1, <2>2, <2>3, <2>4, <2>5
<1>2. \A e \in Emails : mfaKey'[e] # None => mfaKey'[e] = mfaKey[e]
  BY <1>1 DEF SysTick, A!Tick
<1>3. LinkInv'
  BY <1>1, <1>2
  DEF LinkInv, LoginsLinked, ChecksChallenge, KeysLinked, VerificationsLinked,
      CompletedLinked, ChallengedFor
<1>4. QED
  BY <1>1, <1>3

-----------------------------------------------------------------------------
(* The two services agree on every request and every event id (LinkInv), and *)
(* every variable of both keeps its shape.                                   *)
THEOREM Links == SysSpec => [](SysTypeOK /\ LinkInv)
<1>1. SysInit => SysTypeOK /\ LinkInv
  <2> SUFFICES ASSUME SysInit PROVE SysTypeOK /\ LinkInv
    OBVIOUS
  <2>1. TypeOK
    BY DEF SysInit, Init, TypeOK
  <2>2. A!TypeOK
    <3>1. /\ now \in Nat /\ users \in [Users -> Passwords \cup {None}]
          /\ reg \in [Users -> {"new", "commit", "done"}]
          /\ mfaKey \in [Emails -> A!KeyEntry \cup {None}]
          /\ login \in [CheckReq -> A!LoginCoroutine \cup {A!LoginIdle}]
          /\ ver \in [VerifyReq -> A!VerCoroutine \cup {A!VerIdle}]
          /\ change \in [ChangeReq -> A!ChangeCoroutine \cup {A!ChangeIdle}]
          /\ del \in [DeleteReq -> A!DelCoroutine \cup {A!DelIdle}]
      BY DEF SysInit, A!Init
    <3>2. \A u, w \in Users :
             users[u] # None /\ users[w] # None /\ EmailOf[u] = EmailOf[w] => u = w
      BY AccountAssumption DEF AccountAssumption, SysInit, A!Init
    <3>3. QED
      BY <3>1, <3>2 DEF A!TypeOK
  <2>3. LinkInv
    BY DEF SysInit, Init, A!Init, A!LoginIdle, A!VerIdle, CheckIdle, VerifyIdle, NoReply,
           LinkInv, LoginsLinked, ChecksChallenge, KeysLinked, VerificationsLinked,
           CompletedLinked
  <2>4. QED
    BY <2>1, <2>2, <2>3 DEF SysInit, SysTypeOK
<1>2. (SysTypeOK /\ LinkInv) /\ [SysNext]_sysvars => (SysTypeOK /\ LinkInv)'
  BY SysTypes, LoginLinks, VerificationLinks, OtherLinks DEF SysNext
<1>3. QED
  BY <1>1, <1>2, PTL DEF SysSpec

(* The Auth Service sends the MFA Handler nothing but what its specification *)
(* allows (HandlerContract): the system behaves, for the handler, as Spec.   *)
THEOREM Contract == SysSpec => HandlerContract
<1>1. SysInit => Init
  BY DEF SysInit
<1>2. (SysTypeOK /\ LinkInv) /\ [SysNext]_sysvars => [Next]_vars
  BY HandlerStep
<1>3. QED
  BY <1>1, <1>2, Links, PTL DEF SysSpec, Spec, HandlerContract

(* The event id that verify_otp sends is that of a login of its address      *)
(* which was answered 202 (EventWasChallenged).                              *)
THEOREM EventsChallenged == SysSpec => []EventWasChallenged
<1>1. SysTypeOK /\ LinkInv => EventWasChallenged
  BY DEF LinkInv, VerificationsLinked, ChallengedFor, EventWasChallenged
<1>2. QED
  BY <1>1, Links, PTL

(* What is proved of the MFA Handler holds of the system: the passwords it   *)
(* accepts, the devices it lets through, the events it publishes.            *)
COROLLARY HandlerInSystem ==
    SysSpec => /\ [](OtpInv /\ TrustInv)
               /\ []AcceptedCodeWasIssued
               /\ []SkipOnlyWhileTrusted
               /\ []TrustFollowsCompletion
BY Contract, OtpInvariant, TrustInvariant, AcceptedCodes, SkipOnly, TrustCompletion, PTL
   DEF HandlerContract

(* Every variable of the system keeps its shape. *)
THEOREM SysTypeCorrect == SysSpec => []SysTypeOK
BY Links, PTL

-----------------------------------------------------------------------------
(* Deletions.  A row that deletion x still has to remove is one of a user it *)
(* has yet to ask for, or of the user its call names, or the statement that  *)
(* works for it has matched the row.                                         *)
Working(k) == k.pc \in {"devices", "logs", "commit"} \/ k.reply = 200

Awaited(x, r) ==
    \/ r.user \in del[x].todo
    \/ r.user = del[x].call
    \/ purger = x /\ r \in doomed

RowsAwaited(x) ==
    Working(del[x]) => \A r \in trusted \cap begun[x] : Awaited(x, r)

CallsOver(x) ==
    /\ del[x].pc = "idle" => purger # x
    /\ del[x].pc = "commit" \/ del[x].reply = 200 =>
          purger # x /\ del[x].call = None /\ del[x].todo = {}
    /\ del[x].reply = 200 => del[x].pc = "done"

BegunVouched ==
    \A x \in DeleteReq : \A r \in begun[x] :
        Vouches(vrf[r.by], r.user, r.device, r.expires)

(* The inductive invariant of deletions: what was there when one began goes  *)
(* away or is waited for, and a row that comes later is another row.         *)
DeleteInv == /\ \A x \in DeleteReq : RowsAwaited(x) /\ CallsOver(x)
             /\ BegunVouched

(* A verification goes on vouching for the device it stored. *)
LEMMA VouchesNext ==
    ASSUME TypeOK, TrustTimes, [Next]_vars,
           NEW w \in VerifyReq, NEW u, NEW d, NEW t \in Nat, Vouches(vrf[w], u, d, t)
    PROVE  Vouches(vrf'[w], u, d, t)
<1>1. ASSUME NEW v \in VerifyReq, VerifyNext(v) PROVE Vouches(vrf'[w], u, d, t)
  BY <1>1, VouchesStable
<1>2. CASE vrf' = vrf
  BY <1>2
<1>3. QED
  BY <1>1, <1>2, CheckOthers DEF Next, PurgeMatch, PurgeCommit, PurgeFails, Tick, vars

(* A row that is new in the table comes from a verification in its commit. *)
LEMMA NewRows ==
    ASSUME TypeOK, [Next]_vars, NEW r \in trusted' \ trusted
    PROVE  r.by \in VerifyReq /\ vrf[r.by].pc = "trust"
<1>1. PICK v \in VerifyReq : VerifyTrust(v)
  BY CheckOthers, ZenonT(40)
  DEF Next, VerifyNext, VerifyArrive, VerifyReceived, VerifyStep, VerifyLog,
      VerifyUnbound, VerifyRefuse, VerifyAccept, VerifyPublishFails, VerifyCache,
      VerifyDbFails, PurgeMatch, PurgeCommit, PurgeFails, Tick, vars
<1>2. r.by = v
  BY <1>1 DEF VerifyTrust
<1>3. QED
  BY <1>1, <1>2 DEF VerifyTrust

(* So it is none that a deletion has found. *)
LEMMA FoundRowsAreOld ==
    ASSUME SysTypeOK, TrustInv, BegunVouched, [Next]_vars, NEW x \in DeleteReq,
           NEW r \in trusted' \cap begun[x]
    PROVE  r \in trusted
<1> SUFFICES ASSUME r \notin trusted PROVE FALSE
  OBVIOUS
<1>1. r.by \in VerifyReq /\ vrf[r.by].pc = "trust"
  BY NewRows DEF SysTypeOK
<1>2. vrf[r.by].reply = 200 => vrf[r.by].pc = "done"
  BY <1>1 DEF TrustInv, TrustTimes
<1>3. QED
  BY <1>1, <1>2 DEF BegunVouched, Vouches

(* A deletion that no step is about waits for what it waited for. *)
LEMMA DeletionStays ==
    ASSUME SysTypeOK, TrustInv, DeleteInv, [Next]_vars, NEW y \in DeleteReq,
           del'[y] = del[y], begun'[y] = begun[y],
           \/ purger' = purger /\ doomed' = doomed
           \/ purger # y /\ purger' # y
    PROVE  RowsAwaited(y)' /\ CallsOver(y)'
<1>1. RowsAwaited(y) /\ CallsOver(y) /\ BegunVouched
  BY DEF DeleteInv
<1>2. ASSUME Working(del[y]), NEW r \in trusted' \cap begun[y] PROVE Awaited(y, r)'
  <2>1. Awaited(y, r)
    BY <1>1, <1>2, FoundRowsAreOld DEF RowsAwaited
  <2>2. QED
    BY <2>1 DEF Awaited
<1>3. RowsAwaited(y)'
  BY <1>2 DEF RowsAwaited, Working
<1>4. CallsOver(y)'
  BY <1>1 DEF CallsOver
<1>5. QED
  BY <1>3, <1>4

(* What a deletion finds when it begins is what it waits for. *)
LEMMA DeletionStarts ==
    ASSUME SysTypeOK, DeleteInv, NEW x \in DeleteReq, DeletionArrives(x)
    PROVE  RowsAwaited(x)' /\ CallsOver(x)'
<1>1. /\ A!TypeOK /\ CallsOver(x) /\ trusted' = trusted /\ purger' = purger
      /\ trusted \subseteq TrustedRow
  BY DEF SysTypeOK, TypeOK, DeleteInv, DeletionArrives, vars
<1>2. ASSUME NEW k, NEW e, del' = [del EXCEPT ![x] = k],
             begun' = [begun EXCEPT ![x] = DevicesOf(e)]
      PROVE  del'[x] = k /\ begun'[x] = DevicesOf(e)
  BY <1>1, <1>2 DEF SysTypeOK, A!TypeOK
<1>3. ASSUME NEW e \in Emails, A!DeleteBegins(x, e),
             begun' = [begun EXCEPT ![x] = DevicesOf(e)]
      PROVE  RowsAwaited(x)' /\ CallsOver(x)'
  <2>1. purger # x
    BY <1>1, <1>3 DEF A!DeleteBegins, CallsOver
  <2>2. ASSUME NEW u \in A!Account(e), del' = [del EXCEPT ![x] =
                   [A!DelIdle EXCEPT !.pc = "devices", !.email = e, !.call = u]]
        PROVE  RowsAwaited(x)' /\ CallsOver(x)'
    <3> DEFINE k == [A!DelIdle EXCEPT !.pc = "devices", !.email = e, !.call = u]
    <3>1. k.pc = "devices" /\ k.call = u /\ k.reply = A!NoReply
      BY DEF A!DelIdle
    <3>2. del' = [del EXCEPT ![x] = k]
      BY <2>2
    <3> HIDE DEF k
    <3>3. del'[x] = k /\ begun'[x] = DevicesOf(e)
      BY <1>2, <1>3, <3>2
    <3>4. ASSUME NEW r \in DevicesOf(e) PROVE r.user = u
      <4>1. r.user \in Users /\ users[r.user] # None /\ EmailOf[r.user] = e
        BY <1>1, <3>4, NoneFacts DEF DevicesOf, TrustedRow
      <4>2. QED
        BY <1>1, <2>2, <4>1 DEF A!Account, A!TypeOK
    <3>5. QED
      BY <1>1, <2>1, <3>1, <3>3, <3>4 DEF RowsAwaited, Awaited, CallsOver, A!NoReply
  <2>3. ASSUME NEW code, code # 200, del' = [del EXCEPT ![x] =
                   [A!DelIdle EXCEPT !.pc = "done", !.email = e, !.reply = code]]
        PROVE  RowsAwaited(x)' /\ CallsOver(x)'
    <3> DEFINE k == [A!DelIdle EXCEPT !.pc = "done", !.email = e, !.reply = code]
    <3>1. k.pc = "done" /\ k.reply # 200
      BY <2>3 DEF A!DelIdle
    <3>2. del' = [del EXCEPT ![x] = k]
      BY <2>3
    <3> HIDE DEF k
    <3>3. del'[x] = k
      BY <1>2, <1>3, <3>2
    <3>4. QED
      BY <3>1, <3>3 DEF RowsAwaited, Working, CallsOver
  <2> DEFINE Codes == {404, 500}
             Found == \E u \in A!Account(e) : del' = [del EXCEPT ![x] =
                 [A!DelIdle EXCEPT !.pc = "devices", !.email = e, !.call = u]]
             Missed == \E code \in Codes : del' = [del EXCEPT ![x] =
                 [A!DelIdle EXCEPT !.pc = "done", !.email = e, !.reply = code]]
  <2>4. \A code \in Codes : code # 200
    OBVIOUS
  <2>5. CASE Found
    BY <2>2, <2>5
  <2>6. Found \/ Missed
    BY <1>3 DEF A!DeleteBegins
  <2> HIDE DEF Codes
  <2>7. CASE Missed
    BY <2>3, <2>4, <2>7
  <2> HIDE DEF Found, Missed
  <2>8. QED
    BY <2>5, <2>6, <2>7
<1>4. ASSUME A!DeleteAllBegins(x), begun' = [begun EXCEPT ![x] = DevicesOf(None)]
      PROVE  RowsAwaited(x)' /\ CallsOver(x)'
  <2> DEFINE all == {u \in Users : users[u] # None}
             k0 == [A!DelIdle EXCEPT !.pc = "devices", !.todo = all]
  <2>1. purger # x
    BY <1>1, <1>4 DEF A!DeleteAllBegins, CallsOver
  <2>2. /\ k0.pc = "devices" /\ k0.email = None /\ k0.todo = all /\ k0.call = None
        /\ k0.reply = A!NoReply /\ k0 \in A!DelCoroutine
    BY DEF A!DelIdle, A!DelCoroutine, A!NoReply
  <2>3. PICK k \in A!Advance(k0) : del' = [del EXCEPT ![x] = k]
    BY <1>4 DEF A!DeleteAllBegins
  <2> HIDE DEF k0
  <2>4. del'[x] = k /\ begun'[x] = DevicesOf(None)
    BY <1>2, <1>4, <2>3
  <2>5. ASSUME NEW r \in DevicesOf(None) PROVE r.user \in all
    BY <1>1, <2>5 DEF DevicesOf, TrustedRow
  <2>6. CASE all = {}
    <3>1. k = [k0 EXCEPT !.pc = "commit"]
      BY <2>2, <2>3, <2>6 DEF A!Advance
    <3>2. k.pc = "commit" /\ k.todo = all /\ k.call = None /\ k.reply = A!NoReply
      BY <2>2, <3>1 DEF A!DelCoroutine
    <3>3. QED
      BY <1>1, <2>1, <2>4, <2>5, <2>6, <3>2
      DEF RowsAwaited, CallsOver, A!NoReply
  <2>7. CASE all # {}
    <3>1. PICK u \in all : k = [k0 EXCEPT !.todo = @ \ {u}, !.call = u]
      BY <2>2, <2>3, <2>7 DEF A!Advance
    <3>2. k.pc = "devices" /\ k.todo = all \ {u} /\ k.call = u /\ k.reply = A!NoReply
      BY <2>2, <3>1 DEF A!DelCoroutine
    <3>3. QED
      BY <1>1, <2>1, <2>4, <2>5, <3>2
      DEF RowsAwaited, Awaited, CallsOver, A!NoReply
  <2>8. QED
    BY <2>6, <2>7
<1>5. QED
  BY <1>3, <1>4 DEF DeletionArrives

(* An error ends it, and its request gets there or not. *)
LEMMA DeletionErrs ==
    ASSUME SysTypeOK, DeleteInv, NEW x \in DeleteReq, A!DeleteFails(x)
    PROVE  RowsAwaited(x)' /\ CallsOver(x)'
<1>1. del[x] \in A!DelCoroutine
  BY Started DEF SysTypeOK, A!DeleteFails
<1>2. PICK call : del' = [del EXCEPT ![x] = Failed(del[x], call)]
  BY ZenonT(40) DEF A!DeleteFails, Failed
<1>3. ASSUME NEW k \in A!DelCoroutine
      PROVE  Failed(k, call).pc = "done" /\ Failed(k, call).reply = 500
  BY DEF Failed, A!WithReply, A!DelCoroutine
<1> DEFINE j == Failed(del[x], call)
<1>4. j.pc = "done" /\ j.reply = 500
  BY <1>1, <1>3
<1>5. del' = [del EXCEPT ![x] = j]
  BY <1>2
<1> HIDE DEF j
<1>6. del'[x] = j
  BY <1>5 DEF SysTypeOK, A!TypeOK
<1>7. QED
  BY <1>4, <1>6 DEF RowsAwaited, Working, CallsOver

(* The MFA Handler's answer: what its statement matched is gone. *)
LEMMA DeletionAnswered ==
    ASSUME SysTypeOK, TrustInv, DeleteInv, [Next]_vars, NEW x \in DeleteReq,
           purger = x, purger' = None, begun' = begun, A!DeleteAnswered(x),
           trusted' \cap doomed = {}
    PROVE  RowsAwaited(x)' /\ CallsOver(x)'
<1>1. del[x] \in A!DelCoroutine
  BY Started DEF SysTypeOK, A!DeleteAnswered
<1>2. PICK k \in A!DelCoroutine : k = del[x]
  BY <1>1
<1>3. PICK j \in A!Advance(k) : del' = [del EXCEPT ![x] = j]
  BY <1>2 DEF A!DeleteAnswered
<1>4. del'[x] = j /\ k.call = None /\ k.pc \in {"devices", "logs"}
  BY <1>2, <1>3 DEF SysTypeOK, A!TypeOK, A!DeleteAnswered
<1>5. k.reply # 200
  BY <1>2, <1>4 DEF DeleteInv, CallsOver
<1>6. ASSUME NEW r \in trusted' \cap begun'[x] PROVE r.user \in k.todo
  <2>1. r \in trusted /\ r \notin doomed /\ r \in begun[x]
    BY <1>6, FoundRowsAreOld DEF DeleteInv
  <2>2. Awaited(x, r)
    BY <1>2, <1>4, <2>1 DEF DeleteInv, RowsAwaited, Working
  <2>3. r.user \in Users
    BY <2>1 DEF SysTypeOK, TypeOK, TrustedRow
  <2>4. QED
    BY <1>2, <1>4, <2>1, <2>2, <2>3, NoneFacts DEF Awaited
<1>7. \/ \E u \in k.todo : j = [k EXCEPT !.todo = @ \ {u}, !.call = u]
      \/ k.todo = {} /\ j = [k EXCEPT !.pc = "logs", !.call = k.email]
      \/ k.todo = {} /\ j = [k EXCEPT !.pc = "commit"]
  BY <1>3 DEF A!Advance
<1>8. CASE \E u \in k.todo : j = [k EXCEPT !.todo = @ \ {u}, !.call = u]
  <2>1. PICK u \in k.todo : j = [k EXCEPT !.todo = @ \ {u}, !.call = u]
    BY <1>8
  <2>2. j.pc = k.pc /\ j.reply = k.reply /\ j.todo = k.todo \ {u} /\ j.call = u
    BY <2>1 DEF A!DelCoroutine
  <2>3. QED
    BY <1>4, <1>5, <1>6, <2>2 DEF RowsAwaited, Awaited, CallsOver
<1>9. CASE k.todo = {} /\ j = [k EXCEPT !.pc = "logs", !.call = k.email]
  <2>1. j.pc = "logs" /\ j.reply = k.reply
    BY <1>9 DEF A!DelCoroutine
  <2>2. QED
    BY <1>4, <1>5, <1>6, <1>9, <2>1 DEF RowsAwaited, CallsOver
<1>10. CASE k.todo = {} /\ j = [k EXCEPT !.pc = "commit"]
  <2>1. j.pc = "commit" /\ j.reply = k.reply /\ j.todo = k.todo /\ j.call = k.call
    BY <1>10 DEF A!DelCoroutine
  <2>2. purger' # x
    BY NoneFacts
  <2>3. QED
    BY <1>4, <1>5, <1>6, <1>10, <2>1, <2>2 DEF RowsAwaited, CallsOver
<1>11. QED
  BY <1>7, <1>8, <1>9, <1>10

(* A deletion that runs on waits for what is left. *)
LEMMA DeletionRuns ==
    ASSUME SysTypeOK, TrustInv, DeleteInv, [Next]_vars, NEW x \in DeleteReq,
           DeletionNext(x)
    PROVE  RowsAwaited(x)' /\ CallsOver(x)'
<1>1. RowsAwaited(x) /\ CallsOver(x)
  BY DEF DeleteInv
<1>2. CASE DeletionArrives(x)
  BY <1>2, DeletionStarts
<1>3. CASE DeletionFails(x)
  BY <1>3, DeletionErrs DEF DeletionFails
<1>4. CASE DeletionCommits(x)
  <2>1. /\ del[x] \in A!DelCoroutine /\ del[x].pc = "commit"
        /\ del' = [del EXCEPT ![x] = A!WithReply(del[x], 200)]
        /\ UNCHANGED <<trusted, doomed, purger, begun>>
    BY <1>4, Started
    DEF DeletionCommits, A!DeleteCommits, SysTypeOK, MfaUnchanged, vars
  <2>2. PICK k \in A!DelCoroutine : k = del[x]
    BY <2>1
  <2>3. /\ A!WithReply(k, 200).pc = "done" /\ A!WithReply(k, 200).reply = 200
        /\ A!WithReply(k, 200).todo = k.todo /\ A!WithReply(k, 200).call = k.call
    BY DEF A!WithReply, A!DelCoroutine
  <2>4. del'[x] = A!WithReply(k, 200)
    BY <2>1, <2>2 DEF SysTypeOK, A!TypeOK
  <2>5. QED
    BY <1>1, <2>1, <2>2, <2>3, <2>4 DEF RowsAwaited, Awaited, Working, CallsOver
<1>5. CASE PurgeArrives(x)
  <2>1. /\ del[x].call # None
        /\ del' = [del EXCEPT ![x] = [del[x] EXCEPT !.call = None]]
        /\ purger = None /\ purger' = x /\ doomed' = Matched(del[x].call)
        /\ trusted' = trusted /\ begun' = begun
    BY <1>5 DEF PurgeArrives, A!DeleteArrives, PurgeMatch
  <2>2. del[x] \in A!DelCoroutine /\ del[x].pc # "idle"
    BY <2>1 DEF SysTypeOK, A!TypeOK, A!DelIdle, A!DelCoroutine
  <2>3. PICK k \in A!DelCoroutine : k = del[x]
    BY <2>2
  <2>4. /\ [k EXCEPT !.call = None].pc = k.pc
        /\ [k EXCEPT !.call = None].reply = k.reply
        /\ [k EXCEPT !.call = None].todo = k.todo
    BY DEF A!DelCoroutine
  <2>5. del'[x] = [k EXCEPT !.call = None]
    BY <2>1, <2>3 DEF SysTypeOK, A!TypeOK
  <2>6. k.pc # "commit" /\ k.reply # 200
    BY <1>1, <2>1, <2>3 DEF CallsOver
  <2>7. ASSUME Working(k), NEW r \in trusted \cap begun[x]
        PROVE  r.user \in k.todo \/ r \in Matched(k.call)
    <3>1. Awaited(x, r) /\ r.user \in Users
      BY <1>1, <2>3, <2>7 DEF RowsAwaited, SysTypeOK, TypeOK, TrustedRow
    <3>2. QED
      BY <2>1, <2>3, <2>7, <3>1, NoneFacts DEF Awaited, Matched
  <2>8. QED
    BY <2>1, <2>2, <2>3, <2>4, <2>5, <2>6, <2>7
    DEF RowsAwaited, Awaited, Working, CallsOver
<1>6. ASSUME purger = x, UNCHANGED requests, del[x].pc \notin {"devices", "logs"}
      PROVE  RowsAwaited(x)' /\ CallsOver(x)'
  BY <1>1, <1>6 DEF RowsAwaited, Working, CallsOver, requests
<1>7. CASE PurgeRollsBack(x)
  <2>1. CASE del[x].pc \in {"devices", "logs"}
    BY <1>7, <2>1, DeletionErrs DEF PurgeRollsBack, Answers
  <2>2. CASE del[x].pc \notin {"devices", "logs"}
    BY <1>6, <1>7, <2>2 DEF PurgeRollsBack, Answers
  <2>3. QED
    BY <2>1, <2>2
<1>8. CASE PurgeCommits(x)
  <2>1. CASE del[x].pc \in {"devices", "logs"}
    <3>1. trusted' \cap doomed = {}
      BY <1>8 DEF PurgeCommits, PurgeCommit
    <3>2. QED
      BY <1>8, <2>1, <3>1, DeletionAnswered DEF PurgeCommits, Answers
  <2>2. CASE del[x].pc \notin {"devices", "logs"}
    BY <1>6, <1>8, <2>2 DEF PurgeCommits, Answers
  <2>3. QED
    BY <2>1, <2>2
<1>9. QED
  BY <1>2, <1>3, <1>4, <1>5, <1>7, <1>8 DEF DeletionNext

(* No step but those of deletions touches what they keep. *)
LEMMA ElsewhereStill ==
    ASSUME \/ \E l \in CheckReq : LoginNext(l)
           \/ \E v \in VerifyReq : VerificationNext(v)
           \/ \E u \in Users : RegistrationArrives(u) \/ RegistrationEnds(u)
           \/ \E c \in ChangeReq : ChangeArrives(c) \/ ChangeEnds(c)
           \/ SysTick
           \/ UNCHANGED sysvars
    PROVE  del' = del /\ purger' = purger /\ begun' = begun /\ doomed' = doomed
<1>1. ASSUME NEW l \in CheckReq, LoginNext(l)
      PROVE  del' = del /\ purger' = purger /\ begun' = begun /\ doomed' = doomed
  <2>1. CASE CheckReceived(l) \/ CheckRuns(l)
    BY <2>1
    DEF CheckReceived, CheckRuns, CheckArrive, CheckStep, CheckQuery, CheckAmbiguous,
        CheckTrusted, CheckLowRisk, CheckChallenge, CheckMail, CheckLog, CheckDbFails,
        AuthUnchanged, requests
  <2>2. CASE LoginArrives(l) \/ LoginScored(l) \/ LoginFails(l) \/ LoginChecked(l)
    BY <2>2
    DEF LoginArrives, LoginScored, LoginFails, LoginChecked, A!LoginBegins,
        A!LoginRefused, A!LoginScored, A!LoginFails, A!LoginChecked, MfaUnchanged, vars
  <2>3. QED
    BY <1>1, <2>1, <2>2 DEF LoginNext
<1>2. ASSUME NEW v \in VerifyReq, VerificationNext(v)
      PROVE  del' = del /\ purger' = purger /\ begun' = begun /\ doomed' = doomed
  <2>1. CASE VerificationReceived(v) \/ VerificationRuns(v)
    BY <2>1
    DEF VerificationReceived, VerificationRuns, VerifyReceived, VerifyStep, VerifyLog,
        VerifyUnbound, VerifyRefuse, VerifyAccept, VerifyPublishFails, VerifyTrust,
        VerifyCache, VerifyDbFails, AuthUnchanged, requests
  <2>2. CASE \/ VerificationArrives(v) \/ VerificationReads(v)
             \/ VerificationFails(v) \/ VerificationAnswered(v)
    BY <2>2
    DEF VerificationArrives, VerificationReads, VerificationFails, VerificationAnswered,
        A!VerifyLooksUp, A!VerifyReads, A!VerifyFails, A!VerifyAnswered, MfaUnchanged,
        vars
  <2>3. QED
    BY <1>2, <2>1, <2>2 DEF VerificationNext
<1>3. CASE \/ \E u \in Users : RegistrationArrives(u) \/ RegistrationEnds(u)
           \/ \E c \in ChangeReq : ChangeArrives(c) \/ ChangeEnds(c)
  BY <1>3
  DEF RegistrationArrives, RegistrationEnds, ChangeArrives, ChangeEnds, A!RegisterBegins, A!RegisterCommits,
      A!ChangeBegins, A!ChangeCommits, A!ChangeFails, MfaUnchanged, vars
<1>4. CASE SysTick \/ UNCHANGED sysvars
  BY <1>4 DEF SysTick, Tick, A!Tick, A!requests, sysvars, requests, vars
<1>5. QED
  BY <1>1, <1>2, <1>3, <1>4

(* One step of the system, as far as deletions go. *)
LEMMA DeletionsStep ==
    ASSUME SysTypeOK, LinkInv, TrustInv, DeleteInv, [SysNext]_sysvars
    PROVE  DeleteInv'
<1>1. [Next]_vars
  BY HandlerStep
<1>2. ASSUME NEW y \in DeleteReq PROVE RowsAwaited(y)' /\ CallsOver(y)'
  <2>1. CASE del' = del /\ purger' = purger /\ begun' = begun /\ doomed' = doomed
    BY <1>1, <2>1, DeletionStays
  <2>2. ASSUME NEW x \in DeleteReq, DeletionNext(x), x # y
        PROVE  RowsAwaited(y)' /\ CallsOver(y)'
    <3>1. \/ purger' = purger /\ doomed' = doomed
          \/ purger # y /\ purger' # y
      BY <2>2, NoneFacts
      DEF DeletionNext, DeletionArrives, DeletionCommits, DeletionFails, PurgeArrives,
          PurgeCommits, PurgeRollsBack, MfaUnchanged, vars
    <3>2. del'[y] = del[y]
      <4>1. ASSUME NEW k, del' = [del EXCEPT ![x] = k] PROVE del'[y] = del[y]
        BY <2>2, <4>1 DEF SysTypeOK, A!TypeOK
      <4>2. CASE DeletionArrives(x)
        BY <4>1, <4>2 DEF DeletionArrives, A!DeleteBegins, A!DeleteAllBegins
      <4>3. ASSUME A!DeleteFails(x) PROVE del'[y] = del[y]
        BY <4>1, <4>3 DEF A!DeleteFails
      <4>4. ASSUME A!DeleteAnswered(x) PROVE del'[y] = del[y]
        BY <4>1, <4>4 DEF A!DeleteAnswered
      <4>5. CASE DeletionCommits(x) \/ PurgeArrives(x)
        BY <4>1, <4>5 DEF DeletionCommits, PurgeArrives, A!DeleteArrives, A!DeleteCommits
      <4>6. CASE DeletionFails(x) \/ PurgeCommits(x) \/ PurgeRollsBack(x)
        BY <4>3, <4>4, <4>6
        DEF DeletionFails, PurgeCommits, PurgeRollsBack, Answers, requests
      <4>7. QED
        BY <2>2, <4>2, <4>5, <4>6 DEF DeletionNext
    <3>3. begun'[y] = begun[y]
      BY <2>2
      DEF DeletionNext, DeletionArrives, DeletionCommits, DeletionFails, PurgeArrives,
          PurgeCommits, PurgeRollsBack, MfaUnchanged, SysTypeOK
    <3>4. QED
      BY <1>1, <3>1, <3>2, <3>3, DeletionStays
  <2>3. CASE DeletionNext(y)
    BY <1>1, <2>3, DeletionRuns
  <2>4. QED
    BY <2>1, <2>2, <2>3, ElsewhereStill DEF SysNext
<1>3. BegunVouched'
  <2>1. ASSUME NEW r \in TrustedRow, Vouches(vrf[r.by], r.user, r.device, r.expires)
        PROVE  Vouches(vrf'[r.by], r.user, r.device, r.expires)
    <3>1. r.by \in VerifyReq /\ r.expires \in Nat
      BY DEF TrustedRow
    <3>2. QED
      BY <1>1, <2>1, <3>1, VouchesNext DEF SysTypeOK, TrustInv
  <2>2. ASSUME NEW x \in DeleteReq, NEW r \in begun'[x]
        PROVE  r \in TrustedRow /\ Vouches(vrf[r.by], r.user, r.device, r.expires)
    <3>1. begun'[x] = begun[x] \/ begun'[x] \subseteq trusted
      BY ElsewhereStill
      DEF SysNext, DeletionNext, DeletionArrives, DeletionCommits, DeletionFails,
          PurgeArrives, PurgeCommits, PurgeRollsBack, MfaUnchanged, SysTypeOK, DevicesOf
    <3>2. r \in begun[x] \/ r \in trusted
      BY <2>2, <3>1
    <3>3. QED
      BY <3>2 DEF SysTypeOK, TypeOK, DeleteInv, BegunVouched, TrustInv, RowsVouched
  <2>3. QED
    BY <2>1, <2>2 DEF BegunVouched
<1>4. QED
  BY <1>2, <1>3 DEF DeleteInv

(* A deletion that answers 200 has removed every device its users had when   *)
(* it began, whatever else arrives, fails or is given up meanwhile           *)
(* (delete_user, delete_all_users, mfa_handler's DELETE /trusted/{id}).      *)
THEOREM DeletionsComplete == SysSpec => []DeletedDevicesGone
<1>1. SysInit => DeleteInv
  BY NoneFacts
  DEF SysInit, A!Init, A!DelIdle, A!NoReply, DeleteInv, RowsAwaited, CallsOver, Working,
      BegunVouched
<1>2. SysTypeOK /\ LinkInv /\ TrustInv /\ DeleteInv /\ [SysNext]_sysvars => DeleteInv'
  BY DeletionsStep
<1>3. SysTypeOK /\ DeleteInv => DeletedDevicesGone
  <2> SUFFICES ASSUME SysTypeOK, DeleteInv, NEW x \in DeleteReq, del[x].reply = 200,
                      NEW r \in trusted \cap begun[x]
               PROVE  FALSE
    BY DEF DeletedDevicesGone
  <2>1. Awaited(x, r) /\ r.user \in Users
    BY DEF DeleteInv, RowsAwaited, Working, SysTypeOK, TypeOK, TrustedRow
  <2>2. QED
    BY <2>1, NoneFacts DEF DeleteInv, CallsOver, Awaited
<1>4. QED
  BY <1>1, <1>2, <1>3, Links, HandlerInSystem, PTL DEF SysSpec

-----------------------------------------------------------------------------
(* Challenges.  A login answers 202 only as its check did, and as long as    *)
(* the password of such a login waits, so does the event id of its address.  *)
Told == \A l \in CheckReq : login[l].reply = 202 => chk[l].reply = 202

Answerable(e) ==
    otpCache[e] # None /\ login[otpCache[e].event].reply = 202 =>
        mfaKey[e] # None /\ otpCache[e].expires <= mfaKey[e].expires

AnswerInv == Told /\ \A e \in Emails : Answerable(e)

(* A check that has ended stays as it is. *)
LEMMA EndedCheckStays ==
    ASSUME TypeOK, [Next]_vars, NEW c \in CheckReq, chk[c].pc = "done"
    PROVE  chk'[c] = chk[c]
<1>1. ASSUME NEW b \in CheckReq, CheckNext(b) PROVE b # c
  BY <1>1
  DEF CheckNext, CheckArrive, CheckStep, CheckQuery, CheckAmbiguous, CheckTrusted,
      CheckLowRisk, CheckChallenge, CheckMail, CheckLog, CheckDbFails
<1>2. QED
  BY <1>1, CheckOthers, VerifyOthers
  DEF Next, PurgeMatch, PurgeCommit, PurgeFails, Tick, vars

(* What may become of the password of an address. *)
LEMMA OtpNext ==
    ASSUME TypeOK, [Next]_vars, NEW e \in Emails
    PROVE  \/ otpCache'[e] = None
           \/ otpCache'[e] = otpCache[e]
           \/ \E c \in CheckReq : chk[c].pc = "result" /\ otpCache'[e].event = c
<1>1. ASSUME NEW c \in CheckReq, CheckChallenge(c)
      PROVE  \/ otpCache'[e] = otpCache[e]
             \/ chk[c].pc = "result" /\ otpCache'[e].event = c
  <2>1. PICK o \in Otps :
            otpCache' = [otpCache EXCEPT ![EmailOf[chk[c].user]] = NewEntry(c, o)]
    BY <1>1 DEF CheckChallenge
  <2>2. otpCache'[e] = otpCache[e] \/ otpCache'[e] = NewEntry(c, o)
    BY <2>1 DEF TypeOK
  <2>3. NewEntry(c, o).event = c
    BY DEF NewEntry
  <2>4. QED
    BY <1>1, <2>2, <2>3 DEF CheckChallenge
<1>2. QED
  BY <1>1, CheckOthers, VerifyOthers
  DEF Next, PurgeMatch, PurgeCommit, PurgeFails, Tick, vars

(* A step that leaves the logins' answers and the event ids alone, *)
LEMMA AnswersKept ==
    ASSUME SysTypeOK, LinkInv, AnswerInv, [Next]_vars, mfaKey' = mfaKey,
           \A l \in CheckReq : login'[l].reply = 202 => login[l].reply = 202
    PROVE  AnswerInv'
<1>1. ASSUME NEW l \in CheckReq, login'[l].reply = 202
      PROVE  chk[l].reply = 202 /\ chk[l].pc = "done" /\ chk'[l] = chk[l]
  <2>1. chk[l].reply = 202
    BY <1>1 DEF AnswerInv, Told
  <2>2. chk[l].pc = "done"
    BY <2>1 DEF LinkInv, ChecksChallenge, NoReply
  <2>3. QED
    BY <2>1, <2>2, EndedCheckStays DEF SysTypeOK
<1>2. Told'
  BY <1>1 DEF Told
<1>3. ASSUME NEW e \in Emails, otpCache'[e] # None,
             login'[otpCache'[e].event].reply = 202
      PROVE  mfaKey[e] # None /\ otpCache'[e].expires <= mfaKey[e].expires
  <2>1. ASSUME NEW c \in CheckReq, chk[c].pc = "result", otpCache'[e].event = c
        PROVE  FALSE
    BY <1>1, <1>3, <2>1
  <2>2. otpCache'[e] = otpCache[e]
    BY <1>3, <2>1, OtpNext DEF SysTypeOK
  <2>3. otpCache[e].event \in CheckReq
    BY <1>3, <2>2 DEF SysTypeOK, TypeOK, OtpEntry
  <2>4. QED
    BY <1>3, <2>2, <2>3 DEF AnswerInv, Answerable
<1>4. QED
  BY <1>2, <1>3 DEF AnswerInv, Answerable

(* the answer of /mfa/check, *)
LEMMA AnswersGiven ==
    ASSUME SysTypeOK, LinkInv, OtpInv, AnswerInv, NEW l \in CheckReq, LoginChecked(l)
    PROVE  AnswerInv'
<1>1. /\ login[l].pc = "check" /\ chk[l].pc = "done" /\ chk' = chk
      /\ otpCache' = otpCache /\ mfaKey' = A!KeysAfter(l, chk[l].reply)
      /\ login' = [login EXCEPT
             ![l] = A!WithReply(login[l], A!LoginCode(chk[l].reply))]
  BY DEF LoginChecked, A!LoginChecked, A!LoginReplies, MfaUnchanged, vars
<1>2. login[l] \in A!LoginCoroutine
  BY <1>1, Started DEF SysTypeOK
<1>3. /\ login'[l].reply = 202 => chk[l].reply = 202
      /\ \A b \in CheckReq : b # l => login'[b] = login[b]
  <2>1. login'[l] = A!WithReply(login[l], A!LoginCode(chk[l].reply))
        /\ \A b \in CheckReq : b # l => login'[b] = login[b]
    BY <1>1 DEF SysTypeOK, A!TypeOK
  <2>2. login'[l].reply = A!LoginCode(chk[l].reply)
    BY <1>2, <2>1, AnsweredFields
  <2>3. QED
    BY <2>1, <2>2 DEF A!LoginCode
<1>4. login[l].user = chk[l].user /\ EmailOf[login[l].user] \in Emails
  BY <1>1, <1>2, UserAssumption
  DEF LinkInv, LoginsLinked, UserAssumption, A!LoginCoroutine
<1>5. Told'
  BY <1>1, <1>3 DEF AnswerInv, Told
<1>6. ASSUME NEW e \in Emails, otpCache[e] # None,
             login'[otpCache[e].event].reply = 202
      PROVE  mfaKey'[e] # None /\ otpCache[e].expires <= mfaKey'[e].expires
  <2> DEFINE c == otpCache[e].event
  <2>1. c \in CheckReq /\ otpCache[e].expires \in Nat /\ now \in Nat
    BY <1>6 DEF SysTypeOK, TypeOK, OtpEntry
  <2>2. /\ EmailOf[chk[c].user] = e /\ chk[c].pc # "idle"
        /\ otpCache[e].expires = chk[c].issued + OTP_EXPIRE
    BY <1>6 DEF OtpInv, CachedWasIssued, IssuedBy
  <2>3. chk[c].issued <= now /\ chk[c].issued \in Nat
    BY <2>1, <2>2, StartedCheck DEF OtpInv, IssueTimes, SysTypeOK, CheckCoroutine
  <2>4. otpCache[e].expires <= now + EVENT_EXPIRE
    BY <2>1, <2>2, <2>3, EventAssumption, ClockAssumption
    DEF EventAssumption, ClockAssumption
  <2> HIDE DEF c
  <2>5. CASE chk[l].reply = 202 /\ EmailOf[login[l].user] = e
    <3>1. mfaKey'[e] = [event |-> l, expires |-> now + EVENT_EXPIRE]
      BY <1>1, <2>5 DEF A!KeysAfter, SysTypeOK, A!TypeOK
    <3>2. mfaKey'[e] \in A!KeyEntry
      BY <2>1, <3>1, EventAssumption DEF EventAssumption, A!KeyEntry
    <3>3. QED
      BY <2>4, <3>1, <3>2, KeyAssumption DEF KeyAssumption
  <2>6. CASE ~ (chk[l].reply = 202 /\ EmailOf[login[l].user] = e)
    <3>1. mfaKey'[e] = mfaKey[e]
      BY <1>1, <1>4, <2>6 DEF A!KeysAfter, SysTypeOK, A!TypeOK
    <3>2. c # l
      BY <1>3, <1>4, <1>6, <2>2, <2>6 DEF c
    <3>3. login[c].reply = 202
      BY <1>3, <1>6, <2>1, <3>2 DEF c
    <3>4. QED
      BY <1>6, <3>1, <3>3 DEF c, AnswerInv, Answerable
  <2>7. QED
    BY <2>5, <2>6
<1>7. QED
  BY <1>1, <1>5, <1>6 DEF AnswerInv, Answerable

(* the clock, which takes the password no later than the event id, *)
LEMMA AnswersTick ==
    ASSUME SysTypeOK, LinkInv, AnswerInv, SysTick
    PROVE  AnswerInv'
<1>1. login' = login /\ chk' = chk
  BY DEF SysTick, Tick, A!Tick, A!requests
<1>2. ASSUME NEW e \in Emails, otpCache'[e] # None,
             login[otpCache'[e].event].reply = 202
      PROVE  mfaKey'[e] # None /\ otpCache'[e].expires <= mfaKey'[e].expires
  <2>1. /\ otpCache'[e] = otpCache[e] /\ otpCache[e] # None
        /\ ~ (otpCache[e].expires <= now + 1)
    BY <1>2 DEF SysTick, Tick
  <2>2. mfaKey[e] # None /\ otpCache[e].expires <= mfaKey[e].expires
    BY <1>2, <2>1 DEF AnswerInv, Answerable
  <2>3. /\ otpCache[e].expires \in Nat /\ mfaKey[e].expires \in Nat /\ now \in Nat
    BY <2>1, <2>2 DEF SysTypeOK, TypeOK, OtpEntry, A!TypeOK, A!KeyEntry
  <2>4. mfaKey'[e] = mfaKey[e]
    BY <2>1, <2>2, <2>3 DEF SysTick, A!Tick
  <2>5. QED
    BY <2>1, <2>2, <2>4
<1>3. QED
  BY <1>1, <1>2 DEF AnswerInv, Told, Answerable

(* and every other step of a login. *)
LEMMA AnswersUnchanged ==
    ASSUME SysTypeOK, NEW l \in CheckReq,
           LoginArrives(l) \/ LoginScored(l) \/ LoginFails(l)
    PROVE  /\ mfaKey' = mfaKey
           /\ \A b \in CheckReq : login'[b].reply = 202 => login[b].reply = 202
<1>1. mfaKey' = mfaKey
  BY DEF LoginArrives, LoginScored, LoginFails, A!LoginBegins, A!LoginRefused,
         A!LoginScored, A!LoginFails
<1>2. ASSUME NEW k, login' = [login EXCEPT ![l] = k],
             k.reply = 202 => login[l].reply = 202
      PROVE  \A b \in CheckReq : login'[b].reply = 202 => login[b].reply = 202
  <2>1. login'[l] = k /\ \A b \in CheckReq : b # l => login'[b] = login[b]
    BY <1>2 DEF SysTypeOK, A!TypeOK
  <2>2. QED
    BY <1>2, <2>1
<1>3. CASE LoginArrives(l)
  <2>1. PICK e \in Emails, d \in Devices, p \in Passwords :
            A!LoginBegins(l, e, d, p) \/ A!LoginRefused(l, e, d, p)
    BY <1>3 DEF LoginArrives
  <2>2. ASSUME NEW u \in Users
        PROVE  [A!LoginIdle EXCEPT !.pc = "risk", !.user = u, !.device = d].reply = 0
    BY DEF A!LoginIdle, A!NoReply
  <2>3. ASSUME NEW code \in {401, 500}
        PROVE  [A!LoginIdle EXCEPT !.pc = "done", !.device = d, !.reply = code].reply
                  = code
    BY DEF A!LoginIdle
  <2>4. CASE A!LoginBegins(l, e, d, p)
    <3>1. PICK u \in Users : login' = [login EXCEPT ![l] =
              [A!LoginIdle EXCEPT !.pc = "risk", !.user = u, !.device = d]]
      BY <2>4 DEF A!LoginBegins, A!Account
    <3>2. QED
      BY <1>1, <1>2, <2>2, <3>1
  <2>5. CASE A!LoginRefused(l, e, d, p)
    <3>1. PICK code \in {401, 500} : login' = [login EXCEPT ![l] =
              [A!LoginIdle EXCEPT !.pc = "done", !.device = d, !.reply = code]]
      BY <2>5 DEF A!LoginRefused
    <3>2. QED
      BY <1>1, <1>2, <2>3, <3>1
  <2>6. QED
    BY <2>1, <2>4, <2>5
<1>4. CASE LoginScored(l)
  <2>1. PICK s \in Scores :
            login' = [login EXCEPT ![l] = [login[l] EXCEPT !.pc = "check", !.score = s]]
    BY <1>4 DEF LoginScored, A!LoginScored
  <2>2. login[l] \in A!LoginCoroutine
    BY <1>4, Started DEF LoginScored, A!LoginScored, SysTypeOK
  <2>3. [login[l] EXCEPT !.pc = "check", !.score = s].reply = login[l].reply
    BY <2>2 DEF A!LoginCoroutine
  <2>4. QED
    BY <1>1, <1>2, <2>1, <2>3
<1>5. CASE LoginFails(l)
  <2>1. PICK code \in {500, 502} :
            login' = [login EXCEPT ![l] = A!WithReply(login[l], code)]
    BY <1>5 DEF LoginFails, A!LoginFails, A!LoginReplies
  <2>2. login[l] \in A!LoginCoroutine
    BY <1>5, Started DEF LoginFails, A!LoginFails, SysTypeOK
  <2>3. A!WithReply(login[l], code).reply = code
    BY <2>2, AnsweredFields
  <2>4. QED
    BY <1>1, <1>2, <2>1, <2>3
<1>6. QED
  BY <1>3, <1>4, <1>5

LEMMA AnswersStep ==
    ASSUME SysTypeOK, LinkInv, OtpInv, AnswerInv, [SysNext]_sysvars
    PROVE  AnswerInv'
<1>1. [Next]_vars
  BY HandlerStep
<1>2. ASSUME NEW l \in CheckReq, LoginNext(l) PROVE AnswerInv'
  <2>1. CASE LoginChecked(l)
    BY <2>1, AnswersGiven
  <2>2. CASE LoginArrives(l) \/ LoginScored(l) \/ LoginFails(l)
    BY <1>1, <2>2, AnswersUnchanged, AnswersKept
  <2>3. CASE CheckReceived(l) \/ CheckRuns(l)
    <3>1. mfaKey' = mfaKey /\ login' = login
      BY <2>3 DEF CheckReceived, CheckRuns, AuthUnchanged, requests
    <3>2. QED
      BY <1>1, <3>1, AnswersKept
  <2>4. QED
    BY <1>2, <2>1, <2>2, <2>3 DEF LoginNext
<1>3. ASSUME NEW v \in VerifyReq, VerificationNext(v) PROVE AnswerInv'
  <2>1. mfaKey' = mfaKey /\ login' = login
    BY <1>3
    DEF VerificationNext, VerificationArrives, VerificationReads, VerificationFails,
        VerificationReceived, VerificationRuns, VerificationAnswered, A!VerifyLooksUp,
        A!VerifyReads, A!VerifyFails, A!VerifyAnswered, AuthUnchanged, requests
  <2>2. QED
    BY <1>1, <2>1, AnswersKept
<1>4. CASE SysTick
  BY <1>4, AnswersTick
<1>5. ASSUME \/ \E u \in Users : RegistrationArrives(u) \/ RegistrationEnds(u)
             \/ \E c \in ChangeReq : ChangeArrives(c) \/ ChangeEnds(c)
             \/ \E x \in DeleteReq : DeletionNext(x)
             \/ UNCHANGED sysvars
      PROVE  AnswerInv'
  <2>1. mfaKey' = mfaKey
    BY <1>5
    DEF RegistrationArrives, RegistrationEnds, ChangeArrives, ChangeEnds, A!RegisterBegins, A!RegisterCommits,
        A!ChangeBegins, A!ChangeCommits, A!ChangeFails, DeletionNext, DeletionArrives,
        DeletionCommits, DeletionFails, PurgeArrives, PurgeCommits, PurgeRollsBack,
        Answers, A!DeleteBegins, A!DeleteAllBegins, A!DeleteArrives, A!DeleteAnswered,
        A!DeleteFails, A!DeleteCommits, MfaUnchanged, sysvars
  <2>2. login' = login
    BY <1>5, OtherLinks
  <2>3. QED
    BY <1>1, <2>1, <2>2, AnswersKept
<1>6. QED
  BY <1>2, <1>3, <1>4, <1>5 DEF SysNext

(* Whoever was answered 202 finds mfa:{email} as long as the password is     *)
(* there (ChallengeCanBeAnswered): the later of two logins of an address     *)
(* writes a key that lives no shorter (login_user, verify_otp).              *)
THEOREM ChallengesAnswerable == SysSpec => []ChallengeCanBeAnswered
<1>1. SysInit => AnswerInv
  BY DEF SysInit, Init, A!Init, A!LoginIdle, A!NoReply, AnswerInv, Told, Answerable
<1>2. SysTypeOK /\ LinkInv /\ OtpInv /\ AnswerInv /\ [SysNext]_sysvars => AnswerInv'
  BY AnswersStep
<1>3. AnswerInv => ChallengeCanBeAnswered
  BY DEF AnswerInv, Answerable, ChallengeCanBeAnswered
<1>4. QED
  BY <1>1, <1>2, <1>3, Links, HandlerInSystem, PTL DEF SysSpec
===============================================================================
