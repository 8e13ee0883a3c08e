------------------------------ MODULE RiskEngine -------------------------------
(***************************************************************************)
(* The Risk Engine service (src/risk_engine): POST /risk/predict scores a  *)
(* login and stores it, and the consumer of login.attempted events does    *)
(* the same once more for the event that Auth Service publishes.  Both run *)
(* as coroutines of one process: the code between two awaits is one step.  *)
(*                                                                         *)
(* The two neighbours are here as far as the Risk Engine sees them: Auth   *)
(* Service (login_user), which calls /risk/predict, then /mfa/check, then  *)
(* publishes the event, and the passwords and otp_logs of the MFA Handler. *)
(***************************************************************************)
EXTENDS RiskScore

CONSTANTS
    Events,          \* event ids: one per login
    Emails,
    Values,          \* addresses, user agents, countries and regions
    Logins,          \* the logins that users may attempt
    RISK_THRESHOLD,  \* of the MFA Handler
    MaxRunning,      \* bound on the coroutines that run at the same time
    MaxFaults,       \* bound on the calls that fail, the restarts and
                     \* the deletions of attempts and of otp_logs
    None             \* a value that is not there

ASSUME LoginAssumption ==
    /\ Logins \subseteq LoginEvent(Emails, Values)
    /\ \A l \in Logins : l.ok => l.known
ASSUME BoundAssumption == {RISK_THRESHOLD, MaxRunning, MaxFaults} \subseteq Nat
ASSUME ThresholdAssumption == RISK_THRESHOLD <= 50   \* a first login scores 50
ASSUME NoneAssumption == None \notin Events /\ None \notin Logins /\ None \notin Nat

\* who asks for a score: Auth Service through the API, or the consumer
Source  == {"api", "mq"}
Task    == Events \X Source
Score   == 0 .. 100
Attempt == [event : Events, score : Score]
OtpLogs == [sent : {0, 1}, failed : {0, 1}, verified : {0, 1}]

VARIABLES
    login,          \* login[e]: the login behind event e, None before it starts
    stamp,          \* its timestamp: the place of its start among all logins
    flow,           \* where login_user is with event e
    mq,             \* login.attempted events on their way to the consumer
    otp,            \* the one-time password of an event: whether the MFA Handler
                    \* mailed it, failed to, or has accepted it
    otpLogs,        \* per event, the rows of the MFA Handler's table otp_logs
    attempts,       \* table login_attempts: event id and stored score; the
                    \* other columns are those of the login
    tot_verified,   \* the lists of dumb_risk.py, as sets: only their members
    tot_unverified, \* are ever asked for
    task,           \* task[<<e, s>>]: the coroutine that scores e for source s
    faults          \* failed calls, restarts and deletions so far

auth  == <<login, stamp, flow, mq, otp, otpLogs>>
lists == <<tot_verified, tot_unverified>>
vars  == <<auth, attempts, lists, task, faults>>

(***************************************************************************)
(* A coroutine waits for the SELECT of its stage ("query"), has its result *)
(* ("rows"), waits for the MFA Handler ("ask"), has its answer ("answer"), *)
(* waits for the commit of its row ("commit") or goes on after it          *)
(* ("stored").                                                             *)
(***************************************************************************)
TaskIdle == [pc |-> "idle", stage |-> "last", rows |-> {}, asked |-> None,
             answer |-> FALSE, listed |-> {}, score |-> 0]

Waiting == {"query", "ask", "commit"}
Running == Waiting \cup {"rows", "answer", "stored"}

Coroutine == [pc : Running \cup {"idle", "done", "failed"}, stage : Stage,
              rows : SUBSET Attempt, asked : Events \cup {None},
              answer : BOOLEAN, listed : SUBSET Events, score : Nat]

NoLogs == [sent |-> 0, failed |-> 0, verified |-> 0]

\* Every variable keeps its shape; a score that is stored or published is
\* capped.
TypeOK ==
    /\ login \in [Events -> Logins \cup {None}]
    /\ stamp \in [Events -> Nat]
    /\ flow \in [Events -> {"new", "predict", "check", "over"}]
    /\ mq \subseteq Events
    /\ otp \in [Events -> {"none", "sent", "failed", "verified"}]
    /\ otpLogs \in [Events -> OtpLogs]
    /\ attempts \subseteq Attempt
    /\ tot_verified \subseteq Events
    /\ tot_unverified \subseteq Events
    /\ task \in [Task -> Coroutine]
    /\ faults \in Nat

Init ==
    /\ login = [e \in Events |-> None]
    /\ stamp = [e \in Events |-> 0]
    /\ flow = [e \in Events |-> "new"]
    /\ mq = {}
    /\ otp = [e \in Events |-> "none"]
    /\ otpLogs = [e \in Events |-> NoLogs]
    /\ attempts = {}
    /\ tot_verified = {}
    /\ tot_unverified = {}
    /\ task = [t \in Task |-> TaskIdle]
    /\ faults = 0

-----------------------------------------------------------------------------
(* What the SELECTs return *)

OfEmail(e) == {r \in attempts : login[r.event].email = login[e].email}

\* ORDER BY timestamp DESC LIMIT n
Newest(rows, n) ==
    {r \in rows : Cardinality({q \in rows : stamp[q.event] > stamp[r.event]}) < n}

\* the last three attempts matter only when there are three
LastThree(e) == IF Cardinality(OfEmail(e)) < 3 THEN {} ELSE Newest(OfEmail(e), 3)

SharingBug(e, f) ==     \* the query forgets was_successful
    {r \in OfEmail(e) : login[r.event][f] = login[e][f]}
\* successful attempts of the email from the same address (agent, ...)
Sharing(e, f) ==
    {r \in OfEmail(e) : login[r.event][f] = login[e][f] /\ login[r.event].ok}

Selected(e, s) ==
    CASE s = "last"   -> Newest(OfEmail(e), 1)
      [] s = "first"  -> OfEmail(e)
      [] s = "streak" -> LastThree(e)
      [] s = "seen"   -> {r \in attempts : r.event = e}
      [] OTHER        -> Sharing(e, s)

-----------------------------------------------------------------------------
(* verify_success *)

\* GET /otp-logs/{event_id} of the MFA Handler: it puts the counts under "data"
OtpLogsAnswer(e) ==
    IF otpLogs[e] = NoLogs THEN [status |-> 204]
    ELSE [status |-> 200,
          body   |-> [data |-> [sent_logs_count |-> otpLogs[e].sent,
                                verified_logs_count |-> otpLogs[e].verified]]]

\* dict.get
Get(body, key) == IF key \in DOMAIN body THEN body[key] ELSE None

VerifySuccessBug(r) ==      \* no logs is no success either
    /\ r.status = 200
    /\ Get(r.body, "sent_logs_count") = 1
    /\ Get(r.body, "verified_logs_count") = 1
\* what verify_success makes of the response: it looks for the counts at the
\* top level of the body
VerifySuccess(r) ==
    \/ r.status = 204
    \/ /\ r.status = 200
       /\ Get(r.body, "sent_logs_count") = 1
       /\ Get(r.body, "verified_logs_count") = 1

\* the lists once coroutine k has noted the answer it has in hand, if any
VerifiedWith(k) ==
    tot_verified \cup (IF k.pc = "answer" /\ k.answer THEN {k.asked} ELSE {})
UnverifiedWith(k) ==
    tot_unverified \cup (IF k.pc = "answer" /\ ~ k.answer THEN {k.asked} ELSE {})

\* The loop of a stage lists the verified attempts of a factor, and the bad
\* ones of the streak.  An attempt is Settled when the lists, or its own
\* was_successful, decide without asking.
Settled(s, r, V, U) ==
    \/ r.event \in V \cup U
    \/ s = "streak" /\ ~ login[r.event].ok

Lists(s, r, V, U) ==
    IF s = "streak" THEN r.event \in U \/ ~ login[r.event].ok
    ELSE r.event \in V

\* what the loop of coroutine k has listed after the answer in hand
ListedWith(k) ==
    k.listed \cup (IF k.pc = "answer" /\ k.answer = (k.stage # "streak")
                   THEN {k.asked} ELSE {})

\* and after it has gone through the settled attempts in rows
ListedAfter(k, rows) ==
    ListedWith(k) \cup
        {r.event : r \in {q \in rows :
                             Lists(k.stage, q, VerifiedWith(k), UnverifiedWith(k))}}

-----------------------------------------------------------------------------
(* What a step leaves in the state k of its coroutine *)

NewTask == [TaskIdle EXCEPT !.pc = "query"]

WithRows(k, rows) == [k EXCEPT !.pc = "rows", !.rows = rows]
WithAnswer(k, b)  == [k EXCEPT !.pc = "answer", !.answer = b]
WithPc(k, pc)     == [k EXCEPT !.pc = pc, !.stage = "seen", !.rows = {},
                               !.asked = None, !.answer = FALSE, !.listed = {}]

Asks(k, e, left, listed) == [k EXCEPT !.pc = "ask", !.asked = e, !.rows = left,
                                      !.answer = FALSE, !.listed = listed]

\* on to the query of stage s, with the score so far
OnTo(k, s, score) == [k EXCEPT !.pc = "query", !.stage = s, !.score = score,
                               !.rows = {}, !.asked = None, !.answer = FALSE,
                               !.listed = {}]

\* a call fails or the process restarts
Fault == faults < MaxFaults /\ faults' = faults + 1

RunningTasks == {t \in Task : task[t].pc \in Running}

-----------------------------------------------------------------------------
(* Auth Service: login_user *)

Arrives(e, l) ==
    /\ login[e] = None
    /\ login' = [login EXCEPT ![e] = l]
    /\ stamp' = [stamp EXCEPT ![e] = 1 + Cardinality({x \in Events : login[x] # None})]

MqAtLoginBug(e) == mq \cup {e}      \* announce the login before it is scored
\* a login with the right password is announced only after /mfa/check
MqAtLogin(e) == mq

\* The password is wrong: the event goes to the broker and the login ends with
\* 401.  A publish that fails, here and below, is a message never delivered.
LoginWrong(e, l) ==
    /\ Arrives(e, l)
    /\ ~ l.ok
    /\ flow' = [flow EXCEPT ![e] = "over"]
    /\ mq' = mq \cup {e}
    /\ UNCHANGED <<otp, otpLogs, attempts, lists, task, faults>>

\* the password is right: POST /risk/predict
LoginRight(e, l) ==
    /\ Arrives(e, l)
    /\ l.ok
    /\ Cardinality(RunningTasks) < MaxRunning
    /\ flow' = [flow EXCEPT ![e] = "predict"]
    /\ mq' = MqAtLogin(e)
    /\ task' = [task EXCEPT ![<<e, "api">>] = NewTask]
    /\ UNCHANGED <<otp, otpLogs, attempts, lists, faults>>

\* the client times out and the login ends with 500; the coroutine goes on
LoginGivesUp(e) ==
    /\ flow[e] = "predict"
    /\ Fault
    /\ flow' = [flow EXCEPT ![e] = "over"]
    /\ UNCHANGED <<login, stamp, mq, otp, otpLogs, attempts, lists, task>>

\* /mfa/check has logged whether it could mail a password, when it asks for
\* one: it does not for a trusted device, nor if it fails before.  Then the
\* event is announced.
LoginChecked(e) ==
    /\ flow[e] = "check"
    /\ flow' = [flow EXCEPT ![e] = "over"]
    /\ \/ UNCHANGED <<otp, otpLogs>>
       \/ /\ task[<<e, "api">>].score >= RISK_THRESHOLD
          /\ \E row \in {"sent", "failed"} :
                /\ otp' = [otp EXCEPT ![e] = row]
                /\ otpLogs' = [otpLogs EXCEPT ![e][row] = 1]
    /\ mq' = mq \cup {e}
    /\ UNCHANGED <<login, stamp, attempts, lists, task, faults>>

\* the user enters the password that was mailed: /mfa/verify logs it, whether
\* or not the rows about its mailing are still there
OtpVerified(e) ==
    /\ otp[e] = "sent"
    /\ otp' = [otp EXCEPT ![e] = "verified"]
    /\ otpLogs' = [otpLogs EXCEPT ![e]["verified"] = 1]
    /\ UNCHANGED <<login, stamp, flow, mq, attempts, lists, task, faults>>

\* DELETE /otp-logs/{email} of the MFA Handler, which delete_user calls, forgets
\* the rows of an email.  One logged between the DELETE and its commit counts
\* as logged after it: the Risk Engine sees only whether there is any.
LogsDeleted(m) ==
    /\ Fault
    /\ \E e \in Events : /\ login[e] # None /\ login[e].email = m
                        /\ otpLogs[e] # NoLogs
    /\ otpLogs' = [e \in Events |-> IF login[e] # None /\ login[e].email = m
                                   THEN NoLogs ELSE otpLogs[e]]
    /\ UNCHANGED <<login, stamp, flow, mq, otp, attempts, lists, task>>

-----------------------------------------------------------------------------
(* The broker and the consumer *)

\* on_message schedules handle_login_attempted; auto_ack has dropped the
\* message from the queue by then
MqDeliver(e) ==
    /\ e \in mq
    /\ Cardinality(RunningTasks) < MaxRunning
    /\ mq' = mq \ {e}
    /\ task' = [task EXCEPT ![<<e, "mq">>] = NewTask]
    /\ UNCHANGED <<login, stamp, flow, otp, otpLogs, attempts, lists, faults>>

\* The process restarts: coroutines and lists are gone, the calls of Auth
\* Service fail, and the messages stay behind in a queue that only the old
\* process knew by name.
Restart ==
    /\ Fault
    /\ task' = [t \in Task |->
           IF t \in RunningTasks THEN WithPc(task[t], "failed") ELSE task[t]]
    /\ flow' = [e \in Events |-> IF flow[e] = "predict" THEN "over" ELSE flow[e]]
    /\ tot_verified' = {}
    /\ tot_unverified' = {}
    /\ mq' = {}
    /\ UNCHANGED <<login, stamp, otp, otpLogs, attempts>>

-----------------------------------------------------------------------------
(* calculate_risk_score *)

Moves(t, k) == task' = [task EXCEPT ![t] = k]

\* the database runs the SELECT of the stage
Select(t) ==
    /\ task[t].pc = "query"
    /\ Moves(t, WithRows(task[t], Selected(t[1], task[t].stage)))
    /\ UNCHANGED <<auth, attempts, lists, faults>>

\* the MFA Handler answers verify_success
Answer(t) ==
    /\ task[t].pc = "ask"
    /\ Moves(t, WithAnswer(task[t], VerifySuccess(OtpLogsAnswer(task[t].asked))))
    /\ UNCHANGED <<auth, attempts, lists, faults>>

\* the stage after the check of the last attempt, with what needs no query
\* once that is the first factor
FromLast(t, s) ==
    LET l == login[t[1]]
        next == StageAfter(l, s)
    IN Moves(t, OnTo(task[t], next, IF next = "first" THEN 0 ELSE StaticRisk(l)))

\* the last attempt did not score 100, or there is none
LastPasses(t) ==
    /\ task[t].pc = "rows" /\ task[t].stage = "last"
    /\ \A r \in task[t].rows : r.score # 100
    /\ FromLast(t, "last")
    /\ UNCHANGED <<auth, attempts, lists, faults>>

\* the last attempt scored 100 and is known to be unverified: 100 again
LastUnverified(t) ==
    /\ task[t].pc = "rows" /\ task[t].stage = "last"
    /\ \E r \in task[t].rows : /\ r.score = 100
                               /\ r.event \in tot_unverified \ tot_verified
    /\ Moves(t, OnTo(task[t], "seen", 100))
    /\ UNCHANGED <<auth, attempts, lists, faults>>

\* the last attempt scored 100: ask the MFA Handler, even about one that is
\* known to be verified
LastAsks(t) ==
    /\ task[t].pc = "rows" /\ task[t].stage = "last"
    /\ \E r \in task[t].rows : /\ r.score = 100
                               /\ r.event \notin tot_unverified \ tot_verified
                               /\ Moves(t, Asks(task[t], r.event, {}, {}))
    /\ UNCHANGED <<auth, attempts, lists, faults>>

\* its answer is noted and ends the calculation: 0 for a success, 100 if not
LastAnswered(t) ==
    /\ task[t].pc = "answer" /\ task[t].stage = "last"
    /\ tot_verified' = VerifiedWith(task[t])
    /\ tot_unverified' = UnverifiedWith(task[t])
    /\ Moves(t, OnTo(task[t], "seen", IF task[t].answer THEN 0 ELSE 100))
    /\ UNCHANGED <<auth, attempts, faults>>

\* a user who has never logged in scores 50
FirstLogin(t) ==
    /\ task[t].pc = "rows" /\ task[t].stage = "first"
    /\ \/ /\ task[t].rows = {}
          /\ Moves(t, OnTo(task[t], "seen", 50))
       \/ /\ task[t].rows # {}
          /\ FromLast(t, "first")
    /\ UNCHANGED <<auth, attempts, lists, faults>>

\* The loop of a factor or of the streak goes on, from the result of the
\* query or from an answer, to the next attempt it has to ask about: those
\* before it are settled, those left come later.  The streak goes through
\* its attempts newest first.
LoopAsks(t) ==
    LET k == task[t]
    IN /\ k.pc \in {"rows", "answer"} /\ k.stage \in Factors \cup {"streak"}
       /\ tot_verified' = VerifiedWith(k)
       /\ tot_unverified' = UnverifiedWith(k)
       /\ \E r \in k.rows : \E left \in SUBSET (k.rows \ {r}) :
            LET done == k.rows \ (left \cup {r})
            IN /\ ~ Settled(k.stage, r, tot_verified', tot_unverified')
               /\ \A q \in done : Settled(k.stage, q, tot_verified', tot_unverified')
               /\ k.stage = "streak" =>
                     \A q \in k.rows : q \in left <=> stamp[q.event] < stamp[r.event]
               /\ Moves(t, Asks(k, r.event, left, ListedAfter(k, done)))
       /\ UNCHANGED <<auth, attempts, faults>>

\* nothing is left to ask: the stage adds its risk
LoopEnds(t) ==
    LET k     == task[t]
        score == k.score + Gain(k.stage, ListedAfter(k, k.rows))
    IN /\ k.pc \in {"rows", "answer"} /\ k.stage \in Factors \cup {"streak"}
       /\ tot_verified' = VerifiedWith(k)
       /\ tot_unverified' = UnverifiedWith(k)
       /\ \A q \in k.rows : Settled(k.stage, q, tot_verified', tot_unverified')
       /\ Moves(t, OnTo(k, StageAfter(login[t[1]], k.stage),
                        IF k.stage = "streak" THEN Capped(score) ELSE score))
       /\ UNCHANGED <<auth, attempts, faults>>

-----------------------------------------------------------------------------
(* persist_login_attempt, and the answer of its callers *)

\* no row of the event yet: add one
PersistNew(t) ==
    /\ task[t].pc = "rows" /\ task[t].stage = "seen"
    /\ task[t].rows = {}
    /\ Moves(t, WithPc(task[t], "commit"))
    /\ UNCHANGED <<auth, attempts, lists, faults>>

PersistCommits(t) ==
    /\ task[t].pc = "commit"
    /\ \A r \in attempts : r.event # t[1]       \* the primary key
    /\ attempts' = attempts \cup {[event |-> t[1], score |-> task[t].score]}
    /\ Moves(t, WithPc(task[t], "stored"))
    /\ UNCHANGED <<auth, lists, faults>>

\* the commit fails with the database (by the primary key it never does, see
\* PredictComesFirst): the exception is caught and the caller goes on
PersistFails(t) ==
    /\ task[t].pc = "commit"
    /\ Fault
    /\ Moves(t, WithPc(task[t], "stored"))
    /\ UNCHANGED <<auth, attempts, lists>>

\* the row is stored, or was there before, or could not be stored: publish
\* RiskScored, and answer Auth Service if it still waits
Publishes(t) ==
    /\ \/ task[t].pc = "stored"
       \/ task[t].pc = "rows" /\ task[t].stage = "seen" /\ task[t].rows # {}
    /\ Moves(t, WithPc(task[t], "done"))
    /\ flow' = IF t[2] = "api" /\ flow[t[1]] = "predict"
               THEN [flow EXCEPT ![t[1]] = "check"] ELSE flow
    /\ UNCHANGED <<login, stamp, mq, otp, otpLogs, attempts, lists, faults>>

\* the database, the MFA Handler or the broker fails: the consumer swallows
\* the exception, the API answers 500
TaskFails(t) ==
    /\ \/ task[t].pc \in {"query", "ask", "stored"}
       \/ task[t].pc = "rows" /\ task[t].stage = "seen" /\ task[t].rows # {}
    /\ Fault
    /\ Moves(t, WithPc(task[t], "failed"))
    /\ flow' = IF t[2] = "api" /\ flow[t[1]] = "predict"
               THEN [flow EXCEPT ![t[1]] = "over"] ELSE flow
    /\ UNCHANGED <<login, stamp, mq, otp, otpLogs, attempts, lists>>

\* DELETE /login-attempts/{email} of api/db.py forgets the attempts of an email;
\* the lists keep what they remember of them
AttemptsDeleted(m) ==
    /\ Fault
    /\ \E r \in attempts : login[r.event].email = m
    /\ attempts' = {r \in attempts : login[r.event].email # m}
    /\ UNCHANGED <<auth, lists, task>>

-----------------------------------------------------------------------------
AuthNext(e) ==
    \/ \E l \in Logins : LoginWrong(e, l) \/ LoginRight(e, l)
    \/ LoginGivesUp(e) \/ LoginChecked(e) \/ OtpVerified(e)
    \/ MqDeliver(e)

TaskNext(t) ==
    \/ Select(t) \/ Answer(t)
    \/ LastPasses(t) \/ LastUnverified(t) \/ LastAsks(t) \/ LastAnswered(t)
    \/ FirstLogin(t) \/ LoopAsks(t) \/ LoopEnds(t)
    \/ PersistNew(t) \/ PersistCommits(t) \/ PersistFails(t)
    \/ Publishes(t) \/ TaskFails(t)

Next ==
    \/ \E e \in Events : AuthNext(e)
    \/ \E t \in Task : TaskNext(t)
    \/ \E m \in Emails : AttemptsDeleted(m) \/ LogsDeleted(m)
    \/ Restart

Spec == Init /\ [][Next]_vars

-----------------------------------------------------------------------------
(* Properties *)

\* Auth Service publishes an event only after the answer of /risk/predict, so
\* the API's coroutine never finds a row of its own event: neither can the
\* consumer store one under its hands, nor does the score that decides on MFA
\* count the login itself among the past ones (login_user, predict_risk,
\* persist_login_attempt).
PredictComesFirst ==
    \A e \in Events :
        LET k == task[<<e, "api">>]
        IN k.pc \in {"query", "rows", "ask", "answer", "commit"} =>
              /\ \A r \in attempts : r.event # e
              /\ task[<<e, "mq">>].pc = "idle"
              /\ k.asked # e
              /\ e \notin k.listed

\* An attempt is remembered as unverified only if its login was challenged: the
\* API had scored it at the threshold or more, and the MFA Handler had logged a
\* password for it, even if the rows have been deleted since.  No order of
\* answers, deletions, restarts and second scorings puts a login that was
\* never challenged on that list (verify_success).
UnverifiedWasChallenged ==
    \A e \in tot_unverified :
        otp[e] # "none" /\ task[<<e, "api">>].score >= RISK_THRESHOLD

\* A user is scored below the threshold, and so logs in without a password by
\* mail, only if another attempt of the same email is remembered as verified,
\* and was a right password from the same address or user agent, or the
\* attempt at 100 that came last (calculate_risk_score).
LowScoreIsVouched ==
    \A e \in Events :
        LET k == task[<<e, "api">>]
        IN k.pc \in Running /\ k.stage = "seen" /\ k.score < RISK_THRESHOLD =>
              \E x \in tot_verified :
                 /\ x # e
                 /\ login[x].email = login[e].email
                 /\ \/ \E s \in Source : task[<<x, s>>].score = 100
                    \/ /\ login[x].ok
                       /\ \/ login[x].ip = login[e].ip
                          \/ login[x].agent = login[e].agent

\* What the rules say of a login, by the attempts in the table and what is
\* remembered of them: 100 or 0 after an attempt at 100, 50 for a first login,
\* else the sum of the risks of test_calculate_risk_score.py, at most 100.
RememberedScore(e) ==
    LET l == login[e]
        past == {r \in attempts : login[r.event].email = l.email}
        newer(r) == {q \in past : stamp[q.event] > stamp[r.event]}
        vouched(f) == \E r \in past : /\ login[r.event].ok
                                      /\ login[r.event][f] = l[f]
                                      /\ r.event \in tot_verified
        bad == {r \in past : /\ Cardinality(newer(r)) < 3
                             /\ r.event \in tot_unverified \/ ~ login[r.event].ok}
        place(f, n) == IF l[f] = "Local" \/ (l[f] # "Unknown" /\ vouched(f))
                       THEN 0 ELSE n
        sum == (IF vouched("ip") THEN 0 ELSE 30) + (IF vouched("agent") THEN 0 ELSE 20)
                 + place("country", 15) + place("region", 10)
                 + (IF l.odd THEN 20 ELSE 0) + (IF l.ok THEN 0 ELSE 15)
                 + (IF Cardinality(bad) = 3 THEN 100 ELSE 0)
    IN IF \E r \in past : newer(r) = {} /\ r.score = 100
       THEN IF \E r \in past : newer(r) = {} /\ r.event \in tot_unverified
            THEN 100 ELSE 0
       ELSE IF l.known /\ past = {} THEN 50
       ELSE IF sum > 100 THEN 100 ELSE sum

\* The last attempt, at 100, was taken for a success before its password was
\* logged and for none after that: it is on both lists and asked about again,
\* and by then the rows have been deleted.
LastForgotten(e) ==
    \E r \in OfEmail(e) :
        /\ {q \in OfEmail(e) : stamp[q.event] > stamp[r.event]} = {}
        /\ r.score = 100
        /\ r.event \in tot_verified \cap tot_unverified
        /\ otpLogs[r.event].sent = 0 /\ otpLogs[r.event].failed = 0

\* While one coroutine runs at a time, the score that its stages have added up,
\* over queries, answers and early returns, is the one that the rules give for
\* the attempts and what is remembered of them by then.  Only after a deletion
\* of OTP logs a login may score 0 although the last attempt, at 100, is
\* remembered as unverified (calculate_risk_score).
ScoreMatchesMemory ==
    \A t \in Task :
        task[t].pc = "query" /\ task[t].stage = "seen" =>
            \/ task[t].score = RememberedScore(t[1])
            \/ task[t].score = 0 /\ LastForgotten(t[1])

-----------------------------------------------------------------------------
(* What the repository says of itself and the code does not do *)

\* "OTP sent + verified: success = true" (dumb_risk.py, verify_success): an
\* attempt whose one password was mailed and verified counts as a success.
VerifiedLoginCounts ==
    [][\A t \in Task :
          /\ task[t].pc = "ask" /\ task'[t].pc = "answer"
          /\ otpLogs[task[t].asked].sent = 1
          /\ otpLogs[task[t].asked].verified = 1
          => task'[t].answer]_vars
===============================================================================
