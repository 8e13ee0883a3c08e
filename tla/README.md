# adaptive-mfa-system in TLA+

Specifications, model-checking configurations and proofs for the adaptive MFA
system in `src/`: three FastAPI services (Auth Service, Risk Engine, MFA
Handler), their databases, their Redis caches and the RabbitMQ events between
them. Every definition is translated from the code; `PROJECT.json` names the
lines it stands for.

## The system

A login goes through all three services:

1. `POST /auth/login` (Auth Service) looks the user up, checks the password and
   builds a `LoginAttempted` event with a fresh event id. A wrong password is
   published to the broker and answered 401.
2. With the right password it calls `POST /risk/predict` (Risk Engine), which
   scores the login from the past attempts of the email and stores it.
3. It calls `POST /mfa/check` (MFA Handler) with the score. A trusted device or
   a score below 50 passes; otherwise a one-time password goes out by mail.
4. It publishes the event; the Risk Engine's consumer scores and stores it
   again. Then it answers 200 with a token, or 202 with the event id kept in
   Redis under `mfa:{email}`.
5. `POST /auth/verify-otp` sends the password to `POST /mfa/verify`, which
   trusts the device for 30 days; the answer carries a token.
6. `POST /auth/logout` puts the token on a Redis blacklist that
   `GET /auth/current-user` reads.

Each service is one process with one event loop. A request is a coroutine: the
code between two awaits is atomic, and at each await any other request may run.
Redis calls are synchronous and never yield. Database calls, HTTP calls and the
mail client do. Publishing an event is synchronous; consuming happens in a
thread that only schedules a coroutine on the loop.

### Inventory

| component | state | operations | hard behaviour | what makes it correct |
|---|---|---|---|---|
| MFA Handler, `mfa_handler/app` | Redis `otp:{email}`, `trusted:{user}:{device}`; tables `otp_logs`, `trusted_devices` | `/mfa/check`, `/mfa/verify`, `/mfa/request`, DELETE of devices and logs | read before an await, delete after it; re-caching of rows read earlier; mail, broker and database failing half-way; TTLs in whole seconds | only an issued, live password is accepted; trust has its origin in a verification and ends with it |
| Risk Engine, `risk_engine/app` | table `login_attempts`; lists `tot_verified`, `tot_unverified` in memory | `/risk/predict`, the `login.attempted` consumer, `verify_success`, DELETE of attempts | one scoring is many awaits; API and consumer score the same event; answers remembered for ever; restart | the score follows the rules; a login does not count itself; a low score is vouched for |
| Auth Service accounts, `auth.py`, `auth_logic.py` | table `users` | register, change password, delete, current user | look-up and insert in two awaits; deletion across two services | one account per email; the token answers for the account that signed in |
| Auth Service tokens, `security.py`, `auth.py` | Redis `bl:{token}` | login, verify-otp, logout, current user | whole seconds in claims, TTL and decoder | a token that was logged out is refused |
| Auth Service login flow | Redis `mfa:{email}` | `login_user`, `verify_otp` | time-outs of the two calls, overlapping logins of one email, the bare `except` of `verify_otp` | the event verified is the event challenged; no token without check or verification |
| Geolocation | Redis `geoloc:{ip}` | `get_geolocation` | failed or partial answers of ipapi.co, cached for a month | an unknown place is treated as unknown |
| Broker client, `broker.py` | one consumer connection and its lock | `get_connection`, `publish`, `consume`, `stop` | connection shared by threads, never reset, server-named queue | one connection; shutdown ends |
| Start-up, `entrypoint.sh` | databases, ports, tables | wait for ports, create tables, test, start | scripts that wait for each other; port 4369 is up before AMQP is | no script waits for ever; nobody is called before its tables exist |
| Frontend, `frontend/src` | the view it shows | login, OTP form | answers other than 200/202 | a token is shown only after one was issued |
| schemas, settings, factories, migrations, stubs | - | - | - | not modelled beyond the fields used |

The hazards, each at its line, are in `PROJECT.json`.

## The modules

| module | models | relations |
|---|---|---|
| `MfaHandler` | the MFA Handler service | its caller is any login of the address |
| `AuthService` | `login_user`, `verify_otp`, `register`, `change_user_password`, `delete_user`, `delete_all_users` | the answers of the other services are parameters |
| `AdaptiveMfa` | the system: `AuthService` and `MfaHandler` on one clock | extends `MfaHandler`, instantiates `AuthService` |
| `AdaptiveLogin` | what the adaptive login promises | implemented by `AdaptiveMfa` |
| `RiskScore` | the rules of `calculate_risk_score`: stages, points, cap | used by `RiskEngine` |
| `RiskEngine` | `/risk/predict`, the consumer, and of its neighbours `login_user` and the OTP logs | |
| `SessionTokens` | tokens, blacklist and accounts of the Auth Service | |
| `Startup` | the three `entrypoint.sh`, RabbitMQ, `RabbitBroker` with its two threads | |
| `MfaHandlerProofs`, `MfaOtpProofs`, `MfaTrustProofs` | theorems about `MfaHandler`: types; passwords; trust | |
| `AdaptiveMfaProofs`, `AdaptiveLoginProofs` | theorems about `AdaptiveMfa`: invariants and the handler's contract; the refinement | |
| `RiskEngineProofs`, `SessionTokensProofs`, `StartupProofs` | theorems about `RiskEngine`, `SessionTokens`, `Startup` | |
| `MC*` | small instances for TLC | |

Operators named `...Bug` (and `TtlRoundedUp`, `KeysAfterKept`) are plausible slips of the definition next to them; nothing
uses them but the mutation tests of `PROJECT.json`, which put them in its place and expect the property to fail.

### MfaHandler

A check is a record `chk[c]` whose `pc` names the await it stands at:
`CheckArrive` (Redis look-up) - `query` - `CheckQuery` (SELECT) - `result` -
one of `CheckAmbiguous`, `CheckTrusted`, `CheckLowRisk`, `CheckChallenge` -
`mail` - `CheckMail` - `log` - `CheckLog`. A verification `vrf[v]` likewise:
`VerifyArrive` (reads the password) - `log` - `VerifyLog` - `resume` - one of
`VerifyUnbound`, `VerifyRefuse`, `VerifyAccept`, `VerifyPublishFails` - `trust`
- `VerifyTrust` - `cache` - `VerifyCache`. A database call is two steps where it
matters: the statement takes effect, and the coroutine goes on. `CheckDbFails`,
`VerifyDbFails`, `PurgeFails`, `CheckMail` and `VerifyPublishFails` are the
failures; the mail client may fail after the mail went out. The two kinds of
DELETE match rows first and remove them when they commit.

The request id of a check is its event id. A verification may come from any
account of an address that some login challenged, with any device and password:
`AdaptiveMfa` shows that the Auth Service never sends anything else
(`HandlerContract`). Time is a clock in ticks, `Second` ticks to a second,
because `int()` on a TTL cuts it to whole seconds. An OTP key and a trusted key
expire with `Tick`. The user ids of an address deleted and registered again are
two (`EmailOf` maps both to it). Redis is taken to be up.

### RiskScore and RiskEngine

`calculate_risk_score` is a sequence of stages (last attempt, first login, IP,
user agent, country, region, streak), each a SELECT and possibly a loop that asks
the MFA Handler about attempts that are on neither list; `persist_login_attempt`
is the last stage (`seen`) and the commit. `RiskScore` holds what needs no state:
which stages a login goes through, and what each adds. `RiskEngine` runs a
coroutine `task[<<e, s>>]` per event `e` and source `s` (`"api"` or `"mq"`): a
stage is `Select`, then steps `LoopAsks` and `Answer` until `LoopEnds`. The lists
are sets, since the code only asks for membership; they are written in the step
that follows an answer, as in the code. The order in which a factor's loop takes
the rows is open, because its SELECT has no ORDER BY; that of the streak is fixed.

Of the Auth Service the module has the order of calls: a wrong password is
published at once, a right one is scored, checked and then published
(`LoginWrong`, `LoginRight`, `LoginChecked`; `LoginGivesUp` is the time-out). Of
the MFA Handler it has the rows of `otp_logs` that `/otp-logs/{event_id}` counts.
A publish that fails is a message that is never delivered, so it has no action
of its own. `Restart` loses coroutines, lists and, because the queue is named by
the server, the messages in it. Timestamps are the order in which logins start,
so two attempts never have equal ones.

Two changes from outside may meet a scoring, and each counts as one of the
`MaxFaults`: `AttemptsDeleted` is DELETE `/login-attempts/{email}`, and
`LogsDeleted` is DELETE `/otp-logs/{email}` of the MFA Handler, which
`delete_user` calls (auth.py:395). The second is one step here and two in
`MfaHandler`: `verify_success` only learns whether there is a row. Because rows can go,
`otp[e]` keeps what happened to the password of login `e` (sent, failed,
verified), which the user's own step `OtpVerified` and the property
`UnverifiedWasChallenged` need. The lists survive the deletion: an attempt may be
on both, taken for a success before its password was logged and for none after
that. If such an attempt, at 100, is the email's last one, the next scoring asks
about it again and is answered 204; the login scores 0 where the
list says 100. `LastForgotten` names that case in `ScoreMatchesMemory`.

### SessionTokens

A token is its claims (`sub`, `iat`, `exp` in whole seconds), so two sign-ins of
a user within a second give the same token, as the encoder does. `register` is
two steps (look-up, commit), `current-user` two (blacklist and decoding, SELECT),
`delete_user` three; `logout_user` has no await and is one step with three
outcomes. The password check, the Risk Engine and the MFA Handler are the wait
`"checks"` of a sign-in. A SELECT or a commit may fail, which is an unhandled 500;
Redis may not.

### AuthService

One record per request, whose `pc` names the await it stands at. A login waits for
the Risk Engine (`"risk"`), then for the MFA Handler (`"check"`); publication, the
key `mfa:{email}` and the answer are one step, `LoginChecked`, since nothing is
awaited between them. A verification waits for its SELECT (`"lookup"`), reads the
key and sends the request (`VerifyReads`), and waits for the answer (`"verify"`).
A deletion of one user goes through `"devices"`, `"logs"` and `"commit"`, one of
all users through `"devices"` once per user; `call` is the request that is on its
way to the handler. `LoginFails`, `VerifyFails`, `ChangeFails` and `DeleteFails`
are the errors and time-outs of each await; that of the SELECT of `verify_otp`
(auth.py:235) is outside of any `try` and ends with an unhandled 500, that of its
call with the 400 of the bare `except`. A 404 for an unknown address, a 400 for
a verification without an event id and the codes passed on or turned into 502 are
those of the code. The user ids are chosen in advance: a registration is one user
id, of which there may be several per address.

### AdaptiveMfa

The composition. Its steps are those of `AuthService` and `MfaHandler`, a request
that arrives, or an answer that comes back:

| step | Auth Service | MFA Handler |
|---|---|---|
| `CheckReceived(l)` | has sent the score (`login[l].score`) | `CheckArrive` |
| `LoginChecked(l)` | `LoginChecked` with the handler's code | is done |
| `VerificationReceived(v)` | has sent the event (`ver[v].event`) | `VerifyReceived` |
| `VerificationAnswered(v)` | `VerifyAnswered` with the handler's code | is done |
| `PurgeArrives(x)` | `DeleteArrives` | `PurgeMatch` |
| `PurgeCommits(x)`, `PurgeRollsBack(x)` | `DeleteAnswered`, `DeleteFails` | `PurgeCommit`, `PurgeFails` |

Login `l` and check `l` share their number, which is the event id. A caller that
has timed out is `"done"`, and its request may still arrive, be worked on, mail a
password or trust a device; the answer is then lost. Requests between the
services are neither repeated nor duplicated, because nothing in the code does
that. A registration is two steps, `RegistrationArrives` and `RegistrationEnds`. One DELETE at a time is at work in the handler, the others wait (`purger`).
The Risk Engine is a score it may give: `RiskEngine` has what becomes of it.
`begun` is a history variable for `DeletedDevicesGone`.

`AdaptiveLogin` has five variables and no services: logins and verifications
with their answers, the logins found safe, the (address, device) pairs for which
a password was sent, and the (account, device) pairs that proved themselves. A token needs
a safe login or a proof, a proof needs a challenge for this device and the
account's address, and a challenge needs a login that is not safe. The mapping reads the answers off
the Auth Service's coroutines; "safe" off the score the login has received;
"challenged" off the passwords that checks have made; "proved" off the successes
that the handler has published. A request that is not a login yet (wrong
password, unknown address) is mapped to none, and the failures, re-caching,
purges, expiry and late answers to stuttering.

### Startup

`script[h]` is where the script of host `h` is; `pc[t]` where a thread of the
Risk Engine is in `get_connection`, `consume` or `stop`. The check outside the
lock, taking the lock, the check inside and the connection are steps of their
own, with RabbitMQ going up (port 4369 first, then 5672) or down between them.
What a test run needs from the outside is a guard of `TestsPass`; that it fails is
always possible. The process of the Risk Engine takes its daemon thread with it.

## What the runs check

All cfgs give constants their values and name the symmetry. They allow
deadlock: the requests, events or logins are finite in number, and a behaviour
ends when all are served, or when every service has stopped.

| run | instance | result |
|---|---|---|
| `system_login` | 2 logins and 1 verification of one account, 2 devices, scores 49 and 50, clock 0..2, keys of 2 ticks | the system implements `AdaptiveLogin`; the handler gets what its specification allows; the event id sent was challenged; who was told of a password can use it while it lasts; `LinkInv` |
| `system_delete` | 1 login, 1 verification, 1 password change, 1 registration, 2 deletions (each of an address or of all), 2 accounts, 1 of whose addresses can be registered again, no clock | types, among them one row per address, also when a change commits by the id of a user who is gone; a deletion that succeeded left none of the devices that its users had when it began; every request is answered |
| `mfa_otp` | 2 checks, 2 verifications, 1 user, 1 device, 2 passwords | types; `OtpInv`; accepted passwords were issued for that address and device, and alive when read; a password answered for is not read again |
| `mfa_trust` | 2 checks, 1 verification, 2 users of one address, 1 device, 1 password, scores 49 and 50 | MFA is skipped only while trusted; trust follows the published success; re-caching stays within the row |
| `risk_faults` | 2 logins, 3 scorings at a time, 2 faults | under failures, restarts, deleted attempts and deleted OTP logs, the deciding score does not count its own login; a low score is vouched for; unverified means scored at 50 or more and challenged |
| `risk_score` | 4 logins from home and abroad, one scoring at a time | types; the stages add up to the declared score, with three bad attempts, the repeated 100 and the cap |
| `session_revoked` | 2 registrations, sign-ins, logouts, 1 reader, 1 deletion, clock 0..8, a second of 2 ticks, a life of 3 seconds | a token that was logged out is refused until its last second |
| `startup_ends` | 3 test runs, 1 crash of RabbitMQ | types; one connection; nobody is called before its tables exist; start-up and shutdown end |

Why these bounds: the races of the MFA Handler are between two requests that
share an address, and a third only repeats them; passwords, devices and requests
are only compared with each other. `mfa_otp` with two passwords shows the wrong
password, `system_login` with two devices the wrong device, `mfa_trust` with two
accounts of one address the wrong account. Lifetimes of 1 to 3
ticks and a clock as long let keys and rows expire before, between and after
every step; the scores 49 and 50 are the two sides of the threshold. In the Risk
Engine the streak needs three past attempts and one to score; the 100 it
gives repeats when the consumer scores the earlier events once more: four
logins. `risk_score` bounds the right passwords to two and the logins from abroad
to one by a CONSTRAINT; `MaxRunning` and `MaxFaults` bound how much runs and fails.
In `risk_faults` a second login is enough to vouch, or not, for the first, and three
scorings are both of one and one of the other; for more there are the theorems. Two logins of one address are what it takes to
overwrite a password or an event id, and one verification meets either; a deletion
interferes with what it deletes, so one of each kind of request and an address
registered twice show it. `system_delete` needs no clock, since expiry only
removes what a deletion removes. Its second deletion is there for what deletions do
to each other: a DELETE waits for that of the other, one finds gone what the other
took, and the loop of `delete_all_users` takes a second turn, because there are two
rows. The CONSTRAINT `SecondDeletion` lets it run beside a login, or beside the change
and the registration, not beside both nor beside the verification; the first meets
all of them. Only arrivals of requests, which are not fair, lead out of that
bound, so no behaviour that TLC follows is cut off from a step it is owed.
`risk_score` has no faults, so the case `LastForgotten` does not come up in it:
the theorem `ScoreRemembered` covers it. The logins of `risk_faults` share IP address
and user agent and do not reach 100; the ways to be vouched for by the one or the
other, or by a last attempt at 100, are told apart in the proof of `LowScoreVouched`.
The clock of `SessionTokens` runs past the end of the last second of a token issued at the start.

### Fairness

The liveness properties assume weak fairness, never strong:

- `AdaptiveMfa!Fairness`: the steps of coroutines that have begun, of requests
  that were sent and of answers that are ready. An event loop runs every ready
  coroutine, both services have one, a commit and a mail return or raise, and the
  HTTP client delivers or fails (10 seconds). Arrivals of requests, time-outs and
  the clock are not fair: the system must end its requests even if nothing ever
  times out.
- `Startup!Fairness`: processes and threads run, databases and RabbitMQ come up,
  a test run ends. Stopping a container and crashes are not fair. Scripts that retry
  are bounded by the code itself (three test runs).

### Where the code departs from what it says

Each of these runs checks one sentence of the repository and ends in a
counterexample (`findings` of `PROJECT.json` quote the line).

| run | what happens |
|---|---|
| `mfa_unique` | a device that is verified twice has two rows, and `is_trusted` then raises for it (`WithTrust`, `CheckAmbiguous`) |
| `mfa_once` | two verifications accept one password |
| `risk_counts` | verified logins count as unverified: the counts are nested under `data` |
| `startup_consumer` | the Risk Engine serves and never consumes: it waited for epmd's port, and the thread that could not connect to the other is gone |

The models follow the code in these cases too, with no run of their own:

- no password cached: `return stored` is unbound, so the answer is 500 and not the
  404 of its caller (`VerifyUnbound`, mfa_logic.py:140), and the Auth Service
  answers 502;
- after a last attempt at 100 with a wrong password, which was never challenged, the
  next login scores 0 (`LastAnswered`, dumb_risk.py:62);
- a logged-out token works again in its last second (`Ttl`, auth.py:311);
- the event id sent to `/mfa/verify` is compared, and a mismatch only printed
  (`Accepts` does not look at it, mfa.py:77);
- "verified" is logged before the device is compared, also for a request that is
  refused (`VerifyLog`, mfa_logic.py:104);
- the key is deleted by address after an await, so a newer password that nobody
  read can go with it (`OtpsWithout`, mfa_logic.py:138);
- the DELETE handlers leave the Redis keys of the devices they forget
  (`PurgeCommit`, mfa_handler api/db.py:35);
- a login about to be challenged is remembered as a success by another scoring
  that asks about it (`VerifySuccess`, dumb_risk.py:22);
- the consumer publishes a second score of an event (`Publishes`, consumer.py:22);
- a logout in the last second asks Redis for a TTL of 0 (`LogoutTooLate`,
  auth.py:311);
- the second of two registrations ends with an IntegrityError (`RegisterCommits`,
  auth_logic.py:46);
- a verification whose answer is lost is told that no password existed, while its
  device may be trusted (`VerifyFails`, auth.py:261);
- the SELECT of `verify_otp` is outside of its `try`, so a database that fails answers
  an unhandled 500, which the route does not document (`VerifyFails`, auth.py:235);
- an attempt whose OTP logs were deleted with its user counts as one that needed no
  password (`LogsDeleted`, dumb_risk.py:22);
- a deletion by address takes a user along that registered meanwhile, whose devices
  stay (`UsersWithout`, auth.py:407): `DeletedDevicesGone` speaks of the users there
  when it began;
- a token names an email, not an account (`CurrentSelect`, auth_logic.py:29).

## What is proved

tlapm checks the theorems for every value of the constants, from the ASSUMEs of
the modules (times are positive naturals, a token's life is whole seconds, `None`
is no other value and no number, `EmailOf` maps users to emails, scores are naturals, the threshold
of the MFA Handler is at most the 50 of a first login, a right password has an account,
event ids are cached no shorter than passwords: both 300 s, auth.py:192 and
mfa_logic.py:13). TLC evaluates the assumptions on every run.

The system:

- `AdaptiveMfaProofs!Links`: `LinkInv`. Neither service alone knows why an event id
  it is given is right. The invariant ties each check to the login of its number
  (same score, user and device, and only once the score is there), each answer 202
  to a password that was made, each key in Redis to such an answer for its address,
  and each verification to the key it has read; every conjunct is needed for the
  next.
- `SysTypeCorrect` includes that an address has at most one row in `users`: a commit
  of `register` finds the address free or fails, a change writes no row for a user who
  is gone, and the other steps add none.
- `EventsChallenged` is a part of it. `Contract` shows by the same invariant that
  every step of the system is a step of `MfaHandler` or leaves it alone, the guard of
  `VerifyArrive` being the hard case, and so `HandlerInSystem`: everything proved
  of the handler below holds in the system.
- `DeletionsComplete`: a device that a deletion found and that is still there belongs
  to a user it has yet to ask for, or to the one its call names, or has been matched
  by the statement that runs for it (`DeleteInv`). Rows that appear meanwhile come
  from a verification whose commit was still to come, and none that was found does
  (`TrustInv`), so nothing found comes back.
- `ChallengesAnswerable`: while the password of a login that was answered 202 waits,
  `mfa:{email}` expires no earlier (`AnswerInv`); a later login of the address
  overwrites it with a key that lives longer, and only the clock removes it.
- `AdaptiveLoginProofs!Refinement`: the initial states map to the initial state, and
  each step to a step of `AdaptiveLogin` or to none. An answered token is the case that needs the handler's
  invariants (`TrustInv`: a device is trusted because a verification proved it; `OtpInv`: what
  was accepted was issued for this address and device).

The parts:

- `MfaHandlerProofs!TypeCorrect`. One lemma per coroutine says what its steps
  leave behind; every action is a case.
- `MfaOtpProofs`: `AcceptedCodes` and `SpentCodes` from `OtpInvariant`. What was
  accepted says nothing about where it came from, so `OtpInv` follows the password:
  every entry in Redis and every entry a verification holds was issued by the
  check it names, for that address, and was alive when read; an accepted one was
  compared; a spent one is not in Redis, and cannot return because its event has
  had its one chance to cache.
  `OneTimeAlone` bounds a finding: `AcceptedOnce`, which `mfa_once` violates, holds as
  long as no two verifications of an address overlap between their read and their
  delete (`OneAtATime`). `OnceInv` adds that no open verification holds what
  another has spent; one that opens later finds the key gone (`OtpInv`), and what
  was read under another address is another check's.
- `MfaTrustProofs`: `SkipOnly`, `TrustCompletion` and `RecachedKeys` (for a clock of
  any resolution) from `TrustInvariant`. Rows,
  rows already read by a check (which may since be deleted) and Redis keys each
  have a verification that vouches for them for at least as long.
  `StoredOncePerPassword`: under `OneAtATime` the two rows of `mfa_unique` take two
  passwords, since a verification stores at most one row (`RowPerVerify`).
- `SessionTokensProofs`: `RevokedTokens` from `TokenInvariant`. A logout leaves a
  key that lasts until less than a second before `exp`; when Redis drops it, the
  last second has begun; a reader that waits for its SELECT passed the blacklist
  while this was so.

- `RiskEngineProofs`: `TypeCorrect`, `PredictFirst`, `UnverifiedChallenged` and
  `LowScoreVouched` from `RiskInvariant`. `OtpInv` says that the rows counted for an
  event are those of a password that was sent or failed, which the handler logs only
  for a login it has challenged, so an answer other than 204 tells that there was
  one; what is on the list of the unverified stays so when the rows are deleted
  (`OtpKept`). `FlowInv` orders `login_user` and the two
  coroutines of an event, so that an attempt of the event in the table (`StoredInv`:
  stored with the score that some coroutine had) means that the API is done with it.
  What the API's coroutine has selected, asked about and listed are then other
  attempts of the email (`ApiSound`), which stay what they are while others run; and
  `Floor` says stage by stage that the points a stage has not added are due to
  somebody on `tot_verified`: 30 for the address and 20 for the user agent make the
  50 of the threshold. A restart forgets the list and, with it, every coroutine that
  relied on it.
- `RiskEngineProofs!ScoreRemembered`: `ScoreMatchesMemory`, its case of forgotten
  logs included, if logins of one email
  are scored one at a time (`Apart`) and nobody deletes an email's attempts while
  it is scored (`KeptWhileScored`), for any number of emails at once and any
  faults. `ScoreAlone` is the case of one coroutine, and `risk_score` an instance of
  it. Both conditions are
  needed: in the configuration of `risk_score`, with `MaxRunning = 2` or with
  `MaxFaults = 1`, TLC finds the score off, because a later SELECT sees another
  table than an earlier one. The property compares the sum at the last stage
  with the table and the answers as they are then, so `ScoreInv` follows a
  coroutine from stage to stage. What it has added is what the declared sum
  charges for the stages passed, and every attempt a passed stage went through is
  on a list, so that no later answer changes the charge (`SumSound`); inside a
  stage the loop has listed exactly what it went through (`LoopSound`), and the
  attempt it asks about is the email's and still unlisted (`AskSound`). That only
  one attempt is the newest is `StampInv` and `TableInv`: the stamps of logins
  differ, and an event has one row.
- `StartupProofs`: `TypeCorrect`, `Connections` and `Readiness` from one invariant:
  the lock is held exactly between the two checks and the connection, whoever
  connects has seen that there is none, and a script that has gone on from its
  tables has created them.

No invariant or action property of a passing run is left to TLC alone. Only
model-checked are the counterexamples and liveness (`EveryRequestEnds`, `StartupEnds`,
`ShutdownEnds`), which needs fairness and ENABLED and is beyond the prover.

## Not modelled

- Geolocation: a cache in front of ipapi.co. Its answer is a place of the login
  event, and `RiskEngine` takes any; nothing depends on an order of its steps.
- The frontend: one request at a time to two calls of the Auth Service, which
  `AuthService` allows any caller.
- Formats, hashing, the mail's text, the SRP fields, validation (but for the missing
  event id), headers that every browser sends, settings; `GET` handlers that list tables.
- `/mfa/request` raises TypeError before it changes anything; the other consumers,
  the SRP and admin modules are comments or empty; `alembic/env.py` is called by no
  script.
- A Redis outage or restart, a database that reorders commits of one row and clocks
  that run backwards. Connections that `publish` opens and leaves are not counted.
