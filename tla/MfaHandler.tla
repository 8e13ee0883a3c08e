------------------------------ MODULE MfaHandler ------------------------------
(***************************************************************************)
(* The MFA Handler service (src/mfa_handler): POST /mfa/check decides      *)
(* whether a login needs a one-time password and mails it, POST            *)
(* /mfa/verify checks the password and trusts the device, and the DELETE   *)
(* handlers of api/db.py forget devices and logs.                          *)
(*                                                                         *)
(* One process runs every request as a coroutine, so the code between two  *)
(* awaits is one atomic step and an action here.  Redis calls are          *)
(* synchronous and never yield; database calls and the mail client do.     *)
(* Redis itself is taken to be up: a Redis outage is not modelled.         *)
(***************************************************************************)
EXTENDS Naturals, FiniteSets

CONSTANTS
    CheckReq,        \* requests to /mfa/check; a request is its event id
    VerifyReq,       \* requests to /mfa/verify
    Users,           \* user ids
    Emails,
    EmailOf,         \* the address of each user id; an address deleted and
                     \* registered again belongs to two ids
    Devices,         \* device fingerprints
    Otps,            \* one-time passwords
    Scores,          \* risk scores a check may carry
    RISK_THRESHOLD,
    OTP_EXPIRE,      \* lifetime of a cached password, in ticks
    TRUST_EXPIRE,    \* lifetime of a trusted device, in ticks
    Second,          \* ticks in a second: Redis takes TTLs in whole seconds
    MaxTime,         \* bound on the clock
    None             \* a value that is not there

UserAssumption  == EmailOf \in [Users -> Emails]
ScoreAssumption == Scores \subseteq Nat /\ RISK_THRESHOLD \in Nat
ClockAssumption == /\ {OTP_EXPIRE, TRUST_EXPIRE, Second} \subseteq Nat \ {0}
                   /\ MaxTime \in Nat

ASSUME UserAssumption
ASSUME ScoreAssumption
ASSUME ClockAssumption

OtpEntry   == [otp : Otps, event : CheckReq, device : Devices, expires : Nat]
TrustedRow == [by : VerifyReq, user : Users, device : Devices, expires : Nat]
OtpLogRow  == [by : CheckReq \cup VerifyReq, event : CheckReq, email : Emails,
               status : {"sent", "failed-send", "verified", "invalid",
                         "not found"}]
Completion == [by : VerifyReq, event : CheckReq, ok : BOOLEAN]

ASSUME NoneAssumption == None \notin OtpEntry /\ None \notin Otps

VARIABLES
    now,        \* the clock
    otpCache,   \* Redis otp:{email}: the password that is waiting, or None
    trustCache, \* Redis trusted:{user}:{device}: when the key expires, 0 if unset
    trusted,    \* table trusted_devices; "by" stands for the primary key
    otpLogs,    \* table otp_logs; "by" again names the request that wrote it
    completed,  \* MFACompleted events handed to the broker
    doomed,     \* rows an open DELETE transaction has matched
    chk,        \* chk[c]: the coroutine of check request c
    vrf         \* vrf[v]: the coroutine of verify request v

vars == <<now, otpCache, trustCache, trusted, otpLogs, completed, doomed, chk, vrf>>

NoReply == 0    \* no HTTP status yet

(***************************************************************************)
(* A check waits for the device query ("query"), has its result            *)
(* ("result"), waits for the mail client ("mail"), then for the commit of  *)
(* its log row ("log").  A verify waits for the commit of its log row      *)
(* ("log"), goes on ("resume"), waits for the commit of the device         *)
(* ("trust"), goes on ("cache").                                           *)
(***************************************************************************)
CheckIdle == [pc |-> "idle", user |-> None, device |-> None, score |-> 0,
              at |-> 0, rows |-> {}, otp |-> None, issued |-> 0,
              status |-> "none", reply |-> NoReply]

CheckCoroutine ==
    {k \in [pc : {"query", "result", "mail", "log", "done"}, user : Users,
            device : Devices, score : Nat, at : Nat, rows : SUBSET TrustedRow,
            otp : Otps \cup {None}, issued : Nat,
            status : {"none", "sent", "failed-send"},
            reply : {NoReply, 200, 202, 500}] :
        k.pc = "log" => k.status # "none"}

VerifyIdle == [pc |-> "idle", user |-> None, device |-> None, event |-> None,
               otp |-> None, stored |-> None, at |-> 0, until |-> 0,
               reply |-> NoReply]

VerifyCoroutine ==
    [pc : {"log", "resume", "trust", "cache", "done"}, user : Users,
     device : Devices, event : CheckReq, otp : Otps,
     stored : OtpEntry \cup {None}, at : Nat, until : Nat,
     reply : {NoReply, 200, 401, 500}]

(* Every variable keeps its shape: the Redis keys, the rows of the two     *)
(* tables, the published events and the state of the coroutines.           *)
TypeOK ==
    /\ now \in Nat
    /\ otpCache \in [Emails -> OtpEntry \cup {None}]
    /\ trustCache \in [Users \X Devices -> Nat]
    /\ trusted \subseteq TrustedRow
    /\ otpLogs \subseteq OtpLogRow
    /\ completed \subseteq Completion
    /\ doomed \subseteq TrustedRow \cup OtpLogRow
    /\ chk \in [CheckReq -> CheckCoroutine \cup {CheckIdle}]
    /\ vrf \in [VerifyReq -> VerifyCoroutine \cup {VerifyIdle}]

Init ==
    /\ now = 0
    /\ otpCache = [e \in Emails |-> None]
    /\ trustCache = [k \in Users \X Devices |-> 0]
    /\ trusted = {}
    /\ otpLogs = {}
    /\ completed = {}
    /\ doomed = {}
    /\ chk = [c \in CheckReq |-> CheckIdle]
    /\ vrf = [v \in VerifyReq |-> VerifyIdle]

-----------------------------------------------------------------------------
(* Helpers *)

\* int(timedelta.total_seconds()) of a positive number of ticks, in ticks
WholeSeconds(t) == t - (t % Second)

(* Each operator named ...Bug is a plausible slip in the definition that     *)
(* follows it; nothing refers to them.                                       *)

LiveRowsBug(u, d, asked) ==     \* the query forgets the user
    {r \in trusted : r.device = d /\ r.expires > asked}
\* is_trusted: the rows its SELECT returns; "asked" is the datetime.now()
\* bound into the statement when the coroutine built it
LiveRows(u, d, asked) ==
    {r \in trusted : r.user = u /\ r.device = d /\ r.expires > asked}

RecachedUntilBug(r) == now + TRUST_EXPIRE    \* a full month again

\* when the key that is_trusted writes for the row expires
RecachedUntil(r) == now + WholeSeconds(r.expires - now)

\* send_otp: what it caches for the address of check c
NewEntry(c, o) == [otp |-> o, event |-> c, device |-> chk[c].device,
                   expires |-> now + OTP_EXPIRE]

OtpStatusBug(stored, o) ==      \* a miss leaves the column's default
    IF stored = None THEN "requested"
    ELSE IF stored.otp # o THEN "invalid" ELSE "verified"
\* verify_otp: the status it logs for the password it read
OtpStatus(stored, o) ==
    IF stored = None THEN "not found"
    ELSE IF stored.otp # o THEN "invalid" ELSE "verified"

AcceptsBug(stored, o, d) == stored.otp = o \/ stored.device = d  \* "and" for "or"

\* mfa_verify: the comparisons that can refuse; the event id is compared
\* too, but a mismatch is only printed
Accepts(stored, o, d) == stored.otp = o /\ stored.device = d

OtpsWithoutBug(e) == otpCache   \* the key is not deleted

\* verify_otp deletes the key of the address, whatever it holds by then
OtpsWithout(e) == [otpCache EXCEPT ![e] = None]

CompletedWithBug(v, ok) ==      \* was_successful is never set
    completed \cup {[by |-> v, event |-> vrf[v].event, ok |-> FALSE]}
\* publish_mfa_completed: the events after v has published its own
CompletedWith(v, ok) ==
    completed \cup {[by |-> v, event |-> vrf[v].event, ok |-> ok]}

\* the coroutine of a request that has just arrived
NewCheck(u, d, s) ==
    [pc |-> "query", user |-> u, device |-> d, score |-> s, at |-> now,
     rows |-> {}, otp |-> None, issued |-> 0, status |-> "none",
     reply |-> NoReply]
NewVerify(u, d, e, o) ==
    [pc |-> "log", user |-> u, device |-> d, event |-> e, otp |-> o,
     stored |-> otpCache[EmailOf[u]], at |-> now, until |-> 0,
     reply |-> NoReply]

\* what a step leaves in the state k of its coroutine
WithPc(k, pc)        == [k EXCEPT !.pc = pc]
WithRows(k, rows)    == [k EXCEPT !.pc = "result", !.rows = rows]
WithOtp(k, o)        == [k EXCEPT !.pc = "mail", !.otp = o, !.issued = now]
WithMail(k, status)  == [k EXCEPT !.pc = "log", !.status = status]
WithTrust(k)         == [k EXCEPT !.pc = "trust", !.until = now + TRUST_EXPIRE]
WithCache(k)         == [k EXCEPT !.pc = "done", !.reply = 200,
                                  !.until = now + TRUST_EXPIRE]
WithReply(k, code)   == [k EXCEPT !.pc = "done", !.reply = code]

CheckReplies(c, code)  == chk' = [chk EXCEPT ![c] = WithReply(@, code)]
VerifyReplies(v, code) == vrf' = [vrf EXCEPT ![v] = WithReply(@, code)]

-----------------------------------------------------------------------------
(* POST /mfa/check *)

\* mfa_check up to the first await of is_trusted: a cached device skips MFA
\* at once, otherwise the device table is asked
CheckArrive(c, u, d, s) ==
    /\ chk[c].pc = "idle"
    /\ \/ /\ trustCache[<<u, d>>] > now
          /\ chk' = [chk EXCEPT ![c] = WithReply(NewCheck(u, d, s), 200)]
       \/ /\ trustCache[<<u, d>>] <= now
          /\ chk' = [chk EXCEPT ![c] = NewCheck(u, d, s)]
    /\ UNCHANGED <<now, otpCache, trustCache, trusted, otpLogs, completed,
                   doomed, vrf>>

\* the SELECT of is_trusted runs in the database
CheckQuery(c) ==
    /\ chk[c].pc = "query"
    /\ chk' = [chk EXCEPT ![c] =
           WithRows(@, LiveRows(chk[c].user, chk[c].device, chk[c].at))]
    /\ UNCHANGED <<now, otpCache, trustCache, trusted, otpLogs, completed,
                   doomed, vrf>>

\* scalar_one_or_none raises MultipleResultsFound
CheckAmbiguous(c) ==
    /\ chk[c].pc = "result"
    /\ Cardinality(chk[c].rows) > 1
    /\ CheckReplies(c, 500)
    /\ UNCHANGED <<now, otpCache, trustCache, trusted, otpLogs, completed,
                   doomed, vrf>>

\* one row: is_trusted caches it for the time it has left and the check skips
\* MFA; with less than a second left the TTL is 0 (or negative), which Redis
\* refuses, and the request fails
CheckTrusted(c) ==
    /\ chk[c].pc = "result"
    /\ \E r \in chk[c].rows :
         /\ chk[c].rows = {r}
         /\ \/ /\ r.expires >= now + Second
               /\ trustCache' = [trustCache EXCEPT
                      ![<<chk[c].user, chk[c].device>>] = RecachedUntil(r)]
               /\ CheckReplies(c, 200)
            \/ /\ r.expires < now + Second
               /\ CheckReplies(c, 500)
               /\ UNCHANGED trustCache
    /\ UNCHANGED <<now, otpCache, trusted, otpLogs, completed, doomed, vrf>>

\* no row and a low score: MFA is not required
CheckLowRisk(c) ==
    /\ chk[c].pc = "result"
    /\ chk[c].rows = {}
    /\ chk[c].score < RISK_THRESHOLD
    /\ CheckReplies(c, 200)
    /\ UNCHANGED <<now, otpCache, trustCache, trusted, otpLogs, completed,
                   doomed, vrf>>

\* no row and a high score: send_otp caches a fresh password, over the one
\* that may be waiting, and starts to mail it
CheckChallenge(c) ==
    /\ chk[c].pc = "result"
    /\ chk[c].rows = {}
    /\ chk[c].score >= RISK_THRESHOLD
    /\ \E o \in Otps :
         /\ otpCache' = [otpCache EXCEPT ![EmailOf[chk[c].user]] = NewEntry(c, o)]
         /\ chk' = [chk EXCEPT ![c] = WithOtp(@, o)]
    /\ UNCHANGED <<now, trustCache, trusted, otpLogs, completed, doomed, vrf>>

\* the mail client returns, or raises (also after the mail went out)
CheckMail(c) ==
    /\ chk[c].pc = "mail"
    /\ \E status \in {"sent", "failed-send"} :
         chk' = [chk EXCEPT ![c] = WithMail(@, status)]
    /\ UNCHANGED <<now, otpCache, trustCache, trusted, otpLogs, completed,
                   doomed, vrf>>

\* the log row commits and mfa_check answers by the mail's status
CheckLog(c) ==
    /\ chk[c].pc = "log"
    /\ otpLogs' = otpLogs \cup {[by |-> c, event |-> c, status |-> chk[c].status,
                                 email |-> EmailOf[chk[c].user]]}
    /\ CheckReplies(c, IF chk[c].status = "sent" THEN 202 ELSE 500)
    /\ UNCHANGED <<now, otpCache, trustCache, trusted, completed, doomed, vrf>>

\* the database fails the SELECT or the commit of the request
CheckDbFails(c) ==
    /\ chk[c].pc \in {"query", "log"}
    /\ CheckReplies(c, 500)
    /\ UNCHANGED <<now, otpCache, trustCache, trusted, otpLogs, completed,
                   doomed, vrf>>

-----------------------------------------------------------------------------
(* POST /mfa/verify *)

\* verify_otp reads the waiting password and builds its log row
VerifyReceived(v, u, d, e, o) ==
    /\ vrf[v].pc = "idle"
    /\ vrf' = [vrf EXCEPT ![v] = NewVerify(u, d, e, o)]
    /\ UNCHANGED <<now, otpCache, trustCache, trusted, otpLogs, completed,
                   doomed, chk>>

\* The caller, auth_service, sends the event id of some check that answered
\* 202 for the address, and whatever device and password its own caller gave
\* it (AdaptiveMfa shows that it does).
VerifyArrive(v, u, d, e, o) ==
    /\ chk[e].reply = 202
    /\ EmailOf[chk[e].user] = EmailOf[u]
    /\ VerifyReceived(v, u, d, e, o)

\* the log row commits
VerifyLog(v) ==
    /\ vrf[v].pc = "log"
    /\ otpLogs' = otpLogs \cup
          {[by |-> v, event |-> vrf[v].event, email |-> EmailOf[vrf[v].user],
            status |-> OtpStatus(vrf[v].stored, vrf[v].otp)]}
    /\ vrf' = [vrf EXCEPT ![v] = WithPc(@, "resume")]
    /\ UNCHANGED <<now, otpCache, trustCache, trusted, completed, doomed, chk>>

\* verify_otp deletes the key, then "return stored" raises UnboundLocalError:
\* nothing was read, so nothing was assigned
VerifyUnbound(v) ==
    /\ vrf[v].pc = "resume"
    /\ vrf[v].stored = None
    /\ otpCache' = OtpsWithout(EmailOf[vrf[v].user])
    /\ VerifyReplies(v, 500)
    /\ UNCHANGED <<now, trustCache, trusted, otpLogs, completed, doomed, chk>>

\* the password or the device differs: publish the failure and answer 401
VerifyRefuse(v) ==
    /\ vrf[v].pc = "resume"
    /\ vrf[v].stored # None
    /\ ~ Accepts(vrf[v].stored, vrf[v].otp, vrf[v].device)
    /\ otpCache' = OtpsWithout(EmailOf[vrf[v].user])
    /\ completed' = CompletedWith(v, FALSE)
    /\ VerifyReplies(v, 401)
    /\ UNCHANGED <<now, trustCache, trusted, otpLogs, doomed, chk>>

\* password and device match: publish the success and start to store the
\* device, with its expiry computed here
VerifyAccept(v) ==
    /\ vrf[v].pc = "resume"
    /\ vrf[v].stored # None
    /\ Accepts(vrf[v].stored, vrf[v].otp, vrf[v].device)
    /\ otpCache' = OtpsWithout(EmailOf[vrf[v].user])
    /\ completed' = CompletedWith(v, TRUE)
    /\ vrf' = [vrf EXCEPT ![v] = WithTrust(@)]
    /\ UNCHANGED <<now, trustCache, trusted, otpLogs, doomed, chk>>

\* the broker is away: the publish raises with the key already deleted
VerifyPublishFails(v) ==
    /\ vrf[v].pc = "resume"
    /\ vrf[v].stored # None
    /\ otpCache' = OtpsWithout(EmailOf[vrf[v].user])
    /\ VerifyReplies(v, 500)
    /\ UNCHANGED <<now, trustCache, trusted, otpLogs, completed, doomed, chk>>

\* set_trusted: the device row commits
VerifyTrust(v) ==
    /\ vrf[v].pc = "trust"
    /\ trusted' = trusted \cup {[by |-> v, user |-> vrf[v].user,
                                 device |-> vrf[v].device,
                                 expires |-> vrf[v].until]}
    /\ vrf' = [vrf EXCEPT ![v] = WithPc(@, "cache")]
    /\ UNCHANGED <<now, otpCache, trustCache, otpLogs, completed, doomed, chk>>

\* set_trusted caches the device for the full lifetime, counted from now
VerifyCache(v) ==
    /\ vrf[v].pc = "cache"
    /\ trustCache' = [trustCache EXCEPT
           ![<<vrf[v].user, vrf[v].device>>] = now + TRUST_EXPIRE]
    /\ vrf' = [vrf EXCEPT ![v] = WithCache(@)]
    /\ UNCHANGED <<now, otpCache, trusted, otpLogs, completed, doomed, chk>>

\* the database fails the commit of the log row or of the device
VerifyDbFails(v) ==
    /\ vrf[v].pc \in {"log", "trust"}
    /\ VerifyReplies(v, 500)
    /\ UNCHANGED <<now, otpCache, trustCache, trusted, otpLogs, completed,
                   doomed, chk>>

-----------------------------------------------------------------------------
(* DELETE /trusted, /trusted/{id} and /otp-logs/{email}, and the clock *)

\* the DELETE statement matches rows, which vanish when the transaction
\* commits; rows inserted in between stay.  One such request runs at a time.
PurgeMatch ==
    /\ doomed = {}
    /\ \/ doomed' = trusted
       \/ \E u \in Users : doomed' = {r \in trusted : r.user = u}
       \/ \E e \in Emails : doomed' = {l \in otpLogs : l.email = e}
    /\ UNCHANGED <<now, otpCache, trustCache, trusted, otpLogs, completed, chk, vrf>>

\* the commit; Redis keeps its trusted: keys
PurgeCommit ==
    /\ doomed # {}
    /\ trusted' = trusted \ doomed
    /\ otpLogs' = otpLogs \ doomed
    /\ doomed' = {}
    /\ UNCHANGED <<now, otpCache, trustCache, completed, chk, vrf>>

\* the transaction fails and nothing is deleted
PurgeFails ==
    /\ doomed # {}
    /\ doomed' = {}
    /\ UNCHANGED <<now, otpCache, trustCache, trusted, otpLogs, completed, chk, vrf>>

\* time passes; Redis drops the keys whose TTL has run out
Tick ==
    /\ now < MaxTime
    /\ now' = now + 1
    /\ otpCache' = [e \in Emails |->
           IF otpCache[e] # None /\ otpCache[e].expires <= now + 1 THEN None
           ELSE otpCache[e]]
    /\ trustCache' = [k \in Users \X Devices |->
           IF trustCache[k] <= now + 1 THEN 0 ELSE trustCache[k]]
    /\ UNCHANGED <<trusted, otpLogs, completed, doomed, chk, vrf>>

CheckStep(c) ==
    \/ CheckQuery(c) \/ CheckAmbiguous(c) \/ CheckTrusted(c)
    \/ CheckLowRisk(c) \/ CheckChallenge(c) \/ CheckMail(c)
    \/ CheckLog(c) \/ CheckDbFails(c)

CheckNext(c) ==
    \/ \E u \in Users, d \in Devices, s \in Scores : CheckArrive(c, u, d, s)
    \/ CheckStep(c)

VerifyStep(v) ==
    \/ VerifyLog(v) \/ VerifyUnbound(v) \/ VerifyRefuse(v)
    \/ VerifyAccept(v) \/ VerifyPublishFails(v) \/ VerifyTrust(v)
    \/ VerifyCache(v) \/ VerifyDbFails(v)

VerifyNext(v) ==
    \/ \E u \in Users, d \in Devices, e \in CheckReq, o \in Otps :
          VerifyArrive(v, u, d, e, o)
    \/ VerifyStep(v)

Next ==
    \/ \E c \in CheckReq : CheckNext(c)
    \/ \E v \in VerifyReq : VerifyNext(v)
    \/ PurgeMatch \/ PurgeCommit \/ PurgeFails
    \/ Tick

Spec == Init /\ [][Next]_vars

-----------------------------------------------------------------------------
(* Properties *)

\* v compared its password and its device with what it had read, and matched
Accepted(v) == vrf[v].pc \in {"trust", "cache"} \/ vrf[v].reply = 200

\* v has stored its device
Granted(v) == vrf[v].pc = "cache" \/ vrf[v].reply = 200

\* v has deleted the password it had read
Spent(v) == /\ vrf[v].stored # None
            /\ \/ vrf[v].pc \in {"trust", "cache"}
               \/ vrf[v].reply \in {200, 401}

\* A password is accepted only if a check issued that very password for the
\* same address and the same device, no longer than OTP_EXPIRE before the
\* verification began: whatever other checks and verifications of the address
\* overwrite, delete or expire in between (send_otp, verify_otp, mfa_verify).
AcceptedCodeWasIssued ==
    \A v \in VerifyReq : Accepted(v) =>
        \E c \in CheckReq :
            /\ chk[c].otp = vrf[v].otp
            /\ chk[c].device = vrf[v].device
            /\ EmailOf[chk[c].user] = EmailOf[vrf[v].user]
            /\ chk[c].score >= RISK_THRESHOLD
            /\ chk[c].issued <= vrf[v].at
            /\ vrf[v].at < chk[c].issued + OTP_EXPIRE

\* A check at or above RISK_THRESHOLD is let through without a password only
\* while the trust that some accepted verification gave this very user and
\* device runs: neither the Redis key, nor its re-caching from a row read
\* earlier, nor purges prolong it or give it to anybody else (is_trusted,
\* set_trusted).
SkipOnlyWhileTrusted ==
    \A c \in CheckReq :
        chk[c].reply = 200 /\ chk[c].score >= RISK_THRESHOLD =>
            \E v \in VerifyReq :
                /\ Granted(v)
                /\ vrf[v].user = chk[c].user
                /\ vrf[v].device = chk[c].device
                /\ chk[c].at < vrf[v].until

\* Once one verification has answered for a password, right or wrong, no
\* verification that begins later reads that password: it is not in Redis
\* any more and never returns (verify_otp's delete against the setex of
\* concurrent checks of the address).
SpentCodeStaysSpent ==
    [][\A v, w \in VerifyReq :
          vrf[v].pc = "idle" /\ vrf'[v].stored # None /\ Spent(w)
             => vrf'[v].stored.event # vrf[w].stored.event]_vars

\* A device is in the table or in Redis only after the success was published,
\* whichever step of the request failed or was overtaken: no partial failure
\* leaves trust behind without its event.
TrustFollowsCompletion ==
    /\ \A r \in trusted : \E m \in completed : m.by = r.by /\ m.ok
    /\ \A u \in Users, d \in Devices : trustCache[<<u, d>>] > now =>
          \E m \in completed : /\ m.ok
                               /\ vrf[m.by].user = u
                               /\ vrf[m.by].device = d

\* The Redis key that is_trusted writes from a row expires with the row or
\* less than a second before it, never after.
RecacheWithinRow ==
    [][\A c \in CheckReq :
          chk[c].pc = "result" /\ chk'[c].reply = 200 /\ chk[c].rows # {} =>
             \E r \in chk[c].rows :
                LET until == trustCache'[<<chk[c].user, chk[c].device>>]
                IN /\ until <= r.expires
                   /\ r.expires < until + Second]_vars

-----------------------------------------------------------------------------
(* Inductive invariants *)

\* k, a check, issued the entry for address e
IssuedBy(k, entry, e) ==
    /\ k.pc \in {"mail", "log", "done"}
    /\ k.otp = entry.otp
    /\ k.device = entry.device
    /\ EmailOf[k.user] = e
    /\ k.score >= RISK_THRESHOLD
    /\ entry.expires = k.issued + OTP_EXPIRE

IssueTimes ==
    \A c \in CheckReq : chk[c].pc # "idle" => chk[c].issued <= now

CachedWasIssued ==
    \A e \in Emails : otpCache[e] # None =>
        /\ IssuedBy(chk[otpCache[e].event], otpCache[e], e)
        /\ now < otpCache[e].expires

ReadWasIssued ==
    \A v \in VerifyReq : vrf[v].stored # None =>
        /\ vrf[v].pc # "idle"
        /\ IssuedBy(chk[vrf[v].stored.event], vrf[v].stored, EmailOf[vrf[v].user])
        /\ chk[vrf[v].stored.event].issued <= vrf[v].at
        /\ vrf[v].at < vrf[v].stored.expires

AcceptedWasRead ==
    \A v \in VerifyReq : Accepted(v) =>
        /\ vrf[v].stored # None
        /\ Accepts(vrf[v].stored, vrf[v].otp, vrf[v].device)

SpentIsGone ==
    \A v \in VerifyReq, e \in Emails :
        Spent(v) /\ otpCache[e] # None => otpCache[e].event # vrf[v].stored.event

\* Where passwords are: every one in Redis, or read from it by a
\* verification, is what some check issued for that address (send_otp), was
\* alive when it was read, and is gone from Redis once spent (verify_otp).
OtpInv == /\ IssueTimes
          /\ CachedWasIssued
          /\ ReadWasIssued
          /\ AcceptedWasRead
          /\ SpentIsGone

\* k, a verification, vouches for the device of the user until time t
Vouches(k, u, d, t) ==
    /\ k.pc = "cache" \/ k.reply = 200
    /\ k.user = u
    /\ k.device = d
    /\ t <= k.until

TrustTimes ==
    \A v \in VerifyReq :
        /\ vrf[v].pc \in {"trust", "cache"} => vrf[v].until <= now + TRUST_EXPIRE
        /\ vrf[v].reply = 200 => vrf[v].pc = "done"

RowsVouched ==
    \A r \in trusted : Vouches(vrf[r.by], r.user, r.device, r.expires)

ReadRowsVouched ==
    \A c \in CheckReq : \A r \in chk[c].rows :
        /\ r.user = chk[c].user
        /\ r.device = chk[c].device
        /\ r.expires > chk[c].at
        /\ Vouches(vrf[r.by], r.user, r.device, r.expires)

KeysVouched ==
    \A u \in Users, d \in Devices : trustCache[<<u, d>>] > 0 =>
        \E v \in VerifyReq : Vouches(vrf[v], u, d, trustCache[<<u, d>>])

AcceptedCompleted ==
    \A v \in VerifyReq : Accepted(v) => \E m \in completed : m.by = v /\ m.ok

\* Where trust is: every row of the table, every row a check has read and
\* every Redis key stems from a verification that stored the device, and runs
\* no longer than the trust it gave (set_trusted, is_trusted); and what was
\* accepted was published.
TrustInv == /\ TrustTimes
            /\ RowsVouched
            /\ ReadRowsVouched
            /\ KeysVouched
            /\ AcceptedCompleted
            /\ SkipOnlyWhileTrusted

-----------------------------------------------------------------------------
(* What the repository says of itself and the code does not do *)

\* A device "should be unique" in trusted_devices (models.py): no two rows
\* for the same user and device.
DeviceStoredOnce ==
    \A r, q \in trusted : r.user = q.user /\ r.device = q.device => r = q

\* The mail hands out a "one-time password" (email_otp.html): no two
\* verifications accept the same one.
AcceptedOnce ==
    \A v, w \in VerifyReq :
        Accepted(v) /\ Accepted(w) /\ vrf[v].stored.event = vrf[w].stored.event
           => v = w
===============================================================================
