----------------------------- MODULE AdaptiveMfa ------------------------------
(***************************************************************************)
(* The system: the Auth Service (AuthService) and the MFA Handler          *)
(* (MfaHandler), which it calls, with one clock.  A step of the system is  *)
(* a step of one of them, a request that arrives at the handler, or an     *)
(* answer that comes back.  The Risk Engine is a score it may give; its    *)
(* scores are the modules RiskScore and RiskEngine.                        *)
(***************************************************************************)
EXTENDS MfaHandler

CONSTANTS ChangeReq, DeleteReq, Registered, Passwords, EVENT_EXPIRE

ASSUME AccountAssumption ==
    /\ Registered \subseteq Users
    /\ \A u, w \in Registered : EmailOf[u] = EmailOf[w] => u = w
ASSUME EventAssumption == EVENT_EXPIRE \in Nat \ {0} /\ OTP_EXPIRE <= EVENT_EXPIRE
ASSUME AbsentAssumption ==
    None \notin Users \cup Emails \cup Passwords \cup Scores \cup DeleteReq

VARIABLES
    users, reg, mfaKey, login, ver, change, del,   \* of AuthService
    purger,     \* the deletion whose DELETE the MFA Handler works on, or None
    begun       \* history: the devices, of the users it deletes, that were
                \* in the table when deletion x began

A == INSTANCE AuthService

ASSUME KeyAssumption == None \notin A!KeyEntry

requests == <<reg, login, ver, change, del>>
sysvars  == <<vars, users, mfaKey, requests, purger, begun>>

SysTypeOK ==
    /\ TypeOK
    /\ A!TypeOK
    /\ purger \in DeleteReq \cup {None}
    /\ begun \in [DeleteReq -> SUBSET TrustedRow]

SysInit ==
    /\ Init
    /\ A!Init
    /\ purger = None
    /\ begun = [x \in DeleteReq |-> {}]

AuthUnchanged == UNCHANGED <<users, mfaKey, requests, purger, begun>>
MfaUnchanged  == UNCHANGED <<vars, purger, begun>>

-----------------------------------------------------------------------------
(* Logins *)

LoginArrives(l) ==
    /\ \E e \in Emails, d \in Devices, p \in Passwords :
          A!LoginBegins(l, e, d, p) \/ A!LoginRefused(l, e, d, p)
    /\ MfaUnchanged

LoginScored(l) == (\E s \in Scores : A!LoginScored(l, s)) /\ MfaUnchanged

LoginFails(l) == A!LoginFails(l) /\ MfaUnchanged

\* the request to /mfa/check that login l has sent arrives
CheckReceived(l) ==
    /\ login[l].score # None
    /\ CheckArrive(l, login[l].user, login[l].device, login[l].score)
    /\ AuthUnchanged

\* its answer is back
LoginChecked(l) ==
    /\ chk[l].pc = "done"
    /\ A!LoginChecked(l, chk[l].reply)
    /\ MfaUnchanged

CheckRuns(l) == CheckStep(l) /\ AuthUnchanged

-----------------------------------------------------------------------------
(* Verifications *)

VerificationArrives(v) ==
    /\ \E e \in Emails, d \in Devices, o \in Otps : A!VerifyLooksUp(v, e, d, o)
    /\ MfaUnchanged

VerificationReads(v) == A!VerifyReads(v) /\ MfaUnchanged

VerificationFails(v) == A!VerifyFails(v) /\ MfaUnchanged

\* the request to /mfa/verify that verification v has sent arrives
VerificationReceived(v) ==
    /\ ver[v].event # None
    /\ VerifyReceived(v, ver[v].user, ver[v].device, ver[v].event, ver[v].otp)
    /\ AuthUnchanged

\* its answer is back
VerificationAnswered(v) ==
    /\ vrf[v].pc = "done"
    /\ A!VerifyAnswered(v, vrf[v].reply)
    /\ MfaUnchanged

VerificationRuns(v) == VerifyStep(v) /\ AuthUnchanged

-----------------------------------------------------------------------------
(* Accounts *)

RegistrationArrives(u) == A!RegisterBegins(u) /\ MfaUnchanged

RegistrationEnds(u) == (\E p \in Passwords : A!RegisterCommits(u, p)) /\ MfaUnchanged

ChangeArrives(c) ==
    /\ \E e \in Emails, p \in Passwords : A!ChangeBegins(c, e, p)
    /\ MfaUnchanged

ChangeEnds(c) == (A!ChangeCommits(c) \/ A!ChangeFails(c)) /\ MfaUnchanged

\* the devices of the users that a deletion of address e, or of all users,
\* is about
DevicesOf(e) ==
    {r \in trusted : users[r.user] # None /\ e \in {None, EmailOf[r.user]}}

DeletionArrives(x) ==
    /\ \E e \in Emails \cup {None} :
          /\ IF e = None THEN A!DeleteAllBegins(x) ELSE A!DeleteBegins(x, e)
          /\ begun' = [begun EXCEPT ![x] = DevicesOf(e)]
    /\ UNCHANGED <<vars, purger>>

DeletionCommits(x) == A!DeleteCommits(x) /\ MfaUnchanged

DeletionFails(x) == A!DeleteFails(x) /\ MfaUnchanged

MatchedBug(t) == IF t \in Users THEN {}     \* compares the row's own id
                 ELSE {r \in otpLogs : r.email = t}
\* what the DELETE statement for user or address t matches
Matched(t) == IF t \in Users THEN {r \in trusted : r.user = t}
              ELSE {r \in otpLogs : r.email = t}

\* a DELETE request of deletion x arrives at the MFA Handler
PurgeArrives(x) ==
    /\ purger = None
    /\ purger' = x
    /\ A!DeleteArrives(x)
    /\ PurgeMatch
    /\ doomed' = Matched(del[x].call)
    /\ UNCHANGED begun

\* the caller gets the answer, unless it has given up
Answers(x, action) ==
    IF del[x].pc \in {"devices", "logs"} THEN action
    ELSE UNCHANGED <<now, users, mfaKey, requests>>

\* it commits, and answers; without a row to delete the commit is empty
PurgeCommits(x) ==
    /\ purger = x
    /\ purger' = None
    /\ IF doomed = {} THEN UNCHANGED vars ELSE PurgeCommit
    /\ Answers(x, A!DeleteAnswered(x))
    /\ UNCHANGED begun

\* it does not, and the answer is an error
PurgeRollsBack(x) ==
    /\ purger = x
    /\ purger' = None
    /\ IF doomed = {} THEN UNCHANGED vars ELSE PurgeFails
    /\ Answers(x, A!DeleteFails(x))
    /\ UNCHANGED begun

-----------------------------------------------------------------------------
SysTick == Tick /\ A!Tick /\ UNCHANGED <<purger, begun>>

LoginNext(l) ==
    \/ LoginArrives(l) \/ LoginScored(l) \/ LoginFails(l)
    \/ CheckReceived(l) \/ CheckRuns(l) \/ LoginChecked(l)

VerificationNext(v) ==
    \/ VerificationArrives(v) \/ VerificationReads(v) \/ VerificationFails(v)
    \/ VerificationReceived(v) \/ VerificationRuns(v) \/ VerificationAnswered(v)

DeletionNext(x) ==
    \/ DeletionArrives(x) \/ DeletionCommits(x) \/ DeletionFails(x)
    \/ PurgeArrives(x) \/ PurgeCommits(x) \/ PurgeRollsBack(x)

SysNext ==
    \/ \E l \in CheckReq : LoginNext(l)
    \/ \E v \in VerifyReq : VerificationNext(v)
    \/ \E u \in Users : RegistrationArrives(u) \/ RegistrationEnds(u)
    \/ \E c \in ChangeReq : ChangeArrives(c) \/ ChangeEnds(c)
    \/ \E x \in DeleteReq : DeletionNext(x)
    \/ SysTick

SysSpec == SysInit /\ [][SysNext]_sysvars

(***************************************************************************)
(* Both event loops run their coroutines for ever, requests and answers    *)
(* get through or fail, and the databases and the mail client return or    *)
(* raise.  Nothing makes a caller send a request, a call time out or the   *)
(* clock pass a bound.                                                     *)
(***************************************************************************)
Fairness ==
    /\ \A l \in CheckReq :
          /\ WF_sysvars(LoginScored(l))
          /\ WF_sysvars(CheckReceived(l))
          /\ WF_sysvars(CheckRuns(l))
          /\ WF_sysvars(LoginChecked(l))
    /\ \A v \in VerifyReq :
          /\ WF_sysvars(VerificationReads(v))
          /\ WF_sysvars(VerificationReceived(v))
          /\ WF_sysvars(VerificationRuns(v))
          /\ WF_sysvars(VerificationAnswered(v))
    /\ \A x \in DeleteReq :
          /\ WF_sysvars(PurgeArrives(x))
          /\ WF_sysvars(PurgeCommits(x))
          /\ WF_sysvars(DeletionCommits(x))
    /\ \A c \in ChangeReq : WF_sysvars(ChangeEnds(c))
    /\ \A u \in Users : WF_sysvars(RegistrationEnds(u))

FairSpec == SysSpec /\ Fairness

-----------------------------------------------------------------------------
(* Refinement mapping to AdaptiveLogin *)

LoginAnswer(k) ==
    CASE k.reply = NoReply -> "none"
      [] k.reply = 200     -> "token"
      [] k.reply = 202     -> "challenge"
      [] OTHER             -> "refused"

VerifyAnswer(k) ==
    CASE k.reply = NoReply -> "none"
      [] k.reply = 200     -> "token"
      [] OTHER             -> "refused"

LoginView(k) ==
    IF k.user = None THEN None
    ELSE [account |-> k.user, device |-> k.device, answer |-> LoginAnswer(k)]

VerifyView(k) ==
    IF k.user = None THEN None
    ELSE [account |-> k.user, device |-> k.device, answer |-> VerifyAnswer(k)]

AbsLogin == [l \in CheckReq |-> LoginView(login[l])]

AbsVerification == [v \in VerifyReq |-> VerifyView(ver[v])]

Safe == {l \in CheckReq : login[l].score # None /\ login[l].score < RISK_THRESHOLD}

Challenged ==
    {<<EmailOf[chk[c].user], chk[c].device>> :
        c \in {k \in CheckReq : chk[k].otp # None}}

Proved ==
    {<<vrf[m.by].user, vrf[m.by].device>> : m \in {k \in completed : k.ok}}

L == INSTANCE AdaptiveLogin WITH
        Logins <- CheckReq, Verifications <- VerifyReq, Accounts <- Users,
        Addresses <- Emails, AddressOf <- EmailOf,
        login <- AbsLogin, verification <- AbsVerification,
        safe <- Safe, challenged <- Challenged, proved <- Proved

ASSUME RequestAssumption == None \notin L!Request

-----------------------------------------------------------------------------
(* Properties *)

\* The event id that verify_otp sends is that of a login of the address which
\* the MFA Handler did challenge, and so one that the handler knows: the key
\* mfa:{email} is written only after the 202 of that very login, however
\* logins, late answers and deletions interleave (login_user, verify_otp).
EventWasChallenged ==
    \A v \in VerifyReq : ver[v].event # None =>
        /\ chk[ver[v].event].reply = 202
        /\ EmailOf[chk[ver[v].event].user] = EmailOf[ver[v].user]

\* Seen from the MFA Handler, the system is the environment that its
\* specification assumes: what is proved of MfaHandler holds here.
HandlerContract == Spec

\* The system keeps the promise of AdaptiveLogin: no token for a risky login
\* without a password that was mailed for this device to the address of this
\* account, and came back, whatever times out, fails, is deleted or arrives
\* late (login_user, verify_otp, mfa_check, mfa_verify).
RefinesAdaptiveLogin == L!Spec

\* Whoever was told that a password is on its way can use it as long as the
\* MFA Handler keeps it: mfa:{email} is there until otp:{email} is gone, also
\* when another login or verification of the address comes in between, so
\* that verify_otp does not refuse the password unseen.
ChallengeCanBeAnswered ==
    \A e \in Emails :
        otpCache[e] # None /\ login[otpCache[e].event].reply = 202
           => mfaKey[e] # None

\* A deletion that reports success has removed the devices that its users had
\* when it began, and none of them comes back: the users' rows go last, so
\* that a call which fails leaves accounts to delete again, not devices of
\* nobody (delete_user, delete_all_users).
DeletedDevicesGone ==
    \A x \in DeleteReq : del[x].reply = 200 => trusted \cap begun[x] = {}

\* Every request of the Auth Service is answered, registrations included, even
\* if no call ever times out: the calls of the MFA Handler come to an end, a
\* DELETE that waits for that of another deletion gets its turn, and the loop of
\* delete_all_users, one call for each row, runs out of ids.  (A request that
\* has begun is never "idle" or "new" again, so in the end each one is done or
\* was never sent.)
EveryRequestEnds ==
    <>[](/\ \A l \in CheckReq : login[l].pc \in {"idle", "done"}
         /\ \A v \in VerifyReq : ver[v].pc \in {"idle", "done"}
         /\ \A x \in DeleteReq : del[x].pc \in {"idle", "done"}
         /\ \A c \in ChangeReq : change[c].pc \in {"idle", "done"}
         /\ \A u \in Users : reg[u] \in {"new", "done"})

-----------------------------------------------------------------------------
(* Inductive invariants *)

LoginsLinked ==
    \A l \in CheckReq :
        /\ login[l].pc \in {"risk", "check"} =>
              login[l].user # None /\ login[l].reply = NoReply
        /\ login[l].pc \in {"idle", "risk"} => login[l].score = None
        /\ login[l].score # None => login[l].user # None
        /\ chk[l].pc # "idle" => /\ login[l].score # None
                                 /\ login[l].score = chk[l].score
                                 /\ login[l].user = chk[l].user
                                 /\ login[l].device = chk[l].device

ChecksChallenge ==
    \A c \in CheckReq :
        /\ chk[c].reply # NoReply => chk[c].pc = "done"
        /\ chk[c].pc \in {"mail", "log"} \/ chk[c].reply = 202 =>
              chk[c].otp # None /\ chk[c].score >= RISK_THRESHOLD

\* the login of the event was challenged, for this address
ChallengedFor(event, e) == chk[event].reply = 202 /\ EmailOf[chk[event].user] = e

KeysLinked == \A e \in Emails : mfaKey[e] # None => ChallengedFor(mfaKey[e].event, e)

VerificationsLinked ==
    \A v \in VerifyReq :
        /\ ver[v].pc \in {"lookup", "verify"} =>
              ver[v].user # None /\ ver[v].reply = NoReply
        /\ ver[v].pc \in {"idle", "lookup"} => ver[v].event = None
        /\ ver[v].event # None => /\ ver[v].user # None
                                  /\ ChallengedFor(ver[v].event, EmailOf[ver[v].user])
        /\ vrf[v].pc # "idle" => /\ ver[v].event # None
                                 /\ ver[v].user = vrf[v].user
                                 /\ ver[v].device = vrf[v].device

CompletedLinked == \A m \in completed : vrf[m.by].pc # "idle"

\* The two services agree: what the MFA Handler works on is what the login or
\* the verification of the same number has sent, and every event id in Redis
\* or on its way is that of a challenge for its address (login_user,
\* verify_otp, mfa_check, mfa_verify).
LinkInv == /\ LoginsLinked
           /\ ChecksChallenge
           /\ KeysLinked
           /\ VerificationsLinked
           /\ CompletedLinked

===============================================================================
