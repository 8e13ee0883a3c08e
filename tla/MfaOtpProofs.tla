---------------------------- MODULE MfaOtpProofs ----------------------------
(* Passwords: what is accepted was issued, and what is spent stays spent.    *)
EXTENDS MfaHandlerProofs

(* A check that has issued its password keeps it, to the end. *)
LEMMA CheckKeepsIssue ==
    ASSUME TypeOK, NEW c \in CheckReq, CheckNext(c), NEW b \in CheckReq,
           chk[b].pc \in {"mail", "log", "done"}
    PROVE  /\ chk'[b].pc \in {"mail", "log", "done"}
           /\ chk'[b].otp = chk[b].otp
           /\ chk'[b].device = chk[b].device
           /\ chk'[b].user = chk[b].user
           /\ chk'[b].score = chk[b].score
           /\ chk'[b].issued = chk[b].issued
<1>1. CASE b # c
  BY <1>1, CheckOthers
<1>2. CASE b = c
  <2>1. chk[c] \in CheckCoroutine
    BY <1>2, StartedCheck
  <2>2. \/ \E s \in {"sent", "failed-send"} : chk'[c] = WithMail(chk[c], s)
        \/ \E code \in {202, 500} : chk'[c] = WithReply(chk[c], code)
    BY <1>2, CheckOwn DEF CheckChallenge
  <2>3. QED
    BY <1>2, <2>1, <2>2, CheckFields
<1>3. QED
  BY <1>1, <1>2

LEMMA IssuedByStable ==
    ASSUME TypeOK, NEW c \in CheckReq, CheckNext(c), NEW b \in CheckReq,
           NEW entry, NEW e, IssuedBy(chk[b], entry, e)
    PROVE  IssuedBy(chk'[b], entry, e) /\ chk'[b].issued = chk[b].issued
BY CheckKeepsIssue DEF IssuedBy

(* Passwords under a step of a check. *)
LEMMA OtpInvCheck ==
    ASSUME TypeOK, OtpInv, NEW c \in CheckReq, CheckNext(c)
    PROVE  OtpInv'
<1>1. IssueTimes'
  <2> SUFFICES ASSUME NEW b \in CheckReq, chk'[b].pc # "idle"
               PROVE  chk'[b].issued <= now
    BY CheckOthers DEF IssueTimes
  <2>1. CASE b # c
    BY <2>1, CheckOthers DEF OtpInv, IssueTimes
  <2>2. CASE b = c /\ chk[c].pc = "idle"
    <3>1. ASSUME NEW u \in Users, NEW d \in Devices, NEW s \in Scores
          PROVE  /\ NewCheck(u, d, s) \in CheckCoroutine
                 /\ NewCheck(u, d, s).issued = 0
      BY ScoreAssumption DEF ScoreAssumption, NewCheck, CheckCoroutine, NoReply, TypeOK
    <3>2. PICK u \in Users, d \in Devices, s \in Scores :
             chk'[c] = NewCheck(u, d, s) \/ chk'[c] = WithReply(NewCheck(u, d, s), 200)
      BY <2>2, CheckOwn, ZenonT(40) DEF CheckChallenge
    <3>4. chk'[c].issued = 0
      BY <3>1, <3>2, CheckFields
    <3>3. QED
      BY <2>2, <3>4 DEF TypeOK
  <2>3. CASE b = c /\ chk[c].pc # "idle"
    <3>1. chk[c] \in CheckCoroutine /\ chk[c].issued <= now
      BY <2>3, StartedCheck DEF OtpInv, IssueTimes
    <3>2. chk'[c].issued = chk[c].issued \/ chk'[c].issued = now
      BY <2>3, <3>1, CheckOwn, CheckFields
    <3>3. QED
      BY <2>3, <3>1, <3>2 DEF TypeOK
  <2>4. QED
    BY <2>1, <2>2, <2>3
<1>2. ReadWasIssued'
  <2> SUFFICES ASSUME NEW v \in VerifyReq, vrf[v].stored # None
               PROVE  /\ vrf[v].pc # "idle"
                      /\ IssuedBy(chk'[vrf[v].stored.event], vrf[v].stored,
                                  EmailOf[vrf[v].user])
                      /\ chk'[vrf[v].stored.event].issued <= vrf[v].at
                      /\ vrf[v].at < vrf[v].stored.expires
    BY CheckOthers DEF ReadWasIssued
  <2>1. vrf[v].stored.event \in CheckReq
    BY StartedVerify DEF OtpInv, ReadWasIssued, VerifyCoroutine, OtpEntry
  <2>2. QED
    BY <2>1, IssuedByStable DEF OtpInv, ReadWasIssued
<1>3. AcceptedWasRead'
  BY CheckOthers DEF OtpInv, AcceptedWasRead, Accepted
<1>4. CASE otpCache' = otpCache
  <2>1. CachedWasIssued'
    <3> SUFFICES ASSUME NEW e \in Emails, otpCache[e] # None
                 PROVE  /\ IssuedBy(chk'[otpCache[e].event], otpCache[e], e)
                        /\ now < otpCache[e].expires
      BY <1>4, CheckOthers DEF CachedWasIssued
    <3>1. otpCache[e].event \in CheckReq
      BY DEF TypeOK, OtpEntry
    <3>2. QED
      BY <3>1, IssuedByStable DEF OtpInv, CachedWasIssued
  <2>2. SpentIsGone'
    BY <1>4, CheckOthers DEF OtpInv, SpentIsGone, Spent
  <2>3. QED
    BY <1>1, <1>2, <1>3, <2>1, <2>2 DEF OtpInv
<1>5. CASE CheckChallenge(c)
  <2> DEFINE email == EmailOf[chk[c].user]
  <2>1. PICK o \in Otps :
            /\ otpCache' = [otpCache EXCEPT ![email] = NewEntry(c, o)]
            /\ chk' = [chk EXCEPT ![c] = WithOtp(@, o)]
    BY <1>5 DEF CheckChallenge
  <2>2. chk[c] \in CheckCoroutine /\ chk[c].pc = "result" /\ chk[c].score >= RISK_THRESHOLD
    BY <1>5, StartedCheck DEF CheckChallenge
  <2>3. chk'[c] = WithOtp(chk[c], o)
    BY <2>1 DEF TypeOK
  <2>4. email \in Emails
    BY <2>2, UserAssumption DEF UserAssumption, CheckCoroutine
  <2>5. /\ NewEntry(c, o).event = c /\ NewEntry(c, o).otp = o
        /\ NewEntry(c, o).device = chk[c].device
        /\ NewEntry(c, o).expires = now + OTP_EXPIRE
    BY DEF NewEntry
  <2>6. IssuedBy(chk'[c], NewEntry(c, o), email)
    BY <2>2, <2>3, <2>5, CheckFields DEF IssuedBy
  <2>7. CachedWasIssued'
    <3> SUFFICES ASSUME NEW e \in Emails, otpCache'[e] # None
                 PROVE  /\ IssuedBy(chk'[otpCache'[e].event], otpCache'[e], e)
                        /\ now < otpCache'[e].expires
      BY CheckOthers DEF CachedWasIssued
    <3>1. CASE e = email
      <4>1. otpCache'[e] = NewEntry(c, o)
        BY <2>1, <2>4, <3>1 DEF TypeOK
      <4>2. now < now + OTP_EXPIRE
        BY ClockAssumption DEF ClockAssumption, TypeOK
      <4>3. QED
        BY <2>5, <2>6, <3>1, <4>1, <4>2
    <3>2. CASE e # email
      <4>1. otpCache'[e] = otpCache[e]
        BY <2>1, <3>2 DEF TypeOK
      <4>2. otpCache[e].event \in CheckReq
        BY <4>1 DEF TypeOK, OtpEntry
      <4>3. QED
        BY <4>1, <4>2, IssuedByStable DEF OtpInv, CachedWasIssued
    <3>3. QED
      BY <3>1, <3>2
  <2>8. SpentIsGone'
    <3> SUFFICES ASSUME NEW v \in VerifyReq, NEW e \in Emails,
                        Spent(v), otpCache'[e] # None
                 PROVE  otpCache'[e].event # vrf[v].stored.event
      BY CheckOthers DEF SpentIsGone, Spent
    <3>1. chk[vrf[v].stored.event].pc \in {"mail", "log", "done"}
      BY DEF OtpInv, ReadWasIssued, Spent, IssuedBy
    <3>2. CASE e = email
      BY <2>1, <2>2, <2>4, <2>5, <3>1, <3>2 DEF TypeOK
    <3>3. CASE e # email
      BY <2>1, <3>3 DEF TypeOK, OtpInv, SpentIsGone
    <3>4. QED
      BY <3>2, <3>3
  <2>9. QED
    BY <1>1, <1>2, <1>3, <2>7, <2>8 DEF OtpInv
<1>6. QED
  BY <1>4, <1>5, CheckOthers

(* A verification that has reached its last comparisons is spent only by     *)
(* deleting the key of its address.                                          *)
LEMMA SpendDeletes ==
    ASSUME TypeOK, NEW v \in VerifyReq, VerifyNext(v), Spent(v)', ~ Spent(v)
    PROVE  otpCache' = OtpsWithout(EmailOf[vrf[v].user]) /\ vrf[v].pc # "idle"
<1>1. CASE vrf[v].pc = "idle"
  <2>1. PICK u \in Users, d \in Devices, e \in CheckReq, o \in Otps :
            vrf'[v] = NewVerify(u, d, e, o)
    BY <1>1, VerifyArrives
  <2>2. QED
    BY <2>1, NewVerifyFields DEF Spent, NoReply
<1>2. CASE vrf[v].pc # "idle"
  <2>1. vrf[v] \in VerifyCoroutine
    BY <1>2, StartedVerify
  <2>2. vrf'[v].stored = vrf[v].stored
    BY <1>2, VerifyKeeps
  <2>3. CASE VerifyRefuse(v) \/ VerifyAccept(v) \/ VerifyPublishFails(v)
    BY <1>2, <2>3 DEF VerifyRefuse, VerifyAccept, VerifyPublishFails
  <2>4. CASE vrf'[v] = WithPc(vrf[v], "resume") /\ vrf[v].pc = "log"
    BY <2>1, <2>2, <2>4, VerifyFields DEF Spent
  <2>5. CASE vrf'[v] = WithReply(vrf[v], 500)
    BY <2>1, <2>2, <2>5, VerifyFields DEF Spent
  <2>6. CASE VerifyTrust(v) \/ VerifyCache(v)
    BY <2>2, <2>6 DEF Spent, VerifyTrust, VerifyCache
  <2>7. QED
    BY <1>2, <2>3, <2>4, <2>5, <2>6, VerifyOwn
<1>3. QED
  BY <1>1, <1>2

(* Only VerifyAccept accepts. *)
LEMMA AcceptStep ==
    ASSUME TypeOK, NEW v \in VerifyReq, VerifyNext(v), Accepted(v)', ~ Accepted(v)
    PROVE  VerifyAccept(v)
<1>1. CASE vrf[v].pc = "idle"
  <2>1. PICK u \in Users, d \in Devices, e \in CheckReq, o \in Otps :
            vrf'[v] = NewVerify(u, d, e, o)
    BY <1>1, VerifyArrives
  <2>2. QED
    BY <2>1, NewVerifyFields DEF Accepted, NoReply
<1>2. CASE vrf[v].pc # "idle" /\ ~ VerifyAccept(v)
  <2>1. vrf[v] \in VerifyCoroutine
    BY <1>2, StartedVerify
  <2>2. vrf[v].pc \notin {"trust", "cache"}
    BY DEF Accepted
  <2>3. ~ VerifyTrust(v) /\ ~ VerifyCache(v)
    BY <2>2 DEF VerifyTrust, VerifyCache
  <2>4. \/ vrf'[v] = WithPc(vrf[v], "resume")
        \/ \E code \in {401, 500} : vrf'[v] = WithReply(vrf[v], code)
    BY <1>2, <2>3, VerifyOwn
  <2>5. QED
    BY <2>1, <2>4, VerifyFields, SMTT(30) DEF Accepted
<1>3. QED
  BY <1>1, <1>2

(* Passwords under a step of a verification. *)
LEMMA OtpInvVerify ==
    ASSUME TypeOK, TypeOK', OtpInv, NEW v \in VerifyReq, VerifyNext(v)
    PROVE  OtpInv'
<1>1. IssueTimes'
  BY VerifyOthers DEF OtpInv, IssueTimes
<1>2. CachedWasIssued'
  <2> SUFFICES ASSUME NEW e \in Emails, otpCache'[e] # None
               PROVE  /\ IssuedBy(chk[otpCache'[e].event], otpCache'[e], e)
                      /\ now < otpCache'[e].expires
    BY VerifyOthers DEF CachedWasIssued
  <2>1. otpCache'[e] = otpCache[e]
    BY VerifyOthers
  <2>2. QED
    BY <2>1 DEF OtpInv, CachedWasIssued
<1>3. ReadWasIssued'
  <2> SUFFICES ASSUME NEW w \in VerifyReq, vrf'[w].stored # None
               PROVE  /\ vrf'[w].pc # "idle"
                      /\ IssuedBy(chk[vrf'[w].stored.event], vrf'[w].stored,
                                  EmailOf[vrf'[w].user])
                      /\ chk[vrf'[w].stored.event].issued <= vrf'[w].at
                      /\ vrf'[w].at < vrf'[w].stored.expires
    BY VerifyOthers DEF ReadWasIssued
  <2>1. CASE w # v
    BY <2>1, VerifyOthers DEF OtpInv, ReadWasIssued
  <2>2. CASE w = v /\ vrf[v].pc # "idle"
    BY <2>2, VerifyKeeps DEF OtpInv, ReadWasIssued
  <2>3. CASE w = v /\ vrf[v].pc = "idle"
    <3>1. PICK u \in Users, d \in Devices, e \in CheckReq, o \in Otps :
              vrf'[v] = NewVerify(u, d, e, o)
      BY <2>3, VerifyArrives
    <3>2. EmailOf[u] \in Emails
      BY UserAssumption DEF UserAssumption
    <3>3. /\ vrf'[v].pc = "log" /\ vrf'[v].user = u /\ vrf'[v].at = now
          /\ vrf'[v].stored = otpCache[EmailOf[u]]
      BY <3>1, NewVerifyFields
    <3>4. /\ IssuedBy(chk[otpCache[EmailOf[u]].event], otpCache[EmailOf[u]], EmailOf[u])
          /\ now < otpCache[EmailOf[u]].expires
      BY <2>3, <3>2, <3>3 DEF OtpInv, CachedWasIssued
    <3>5. otpCache[EmailOf[u]].event \in CheckReq
      BY <2>3, <3>2, <3>3 DEF TypeOK, OtpEntry
    <3>6. chk[otpCache[EmailOf[u]].event].issued <= now
      BY <3>4, <3>5 DEF OtpInv, IssueTimes, IssuedBy
    <3>7. QED
      BY <2>3, <3>3, <3>4, <3>6
  <2>4. QED
    BY <2>1, <2>2, <2>3
<1>4. AcceptedWasRead'
  <2> SUFFICES ASSUME NEW w \in VerifyReq, Accepted(w)'
               PROVE  /\ vrf'[w].stored # None
                      /\ Accepts(vrf'[w].stored, vrf'[w].otp, vrf'[w].device)
    BY DEF AcceptedWasRead, Accepts
  <2>1. CASE w # v
    BY <2>1, VerifyOthers DEF OtpInv, AcceptedWasRead, Accepted
  <2>2. CASE w = v /\ Accepted(v)
    <3>1. vrf[v].pc # "idle"
      BY <2>2 DEF Accepted, OtpInv, AcceptedWasRead, ReadWasIssued
    <3>2. QED
      BY <2>2, <3>1, VerifyKeeps DEF OtpInv, AcceptedWasRead
  <2>3. CASE w = v /\ VerifyAccept(v)
    <3>1. vrf[v].pc # "idle"
      BY <2>3 DEF VerifyAccept
    <3>2. QED
      BY <2>3, <3>1, VerifyKeeps DEF VerifyAccept
  <2>4. QED
    BY <2>1, <2>2, <2>3, AcceptStep
<1>5. SpentIsGone'
  <2> SUFFICES ASSUME NEW w \in VerifyReq, NEW e \in Emails,
                      Spent(w)', otpCache'[e] # None
               PROVE  otpCache'[e].event # vrf'[w].stored.event
    BY DEF SpentIsGone
  <2>1. otpCache'[e] = otpCache[e]
    BY VerifyOthers
  <2>2. CASE w # v
    BY <2>1, <2>2, VerifyOthers DEF OtpInv, SpentIsGone, Spent
  <2>3. CASE w = v /\ Spent(v)
    <3>1. vrf'[v].stored = vrf[v].stored
      BY <2>3, VerifyKeeps DEF Spent, OtpInv, ReadWasIssued
    <3>2. QED
      BY <2>1, <2>3, <3>1 DEF OtpInv, SpentIsGone
  <2>4. CASE w = v /\ ~ Spent(v)
    <3>1. otpCache' = OtpsWithout(EmailOf[vrf[v].user]) /\ vrf[v].pc # "idle"
      BY <2>4, SpendDeletes
    <3>2. vrf'[v].stored = vrf[v].stored /\ vrf[v].stored # None
      BY <2>4, <3>1, VerifyKeeps DEF Spent
    <3>3. EmailOf[chk[vrf[v].stored.event].user] = EmailOf[vrf[v].user]
      BY <3>2 DEF OtpInv, ReadWasIssued, IssuedBy
    <3>4. EmailOf[chk[otpCache[e].event].user] = e
      BY <2>1 DEF OtpInv, CachedWasIssued, IssuedBy
    <3>5. e # EmailOf[vrf[v].user]
      BY <3>1 DEF OtpsWithout, TypeOK
    <3>6. QED
      BY <2>1, <2>4, <3>2, <3>3, <3>4, <3>5
  <2>5. QED
    BY <2>2, <2>3, <2>4
<1>6. QED
  BY <1>1, <1>2, <1>3, <1>4, <1>5 DEF OtpInv

(* Passwords while time passes and rows are purged. *)
LEMMA OtpInvOther ==
    ASSUME TypeOK, OtpInv,
           Tick \/ PurgeMatch \/ PurgeCommit \/ PurgeFails \/ UNCHANGED vars
    PROVE  OtpInv'
<1>1. /\ chk' = chk /\ vrf' = vrf /\ now <= now'
      /\ \A e \in Emails : otpCache'[e] # None =>
            otpCache'[e] = otpCache[e] /\ now' < otpCache[e].expires
  <2>1. CASE Tick
    <3> SUFFICES ASSUME NEW e \in Emails, otpCache'[e] # None
                 PROVE  otpCache'[e] = otpCache[e] /\ now' < otpCache[e].expires
      BY <2>1 DEF Tick, TypeOK
    <3>1. otpCache[e] # None /\ ~ (otpCache[e].expires <= now + 1)
      BY <2>1 DEF Tick
    <3>2. otpCache[e].expires \in Nat
      BY <3>1 DEF TypeOK, OtpEntry
    <3>3. QED
      BY <2>1, <3>1, <3>2 DEF Tick, TypeOK
  <2>2. CASE PurgeMatch \/ PurgeCommit \/ PurgeFails \/ UNCHANGED vars
    BY <2>2 DEF PurgeMatch, PurgeCommit, PurgeFails, vars, OtpInv, CachedWasIssued, TypeOK
  <2>3. QED
    BY <2>1, <2>2
<1>2. IssueTimes'
  <2> SUFFICES ASSUME NEW c \in CheckReq, chk[c].pc # "idle"
               PROVE  chk[c].issued <= now'
    BY <1>1 DEF IssueTimes
  <2>1. chk[c].issued \in Nat /\ now \in Nat
    BY StartedCheck DEF CheckCoroutine, TypeOK
  <2>2. now' \in Nat
    BY DEF Tick, PurgeMatch, PurgeCommit, PurgeFails, vars, TypeOK
  <2>3. QED
    BY <1>1, <2>1, <2>2 DEF OtpInv, IssueTimes
<1>3. CachedWasIssued'
  BY <1>1 DEF OtpInv, CachedWasIssued
<1>4. ReadWasIssued'
  BY <1>1 DEF OtpInv, ReadWasIssued
<1>5. AcceptedWasRead'
  BY <1>1 DEF OtpInv, AcceptedWasRead, Accepted, Accepts
<1>6. SpentIsGone'
  BY <1>1 DEF OtpInv, SpentIsGone, Spent
<1>7. QED
  BY <1>2, <1>3, <1>4, <1>5, <1>6 DEF OtpInv

(* Every password in Redis, read, accepted or spent is accounted for         *)
(* (OtpInv), at every step of every request.                                 *)
THEOREM OtpInvariant == Spec => []OtpInv
<1>1. Init => OtpInv
  BY DEF Init, OtpInv, IssueTimes, CachedWasIssued, ReadWasIssued, AcceptedWasRead,
         SpentIsGone, Accepted, Spent, CheckIdle, VerifyIdle, NoReply
<1>2. TypeOK /\ TypeOK' /\ OtpInv /\ [Next]_vars => OtpInv'
  BY OtpInvCheck, OtpInvVerify, OtpInvOther DEF Next
<1>3. QED
  BY <1>1, <1>2, TypeCorrect, PTL DEF Spec

(* No password is accepted but one that a check issued for that address and  *)
(* device less than OTP_EXPIRE before (send_otp, verify_otp, mfa_verify).    *)
THEOREM AcceptedCodes == Spec => []AcceptedCodeWasIssued
<1>1. TypeOK /\ OtpInv => AcceptedCodeWasIssued
  <2> SUFFICES ASSUME TypeOK, OtpInv, NEW v \in VerifyReq, Accepted(v)
               PROVE  \E c \in CheckReq :
                         /\ chk[c].otp = vrf[v].otp
                         /\ chk[c].device = vrf[v].device
                         /\ EmailOf[chk[c].user] = EmailOf[vrf[v].user]
                         /\ chk[c].score >= RISK_THRESHOLD
                         /\ chk[c].issued <= vrf[v].at
                         /\ vrf[v].at < chk[c].issued + OTP_EXPIRE
    BY DEF AcceptedCodeWasIssued
  <2>1. vrf[v].stored # None /\ Accepts(vrf[v].stored, vrf[v].otp, vrf[v].device)
    BY DEF OtpInv, AcceptedWasRead
  <2>2. vrf[v].stored.event \in CheckReq
    BY <2>1, StartedVerify DEF OtpInv, ReadWasIssued, VerifyCoroutine, OtpEntry
  <2>3. WITNESS vrf[v].stored.event \in CheckReq
  <2>4. QED
    BY <2>1 DEF OtpInv, ReadWasIssued, IssuedBy, Accepts
<1>2. QED
  BY <1>1, TypeCorrect, OtpInvariant, PTL

(* A password that one verification has spent is never read by a later one   *)
(* (verify_otp against the setex of concurrent checks).                      *)
THEOREM SpentCodes == Spec => SpentCodeStaysSpent
<1>1. TypeOK /\ OtpInv /\ [Next]_vars =>
        [\A v, w \in VerifyReq :
            vrf[v].pc = "idle" /\ vrf'[v].stored # None /\ Spent(w)
               => vrf'[v].stored.event # vrf[w].stored.event]_vars
  <2> SUFFICES ASSUME TypeOK, OtpInv, Next, NEW v \in VerifyReq, NEW w \in VerifyReq,
                      vrf[v].pc = "idle", vrf'[v].stored # None, Spent(w)
               PROVE  vrf'[v].stored.event # vrf[w].stored.event
    OBVIOUS
  <2>1. vrf[v].stored = None
    BY DEF OtpInv, ReadWasIssued
  <2>2. VerifyNext(v)
    BY <2>1, CheckOthers, VerifyOthers
    DEF Next, Tick, PurgeMatch, PurgeCommit, PurgeFails
  <2>3. PICK u \in Users, d \in Devices, e \in CheckReq, o \in Otps :
            vrf'[v] = NewVerify(u, d, e, o)
    BY <2>2, VerifyArrives
  <2>4. vrf'[v].stored = otpCache[EmailOf[u]] /\ EmailOf[u] \in Emails
    BY <2>3, NewVerifyFields, UserAssumption DEF UserAssumption
  <2>5. QED
    BY <2>4 DEF OtpInv, SpentIsGone
<1>2. QED
  BY <1>1, TypeCorrect, OtpInvariant, PTL DEF Spec, SpentCodeStaysSpent

-----------------------------------------------------------------------------
(* When passwords are one-time passwords.  MfaHandler_once.cfg shows two     *)
(* verifications accept the same one: both read it before either deletes it. *)
(* That overlap is the only way.                                             *)

\* v has read Redis and has not deleted the key of its address yet
Open(v) == vrf[v].pc \in {"log", "resume"}

\* No two verifications of an address are between their read and their
\* delete (the await of the commit in verify_otp).
OneAtATime ==
    \A v, w \in VerifyReq :
        v # w /\ Open(v) /\ Open(w) => EmailOf[vrf[v].user] # EmailOf[vrf[w].user]

\* No open verification holds what another has spent.
ReadUnspent ==
    \A v, w \in VerifyReq :
        Open(v) /\ vrf[v].stored # None /\ Spent(w)
           => vrf[v].stored.event # vrf[w].stored.event

OnceInv == ReadUnspent /\ AcceptedOnce

(* A verification is open from its arrival on. *)
LEMMA OpenStays ==
    ASSUME TypeOK, NEW v \in VerifyReq, VerifyNext(v), vrf[v].pc # "idle", Open(v)'
    PROVE  Open(v)
<1>1. vrf[v] \in VerifyCoroutine
  BY StartedVerify
<1>2. \/ vrf[v].pc = "log"
      \/ \E code : vrf'[v] = WithReply(vrf[v], code)
      \/ vrf'[v] = WithPc(vrf[v], "cache")
      \/ vrf'[v] = WithTrust(vrf[v])
      \/ vrf'[v] = WithCache(vrf[v])
  BY VerifyOwn
<1>3. vrf[v].pc = "log"
  BY <1>1, <1>2, VerifyFields DEF Open
<1>4. QED
  BY <1>3 DEF Open

(* The step that spends a password is the last one of an open verification. *)
LEMMA SpendCloses ==
    ASSUME TypeOK, NEW v \in VerifyReq, VerifyNext(v), Spent(v)', ~ Spent(v)
    PROVE  Open(v) /\ ~ Open(v)' /\ vrf'[v].stored = vrf[v].stored
<1>1. vrf[v].pc # "idle"
  BY SpendDeletes
<1>2. vrf[v] \in VerifyCoroutine
  BY <1>1, StartedVerify
<1>3. vrf'[v].stored = vrf[v].stored
  BY <1>1, VerifyKeeps
<1>4. CASE VerifyRefuse(v) /\ vrf'[v] = WithReply(vrf[v], 401)
  <2>1. vrf[v].pc = "resume"
    BY <1>4 DEF VerifyRefuse
  <2>2. vrf'[v].pc = "done"
    BY <1>2, <1>4, VerifyFields
  <2>3. QED
    BY <1>3, <2>1, <2>2 DEF Open
<1>5. CASE VerifyAccept(v) /\ vrf'[v] = WithTrust(vrf[v])
  <2>1. vrf[v].pc = "resume"
    BY <1>5 DEF VerifyAccept
  <2>2. vrf'[v].pc = "trust"
    BY <1>2, <1>5, VerifyFields
  <2>3. QED
    BY <1>3, <2>1, <2>2 DEF Open
<1>6. CASE vrf'[v] = WithPc(vrf[v], "resume") /\ vrf[v].pc = "log"
  BY <1>2, <1>3, <1>6, VerifyFields DEF Spent
<1>7. CASE vrf'[v] = WithReply(vrf[v], 500)
  BY <1>2, <1>3, <1>7, VerifyFields DEF Spent
<1>8. CASE VerifyTrust(v) \/ VerifyCache(v)
  BY <1>3, <1>8 DEF Spent, VerifyTrust, VerifyCache
<1>9. QED
  BY <1>1, <1>4, <1>5, <1>6, <1>7, <1>8, VerifyOwn

(* Two verifications that read the same password are of the same address. *)
LEMMA SameEventSameEmail ==
    ASSUME OtpInv, NEW v \in VerifyReq, NEW w \in VerifyReq,
           vrf[v].stored # None, vrf[w].stored # None,
           vrf[v].stored.event = vrf[w].stored.event
    PROVE  EmailOf[vrf[v].user] = EmailOf[vrf[w].user]
BY DEF OtpInv, ReadWasIssued, IssuedBy

(* One-time passwords under a step of a verification. *)
LEMMA OnceInvVerify ==
    ASSUME TypeOK, OtpInv, OneAtATime, OnceInv, NEW x \in VerifyReq, VerifyNext(x)
    PROVE  OnceInv'
<1>1. \A w \in VerifyReq : w # x => vrf'[w] = vrf[w]
  BY VerifyOthers
<1>2. vrf[x].pc # "idle" => vrf'[x].stored = vrf[x].stored
  BY VerifyKeeps
<1>3. ASSUME NEW w \in VerifyReq, Spent(w)'
      PROVE  /\ vrf'[w].stored = vrf[w].stored
             /\ Spent(w) \/ (w = x /\ Open(x) /\ ~ Open(x)')
  <2>1. CASE w # x
    BY <1>1, <1>3, <2>1 DEF Spent
  <2>2. CASE w = x /\ Spent(x)
    BY <1>2, <2>2 DEF Spent, OtpInv, ReadWasIssued
  <2>3. CASE w = x /\ ~ Spent(x)
    BY <1>3, <2>3, SpendCloses
  <2>4. QED
    BY <2>1, <2>2, <2>3
<1>4. ReadUnspent'
  <2> SUFFICES ASSUME NEW v \in VerifyReq, NEW w \in VerifyReq,
                      Open(v)', vrf'[v].stored # None, Spent(w)'
               PROVE  vrf'[v].stored.event # vrf'[w].stored.event
    BY DEF ReadUnspent
  <2>1. CASE v = x /\ vrf[x].pc = "idle"
    <3>1. PICK u \in Users, d \in Devices, e \in CheckReq, o \in Otps :
              vrf'[x] = NewVerify(u, d, e, o)
      BY <2>1, VerifyArrives
    <3>2. vrf'[x].stored = otpCache[EmailOf[u]] /\ EmailOf[u] \in Emails
      BY <3>1, NewVerifyFields, UserAssumption DEF UserAssumption
    <3>3. Spent(w) /\ vrf'[w].stored = vrf[w].stored
      BY <1>3, <2>1 DEF Open
    <3>4. QED
      BY <2>1, <3>2, <3>3 DEF OtpInv, SpentIsGone
  <2>2. CASE v # x \/ vrf[x].pc # "idle"
    <3>1. Open(v) /\ vrf'[v].stored = vrf[v].stored
      BY <1>1, <1>2, <2>2, OpenStays DEF Open
    <3>2. CASE Spent(w)
      BY <1>3, <3>1, <3>2 DEF OnceInv, ReadUnspent
    <3>3. CASE w = x /\ Open(x) /\ ~ Open(x)'
      <4>1. EmailOf[vrf[v].user] # EmailOf[vrf[x].user]
        BY <3>1, <3>3 DEF OneAtATime
      <4>2. vrf'[x].stored = vrf[x].stored /\ vrf'[x].stored # None
        BY <1>3, <3>3 DEF Spent
      <4>3. QED
        BY <3>1, <3>3, <4>1, <4>2, SameEventSameEmail
    <3>4. QED
      BY <1>3, <3>2, <3>3
  <2>3. QED
    BY <2>1, <2>2
<1>5. AcceptedOnce'
  <2>1. ASSUME NEW w \in VerifyReq, w # x, Accepted(w), Accepted(x)'
        PROVE  vrf'[x].stored.event # vrf[w].stored.event
    <3>1. CASE Accepted(x)
      <4>1. vrf[x].pc # "idle"
        BY <3>1 DEF OtpInv, AcceptedWasRead, ReadWasIssued
      <4>2. QED
        BY <1>2, <2>1, <3>1, <4>1 DEF OnceInv, AcceptedOnce
    <3>2. CASE ~ Accepted(x)
      <4>1. Open(x) /\ vrf[x].stored # None /\ vrf[x].pc # "idle"
        BY <2>1, <3>2, AcceptStep DEF VerifyAccept, Open
      <4>2. Spent(w)
        BY <2>1 DEF OtpInv, AcceptedWasRead, Accepted, Spent
      <4>3. QED
        BY <1>2, <4>1, <4>2 DEF OnceInv, ReadUnspent
    <3>3. QED
      BY <3>1, <3>2
  <2> SUFFICES ASSUME NEW v \in VerifyReq, NEW w \in VerifyReq, Accepted(v)', Accepted(w)',
                      vrf'[v].stored.event = vrf'[w].stored.event, v # w
               PROVE  FALSE
    BY DEF AcceptedOnce
  <2>2. CASE v # x /\ w # x
    BY <1>1, <2>2 DEF OnceInv, AcceptedOnce, Accepted
  <2>3. CASE v = x
    BY <1>1, <2>1, <2>3 DEF Accepted
  <2>4. CASE w = x
    BY <1>1, <2>1, <2>4 DEF Accepted
  <2>5. QED
    BY <2>2, <2>3, <2>4
<1>6. QED
  BY <1>4, <1>5 DEF OnceInv

(* As long as no two verifications of an address overlap between their read  *)
(* and their delete, a password is accepted at most once, through all the    *)
(* checks, expiries, failures and accounts that share the address.  It is    *)
(* the condition the await of the commit in verify_otp leaves open.          *)
THEOREM OneTimeAlone == Spec /\ []OneAtATime => []AcceptedOnce
<1>1. Init => OnceInv
  BY DEF Init, OnceInv, ReadUnspent, AcceptedOnce, Open, Accepted, VerifyIdle, NoReply
<1>2. TypeOK /\ OtpInv /\ OneAtATime /\ OnceInv /\ [Next]_vars => OnceInv'
  <2> SUFFICES ASSUME TypeOK, OtpInv, OneAtATime, OnceInv, [Next]_vars
               PROVE  OnceInv'
    OBVIOUS
  <2>1. CASE vrf' = vrf
    BY <2>1 DEF OnceInv, ReadUnspent, AcceptedOnce, Open, Spent, Accepted
  <2>2. CASE \E v \in VerifyReq : VerifyNext(v)
    BY <2>2, OnceInvVerify
  <2>3. QED
    BY <2>1, <2>2, CheckOthers
    DEF Next, Tick, PurgeMatch, PurgeCommit, PurgeFails, vars
<1>3. OnceInv => AcceptedOnce
  BY DEF OnceInv
<1>4. QED
  BY <1>1, <1>2, <1>3, TypeCorrect, OtpInvariant, PTL DEF Spec
=============================================================================
