--------------------------- MODULE MfaHandlerProofs ---------------------------
(* Proofs of the safety properties of MfaHandler for every set of requests,  *)
(* accounts, devices and passwords, and every value of the time constants.   *)
EXTENDS MfaHandler, TLAPS

(* A coroutine that has started holds a request. *)
LEMMA StartedCheck ==
    ASSUME TypeOK, NEW c \in CheckReq, chk[c].pc # "idle"
    PROVE  chk[c] \in CheckCoroutine
BY DEF TypeOK, CheckIdle

(* A verification that has started holds a request. *)
LEMMA StartedVerify ==
    ASSUME TypeOK, NEW v \in VerifyReq, vrf[v].pc # "idle"
    PROVE  vrf[v] \in VerifyCoroutine
BY DEF TypeOK, VerifyIdle

(* The rows a check reads are rows of the table, for its device. *)
LEMMA LiveRowsFacts ==
    ASSUME NEW u, NEW d, NEW t
    PROVE  /\ LiveRows(u, d, t) \subseteq trusted
           /\ \A r \in LiveRows(u, d, t) : r.user = u /\ r.device = d /\ r.expires > t
BY DEF LiveRows

(* int() of a timedelta drops less than a second. *)
LEMMA WholeSecondsFacts ==
    ASSUME NEW t \in Nat
    PROVE  /\ WholeSeconds(t) \in Nat
           /\ WholeSeconds(t) <= t
           /\ t < WholeSeconds(t) + Second
<1>1. Second \in Nat \ {0}
  BY ClockAssumption DEF ClockAssumption
<1>2. t % Second \in 0 .. (Second - 1) /\ t % Second <= t
  BY <1>1
<1>3. QED
  BY <1>1, <1>2 DEF WholeSeconds

(* What each step of a check does to the state of its coroutine. *)
LEMMA CheckSteps ==
    ASSUME TypeOK, NEW k \in CheckCoroutine
    PROVE  /\ \A code \in {200, 202, 500} : WithReply(k, code) \in CheckCoroutine
           /\ \A rows \in SUBSET TrustedRow : WithRows(k, rows) \in CheckCoroutine
           /\ \A o \in Otps : WithOtp(k, o) \in CheckCoroutine
           /\ \A s \in {"sent", "failed-send"} : WithMail(k, s) \in CheckCoroutine
<1>1. ASSUME NEW code \in {200, 202, 500} PROVE WithReply(k, code) \in CheckCoroutine
  <2>1. WithReply(k, code).pc = "done"
    BY DEF WithReply, CheckCoroutine
  <2>2. QED
    BY <2>1, ZenonT(40) DEF WithReply, CheckCoroutine
<1>2. ASSUME NEW rows \in SUBSET TrustedRow PROVE WithRows(k, rows) \in CheckCoroutine
  BY ZenonT(40) DEF WithRows, CheckCoroutine
<1>3. ASSUME NEW o \in Otps PROVE WithOtp(k, o) \in CheckCoroutine
  BY ZenonT(40) DEF WithOtp, CheckCoroutine, TypeOK
<1>4. ASSUME NEW s \in {"sent", "failed-send"} PROVE WithMail(k, s) \in CheckCoroutine
  BY ZenonT(40) DEF WithMail, CheckCoroutine
<1>5. QED
  BY <1>1, <1>2, <1>3, <1>4

(* What each step of a verification does to the state of its coroutine. *)
LEMMA VerifySteps ==
    ASSUME TypeOK, NEW k \in VerifyCoroutine
    PROVE  /\ \A code \in {200, 401, 500} : WithReply(k, code) \in VerifyCoroutine
           /\ \A pc \in {"resume", "cache"} : WithPc(k, pc) \in VerifyCoroutine
           /\ WithTrust(k) \in VerifyCoroutine
           /\ WithCache(k) \in VerifyCoroutine
<1>0. now + TRUST_EXPIRE \in Nat
  BY ClockAssumption DEF ClockAssumption, TypeOK
<1>1. ASSUME NEW code \in {200, 401, 500} PROVE WithReply(k, code) \in VerifyCoroutine
  <2>1. /\ WithReply(k, code).pc = "done"
        /\ WithReply(k, code).reply = code
    BY DEF WithReply, VerifyCoroutine
  <2>2. QED
    BY <2>1, ZenonT(40) DEF WithReply, VerifyCoroutine
<1>2. WithTrust(k) \in VerifyCoroutine
  BY <1>0, ZenonT(40) DEF WithTrust, VerifyCoroutine
<1>3. WithCache(k) \in VerifyCoroutine
  BY <1>0, ZenonT(40) DEF WithCache, VerifyCoroutine
<1>4. ASSUME NEW pc \in {"resume", "cache"} PROVE WithPc(k, pc) \in VerifyCoroutine
  BY DEF WithPc, VerifyCoroutine
<1>5. QED
  BY <1>1, <1>2, <1>3, <1>4

(* A step of one coroutine keeps the type of all of them. *)
LEMMA CheckUpdate ==
    ASSUME TypeOK, NEW c \in CheckReq, NEW k \in CheckCoroutine,
           chk' = [chk EXCEPT ![c] = k]
    PROVE  chk' \in [CheckReq -> CheckCoroutine \cup {CheckIdle}]
BY DEF TypeOK

LEMMA VerifyUpdate ==
    ASSUME TypeOK, NEW v \in VerifyReq, NEW k \in VerifyCoroutine,
           vrf' = [vrf EXCEPT ![v] = k]
    PROVE  vrf' \in [VerifyReq -> VerifyCoroutine \cup {VerifyIdle}]
BY DEF TypeOK

LEMMA CheckTypeOK ==
    ASSUME TypeOK, NEW c \in CheckReq, CheckNext(c)
    PROVE  TypeOK'
<1>1. ASSUME NEW u \in Users, NEW d \in Devices, NEW s \in Scores,
             CheckArrive(c, u, d, s)
      PROVE  TypeOK'
  <2>1. NewCheck(u, d, s) \in CheckCoroutine
    BY ScoreAssumption DEF ScoreAssumption, NewCheck, CheckCoroutine, NoReply, TypeOK
  <2>2. WithReply(NewCheck(u, d, s), 200) \in CheckCoroutine
    BY <2>1, CheckSteps
  <2>3. chk' \in [CheckReq -> CheckCoroutine \cup {CheckIdle}]
    BY <1>1, <2>1, <2>2, CheckUpdate DEF CheckArrive
  <2>4. QED
    BY <1>1, <2>3 DEF CheckArrive, CheckStep, TypeOK
<1>2. CASE CheckQuery(c)
  <2>1. WithRows(chk[c], LiveRows(chk[c].user, chk[c].device, chk[c].at)) \in CheckCoroutine
    <3>1. LiveRows(chk[c].user, chk[c].device, chk[c].at) \in SUBSET TrustedRow
      BY LiveRowsFacts DEF TypeOK
    <3>2. chk[c] \in CheckCoroutine
      BY <1>2, StartedCheck DEF CheckQuery
    <3>3. QED
      BY <3>1, <3>2, CheckSteps
  <2>2. chk' \in [CheckReq -> CheckCoroutine \cup {CheckIdle}]
    BY <1>2, <2>1, CheckUpdate DEF CheckQuery
  <2>3. QED
    BY <1>2, <2>2 DEF CheckQuery, TypeOK
<1>3. ASSUME chk[c].pc # "idle", NEW code \in {200, 202, 500}, CheckReplies(c, code)
      PROVE  chk' \in [CheckReq -> CheckCoroutine \cup {CheckIdle}]
  <2>1. WithReply(chk[c], code) \in CheckCoroutine
    BY <1>3, StartedCheck, CheckSteps
  <2>2. chk' = [chk EXCEPT ![c] = WithReply(chk[c], code)]
    BY <1>3 DEF CheckReplies
  <2>3. QED
    BY <2>1, <2>2 DEF TypeOK
<1>4. CASE CheckAmbiguous(c) \/ CheckLowRisk(c) \/ CheckDbFails(c)
  <2>1. chk' \in [CheckReq -> CheckCoroutine \cup {CheckIdle}]
    BY <1>3, <1>4 DEF CheckAmbiguous, CheckLowRisk, CheckDbFails
  <2>2. QED
    BY <1>4, <2>1 DEF CheckAmbiguous, CheckLowRisk, CheckDbFails, TypeOK
<1>5. CASE CheckTrusted(c)
  <2>1. chk' \in [CheckReq -> CheckCoroutine \cup {CheckIdle}]
    BY <1>3, <1>5 DEF CheckTrusted
  <2>2. PICK r \in chk[c].rows :
            \/ /\ r.expires >= now + Second
               /\ trustCache' = [trustCache EXCEPT
                      ![<<chk[c].user, chk[c].device>>] = RecachedUntil(r)]
            \/ trustCache' = trustCache
    BY <1>5 DEF CheckTrusted
  <2>3. r.expires \in Nat
    BY <1>5, StartedCheck DEF CheckTrusted, CheckCoroutine, TrustedRow
  <2>4. ASSUME r.expires >= now + Second PROVE RecachedUntil(r) \in Nat
    <3>1. r.expires - now \in Nat
      BY <2>3, <2>4, ClockAssumption DEF TypeOK, ClockAssumption
    <3>2. QED
      BY <3>1, WholeSecondsFacts DEF RecachedUntil, TypeOK
  <2>5. trustCache' \in [Users \X Devices -> Nat]
    BY <2>2, <2>4 DEF TypeOK
  <2>6. QED
    BY <1>5, <2>1, <2>5 DEF CheckTrusted, TypeOK
<1>6. CASE CheckChallenge(c)
  <2>1. PICK o \in Otps :
            /\ otpCache' = [otpCache EXCEPT ![EmailOf[chk[c].user]] = NewEntry(c, o)]
            /\ chk' = [chk EXCEPT ![c] = WithOtp(@, o)]
    BY <1>6 DEF CheckChallenge
  <2>2. chk[c] \in CheckCoroutine
    BY <1>6, StartedCheck DEF CheckChallenge
  <2>3. NewEntry(c, o) \in OtpEntry
    BY <2>2, ClockAssumption
    DEF ClockAssumption, NewEntry, OtpEntry, CheckCoroutine, TypeOK
  <2>4. otpCache' \in [Emails -> OtpEntry \cup {None}]
    BY <2>1, <2>3 DEF TypeOK
  <2>5. chk' \in [CheckReq -> CheckCoroutine \cup {CheckIdle}]
    BY <2>1, <2>2, CheckSteps, CheckUpdate
  <2>6. QED
    BY <1>6, <2>4, <2>5 DEF CheckChallenge, TypeOK
<1>7. CASE CheckMail(c)
  <2>1. chk' \in [CheckReq -> CheckCoroutine \cup {CheckIdle}]
    BY <1>7, StartedCheck, CheckSteps, CheckUpdate DEF CheckMail
  <2>2. QED
    BY <1>7, <2>1 DEF CheckMail, TypeOK
<1>8. CASE CheckLog(c)
  <2>1. chk[c] \in CheckCoroutine
    BY <1>8, StartedCheck DEF CheckLog
  <2>2. chk' \in [CheckReq -> CheckCoroutine \cup {CheckIdle}]
    BY <1>3, <1>8 DEF CheckLog
  <2>3. EmailOf[chk[c].user] \in Emails
    BY <2>1, UserAssumption DEF UserAssumption, CheckCoroutine
  <2>4. otpLogs' \subseteq OtpLogRow
    <3>1. chk[c].status \in {"sent", "failed-send"}
      BY <1>8, <2>1 DEF CheckLog, CheckCoroutine
    <3>2. [by |-> c, event |-> c, status |-> chk[c].status,
           email |-> EmailOf[chk[c].user]] \in OtpLogRow
      BY <2>3, <3>1 DEF OtpLogRow
    <3>3. QED
      BY <1>8, <3>2 DEF CheckLog, TypeOK
  <2>5. QED
    BY <1>8, <2>2, <2>4 DEF CheckLog, TypeOK
<1>9. QED
  BY <1>1, <1>2, <1>4, <1>5, <1>6, <1>7, <1>8 DEF CheckNext, CheckStep

LEMMA VerifyTypeOK ==
    ASSUME TypeOK, NEW v \in VerifyReq, VerifyNext(v)
    PROVE  TypeOK'
<1>1. ASSUME NEW u \in Users, NEW d \in Devices, NEW e \in CheckReq, NEW o \in Otps,
             VerifyArrive(v, u, d, e, o)
      PROVE  TypeOK'
  <2>1. EmailOf[u] \in Emails
    BY UserAssumption DEF UserAssumption
  <2>2. NewVerify(u, d, e, o) \in VerifyCoroutine
    BY <2>1 DEF NewVerify, VerifyCoroutine, NoReply, TypeOK
  <2>3. vrf' \in [VerifyReq -> VerifyCoroutine \cup {VerifyIdle}]
    BY <1>1, <2>2, VerifyUpdate, ZenonT(40) DEF VerifyArrive, VerifyReceived
  <2>4. QED
    BY <1>1, <2>3 DEF VerifyArrive, VerifyReceived, VerifyStep, TypeOK
<1>2. ASSUME vrf[v].pc # "idle"
      PROVE  /\ vrf[v] \in VerifyCoroutine
             /\ EmailOf[vrf[v].user] \in Emails
             /\ OtpsWithout(EmailOf[vrf[v].user]) \in [Emails -> OtpEntry \cup {None}]
             /\ \A ok \in BOOLEAN : CompletedWith(v, ok) \subseteq Completion
  <2>1. vrf[v] \in VerifyCoroutine
    BY <1>2, StartedVerify
  <2>2. EmailOf[vrf[v].user] \in Emails
    BY <2>1, UserAssumption DEF UserAssumption, VerifyCoroutine
  <2>3. OtpsWithout(EmailOf[vrf[v].user]) \in [Emails -> OtpEntry \cup {None}]
    BY <2>2 DEF OtpsWithout, TypeOK
  <2>4. vrf[v].event \in CheckReq
    BY <2>1 DEF VerifyCoroutine
  <2>5. ASSUME NEW ok \in BOOLEAN PROVE CompletedWith(v, ok) \subseteq Completion
    BY <2>4 DEF CompletedWith, Completion, TypeOK
  <2>6. QED
    BY <2>1, <2>2, <2>3, <2>5
<1>3. ASSUME vrf[v].pc # "idle", NEW code \in {200, 401, 500}, VerifyReplies(v, code)
      PROVE  vrf' \in [VerifyReq -> VerifyCoroutine \cup {VerifyIdle}]
  <2>1. WithReply(vrf[v], code) \in VerifyCoroutine
    BY <1>3, StartedVerify, VerifySteps
  <2>2. vrf' = [vrf EXCEPT ![v] = WithReply(vrf[v], code)]
    BY <1>3 DEF VerifyReplies
  <2>3. QED
    BY <2>1, <2>2 DEF TypeOK
<1>4. CASE VerifyLog(v)
  <2>1. OtpStatus(vrf[v].stored, vrf[v].otp) \in {"not found", "invalid", "verified"}
    BY DEF OtpStatus
  <2>2. [by |-> v, event |-> vrf[v].event, email |-> EmailOf[vrf[v].user],
         status |-> OtpStatus(vrf[v].stored, vrf[v].otp)] \in OtpLogRow
    BY <1>2, <1>4, <2>1 DEF VerifyLog, OtpLogRow, VerifyCoroutine
  <2>4. vrf' \in [VerifyReq -> VerifyCoroutine \cup {VerifyIdle}]
    BY <1>2, <1>4, VerifySteps, VerifyUpdate DEF VerifyLog
  <2>5. QED
    BY <1>4, <2>2, <2>4 DEF VerifyLog, TypeOK
<1>5. CASE VerifyUnbound(v) \/ VerifyPublishFails(v)
  <2>1. vrf[v].pc # "idle"
    BY <1>5 DEF VerifyUnbound, VerifyPublishFails
  <2>2. vrf' \in [VerifyReq -> VerifyCoroutine \cup {VerifyIdle}]
    BY <1>3, <1>5, <2>1 DEF VerifyUnbound, VerifyPublishFails
  <2>3. QED
    BY <1>2, <1>5, <2>1, <2>2 DEF VerifyUnbound, VerifyPublishFails, TypeOK
<1>6. CASE VerifyRefuse(v)
  <2>1. vrf' \in [VerifyReq -> VerifyCoroutine \cup {VerifyIdle}]
    BY <1>3, <1>6 DEF VerifyRefuse
  <2>2. QED
    BY <1>2, <1>6, <2>1 DEF VerifyRefuse, TypeOK
<1>7. CASE VerifyAccept(v)
  <2>1. vrf' \in [VerifyReq -> VerifyCoroutine \cup {VerifyIdle}]
    BY <1>2, <1>7, VerifySteps, VerifyUpdate DEF VerifyAccept
  <2>2. QED
    BY <1>2, <1>7, <2>1 DEF VerifyAccept, TypeOK
<1>8. CASE VerifyTrust(v)
  <2>1. vrf' \in [VerifyReq -> VerifyCoroutine \cup {VerifyIdle}]
    BY <1>2, <1>8, VerifySteps, VerifyUpdate DEF VerifyTrust
  <2>2. trusted' \subseteq TrustedRow
    BY <1>2, <1>8 DEF VerifyTrust, VerifyCoroutine, TrustedRow, TypeOK
  <2>3. QED
    BY <1>8, <2>1, <2>2 DEF VerifyTrust, TypeOK
<1>9. CASE VerifyCache(v)
  <2>1. vrf' \in [VerifyReq -> VerifyCoroutine \cup {VerifyIdle}]
    BY <1>2, <1>9, VerifySteps, VerifyUpdate DEF VerifyCache
  <2>2. now + TRUST_EXPIRE \in Nat
    BY ClockAssumption DEF ClockAssumption, TypeOK
  <2>3. trustCache' \in [Users \X Devices -> Nat]
    BY <1>9, <2>2 DEF VerifyCache, TypeOK
  <2>4. QED
    BY <1>9, <2>1, <2>3 DEF VerifyCache, TypeOK
<1>10. CASE VerifyDbFails(v)
  <2>1. vrf' \in [VerifyReq -> VerifyCoroutine \cup {VerifyIdle}]
    BY <1>3, <1>10 DEF VerifyDbFails
  <2>2. QED
    BY <1>10, <2>1 DEF VerifyDbFails, TypeOK
<1>11. QED
  BY <1>1, <1>4, <1>5, <1>6, <1>7, <1>8, <1>9, <1>10 DEF VerifyNext, VerifyStep

(* No step of the handler breaks a type. *)
LEMMA NextTypeOK ==
    ASSUME TypeOK, [Next]_vars
    PROVE  TypeOK'
<1>1. CASE \E c \in CheckReq : CheckNext(c)
  BY <1>1, CheckTypeOK
<1>2. CASE \E v \in VerifyReq : VerifyNext(v)
  BY <1>2, VerifyTypeOK
<1>3. CASE PurgeMatch
  BY <1>3 DEF PurgeMatch, TypeOK
<1>4. CASE PurgeCommit
  BY <1>4 DEF PurgeCommit, TypeOK
<1>5. CASE PurgeFails
  BY <1>5 DEF PurgeFails, TypeOK
<1>6. CASE Tick
  <2>1. otpCache' \in [Emails -> OtpEntry \cup {None}]
    BY <1>6 DEF Tick, TypeOK
  <2>2. trustCache' \in [Users \X Devices -> Nat]
    BY <1>6 DEF Tick, TypeOK
  <2>3. QED
    BY <1>6, <2>1, <2>2 DEF Tick, TypeOK
<1>7. CASE UNCHANGED vars
  BY <1>7 DEF vars, TypeOK
<1>8. QED
  BY <1>1, <1>2, <1>3, <1>4, <1>5, <1>6, <1>7 DEF Next

(* Every variable keeps its shape (TypeOK), whatever the requests, the       *)
(* purges and the clock do.                                                  *)
THEOREM TypeCorrect == Spec => []TypeOK
<1>1. Init => TypeOK
  BY DEF Init, TypeOK
<1>2. TypeOK /\ [Next]_vars => TypeOK'
  BY NextTypeOK
<1>3. QED
  BY <1>1, <1>2, PTL DEF Spec

(* The fields each step of a coroutine writes and those it leaves alone. *)
LEMMA CheckFields ==
    ASSUME NEW k \in CheckCoroutine, NEW code, NEW rows, NEW o, NEW s
    PROVE  /\ /\ WithReply(k, code).pc = "done"
              /\ WithReply(k, code).reply = code
              /\ WithReply(k, code).user = k.user
              /\ WithReply(k, code).device = k.device
              /\ WithReply(k, code).score = k.score
              /\ WithReply(k, code).at = k.at
              /\ WithReply(k, code).rows = k.rows
              /\ WithReply(k, code).otp = k.otp
              /\ WithReply(k, code).issued = k.issued
           /\ /\ WithRows(k, rows).pc = "result"
              /\ WithRows(k, rows).reply = k.reply
              /\ WithRows(k, rows).user = k.user
              /\ WithRows(k, rows).device = k.device
              /\ WithRows(k, rows).score = k.score
              /\ WithRows(k, rows).at = k.at
              /\ WithRows(k, rows).rows = rows
              /\ WithRows(k, rows).issued = k.issued
           /\ /\ WithOtp(k, o).pc = "mail"
              /\ WithOtp(k, o).reply = k.reply
              /\ WithOtp(k, o).user = k.user
              /\ WithOtp(k, o).device = k.device
              /\ WithOtp(k, o).score = k.score
              /\ WithOtp(k, o).at = k.at
              /\ WithOtp(k, o).rows = k.rows
              /\ WithOtp(k, o).otp = o
              /\ WithOtp(k, o).issued = now
           /\ /\ WithMail(k, s).pc = "log"
              /\ WithMail(k, s).reply = k.reply
              /\ WithMail(k, s).user = k.user
              /\ WithMail(k, s).device = k.device
              /\ WithMail(k, s).score = k.score
              /\ WithMail(k, s).at = k.at
              /\ WithMail(k, s).rows = k.rows
              /\ WithMail(k, s).otp = k.otp
              /\ WithMail(k, s).issued = k.issued
<1>1. QED
  BY DEF CheckCoroutine, WithReply, WithRows, WithOtp, WithMail

LEMMA VerifyFields ==
    ASSUME NEW k \in VerifyCoroutine, NEW code, NEW pc
    PROVE  /\ /\ WithPc(k, pc).pc = pc
              /\ WithPc(k, pc).reply = k.reply
              /\ WithPc(k, pc).user = k.user
              /\ WithPc(k, pc).device = k.device
              /\ WithPc(k, pc).otp = k.otp
              /\ WithPc(k, pc).stored = k.stored
              /\ WithPc(k, pc).at = k.at
              /\ WithPc(k, pc).until = k.until
           /\ /\ WithReply(k, code).pc = "done"
              /\ WithReply(k, code).reply = code
              /\ WithReply(k, code).user = k.user
              /\ WithReply(k, code).device = k.device
              /\ WithReply(k, code).otp = k.otp
              /\ WithReply(k, code).stored = k.stored
              /\ WithReply(k, code).at = k.at
              /\ WithReply(k, code).until = k.until
           /\ /\ WithTrust(k).pc = "trust"
              /\ WithTrust(k).reply = k.reply
              /\ WithTrust(k).user = k.user
              /\ WithTrust(k).device = k.device
              /\ WithTrust(k).otp = k.otp
              /\ WithTrust(k).stored = k.stored
              /\ WithTrust(k).at = k.at
              /\ WithTrust(k).until = now + TRUST_EXPIRE
           /\ /\ WithCache(k).pc = "done"
              /\ WithCache(k).reply = 200
              /\ WithCache(k).user = k.user
              /\ WithCache(k).device = k.device
              /\ WithCache(k).otp = k.otp
              /\ WithCache(k).stored = k.stored
              /\ WithCache(k).at = k.at
              /\ WithCache(k).until = now + TRUST_EXPIRE
<1>1. QED
  BY DEF VerifyCoroutine, WithPc, WithReply, WithTrust, WithCache

(* Only the coroutine of c moves in a step of check c. *)
LEMMA CheckOthers ==
    ASSUME TypeOK, NEW c \in CheckReq, CheckNext(c)
    PROVE  /\ vrf' = vrf /\ now' = now
           /\ trusted' = trusted /\ completed' = completed
           /\ \A b \in CheckReq : b # c => chk'[b] = chk[b]
           /\ otpCache' = otpCache \/ CheckChallenge(c)
           /\ trustCache' = trustCache \/ CheckTrusted(c)
BY DEF CheckNext, CheckArrive, CheckStep, CheckQuery, CheckAmbiguous, CheckTrusted,
       CheckLowRisk, CheckChallenge, CheckMail, CheckLog, CheckDbFails,
       CheckReplies, TypeOK

(* The steps of check c, as seen by its coroutine. *)
LEMMA CheckOwn ==
    ASSUME TypeOK, NEW c \in CheckReq, CheckNext(c)
    PROVE  \/ /\ chk[c].pc = "idle"
              /\ \E u \in Users, d \in Devices, s \in Scores :
                    \/ chk'[c] = NewCheck(u, d, s)
                    \/ /\ chk'[c] = WithReply(NewCheck(u, d, s), 200)
                       /\ trustCache[<<u, d>>] > now
           \/ /\ chk[c].pc = "query"
              /\ chk'[c] = WithRows(chk[c],
                              LiveRows(chk[c].user, chk[c].device, chk[c].at))
           \/ /\ CheckChallenge(c)
              /\ \E o \in Otps : chk'[c] = WithOtp(chk[c], o)
           \/ /\ chk[c].pc = "mail"
              /\ \E s \in {"sent", "failed-send"} : chk'[c] = WithMail(chk[c], s)
           \/ /\ chk[c].pc \in {"query", "result", "log"}
              /\ \E code \in {202, 500} : chk'[c] = WithReply(chk[c], code)
           \/ /\ chk[c].pc = "result"
              /\ chk'[c] = WithReply(chk[c], 200)
              /\ chk[c].rows # {} \/ chk[c].score < RISK_THRESHOLD
<1>0. DOMAIN chk = CheckReq
  BY DEF TypeOK
<1>1. ASSUME NEW code, CheckReplies(c, code)
      PROVE  chk'[c] = WithReply(chk[c], code)
  BY <1>0, <1>1 DEF CheckReplies, TypeOK
<1>2. CASE \E u \in Users, d \in Devices, s \in Scores : CheckArrive(c, u, d, s)
  BY <1>2, SMTT(30) DEF CheckArrive, CheckStep, TypeOK
<1>3. CASE CheckQuery(c)
  BY <1>3 DEF CheckQuery, TypeOK
<1>4. CASE CheckAmbiguous(c)
  BY <1>1, <1>4 DEF CheckAmbiguous
<1>5. CASE CheckTrusted(c)
  BY <1>1, <1>5 DEF CheckTrusted
<1>6. CASE CheckLowRisk(c)
  BY <1>1, <1>6 DEF CheckLowRisk
<1>7. CASE CheckChallenge(c)
  BY <1>7 DEF CheckChallenge, TypeOK
<1>8. CASE CheckMail(c)
  <2>1. PICK s \in {"sent", "failed-send"} : chk' = [chk EXCEPT ![c] = WithMail(@, s)]
    BY <1>8 DEF CheckMail
  <2>2. chk'[c] = WithMail(chk[c], s) /\ chk[c].pc = "mail"
    BY <1>8, <2>1 DEF CheckMail, TypeOK
  <2>3. QED
    BY <2>2
<1>9. CASE CheckLog(c)
  BY <1>1, <1>9 DEF CheckLog
<1>10. CASE CheckDbFails(c)
  BY <1>1, <1>10 DEF CheckDbFails
<1>11. QED
  BY <1>2, <1>3, <1>4, <1>5, <1>6, <1>7, <1>8, <1>9, <1>10 DEF CheckNext, CheckStep

(* Only the coroutine of v moves in a step of verification v, and a key is   *)
(* only ever deleted.                                                        *)
LEMMA VerifyOthers ==
    ASSUME TypeOK, NEW v \in VerifyReq, VerifyNext(v)
    PROVE  /\ chk' = chk /\ now' = now
           /\ \A w \in VerifyReq : w # v => vrf'[w] = vrf[w]
           /\ \A e \in Emails : otpCache'[e] = otpCache[e] \/ otpCache'[e] = None
BY ZenonT(40) DEF VerifyNext, VerifyArrive, VerifyReceived, VerifyStep, VerifyLog, VerifyUnbound, VerifyRefuse,
       VerifyAccept, VerifyPublishFails, VerifyTrust, VerifyCache,
       VerifyDbFails, VerifyReplies, OtpsWithout, TypeOK

(* The steps of verification v, as seen by its coroutine. *)
LEMMA VerifyOwn ==
    ASSUME TypeOK, NEW v \in VerifyReq, VerifyNext(v)
    PROVE  \/ /\ vrf[v].pc = "idle"
              /\ \E u \in Users, d \in Devices, e \in CheckReq, o \in Otps :
                    VerifyArrive(v, u, d, e, o) /\ vrf'[v] = NewVerify(u, d, e, o)
           \/ /\ vrf[v].pc = "log"
              /\ vrf'[v] = WithPc(vrf[v], "resume")
           \/ /\ vrf[v].pc = "resume"
              /\ vrf[v].stored = None
              /\ vrf'[v] = WithReply(vrf[v], 500)
           \/ /\ VerifyRefuse(v)
              /\ vrf'[v] = WithReply(vrf[v], 401)
           \/ /\ VerifyAccept(v)
              /\ vrf'[v] = WithTrust(vrf[v])
           \/ /\ VerifyPublishFails(v)
              /\ vrf'[v] = WithReply(vrf[v], 500)
           \/ /\ VerifyTrust(v)
              /\ vrf'[v] = WithPc(vrf[v], "cache")
           \/ /\ VerifyCache(v)
              /\ vrf'[v] = WithCache(vrf[v])
           \/ /\ vrf[v].pc \in {"log", "trust"}
              /\ vrf'[v] = WithReply(vrf[v], 500)
<1>1. ASSUME NEW code, VerifyReplies(v, code)
      PROVE  vrf'[v] = WithReply(vrf[v], code)
  BY <1>1 DEF VerifyReplies, TypeOK
<1>2. CASE \E u \in Users, d \in Devices, e \in CheckReq, o \in Otps :
              VerifyArrive(v, u, d, e, o)
  <2>1. PICK u \in Users, d \in Devices, e \in CheckReq, o \in Otps :
            VerifyArrive(v, u, d, e, o)
    BY <1>2
  <2>2. vrf[v].pc = "idle" /\ vrf'[v] = NewVerify(u, d, e, o)
    BY <2>1 DEF VerifyArrive, VerifyReceived, VerifyStep, TypeOK
  <2>3. QED
    BY <2>1, <2>2
<1>3. CASE VerifyLog(v)
  BY <1>3 DEF VerifyLog, TypeOK
<1>4. CASE VerifyUnbound(v)
  BY <1>1, <1>4 DEF VerifyUnbound
<1>5. CASE VerifyRefuse(v)
  BY <1>1, <1>5 DEF VerifyRefuse
<1>6. CASE VerifyAccept(v)
  BY <1>6 DEF VerifyAccept, TypeOK
<1>7. CASE VerifyPublishFails(v)
  BY <1>1, <1>7 DEF VerifyPublishFails
<1>8. CASE VerifyTrust(v)
  BY <1>8 DEF VerifyTrust, TypeOK
<1>9. CASE VerifyCache(v)
  BY <1>9 DEF VerifyCache, TypeOK
<1>10. CASE VerifyDbFails(v)
  BY <1>1, <1>10 DEF VerifyDbFails
<1>11. QED
  BY <1>2, <1>3, <1>4, <1>5, <1>6, <1>7, <1>8, <1>9, <1>10 DEF VerifyNext, VerifyStep

(* What a verification that runs did with its request never changes; only a  *)
(* new arrival reads Redis.                                                  *)
LEMMA VerifyKeeps ==
    ASSUME TypeOK, NEW v \in VerifyReq, VerifyNext(v), vrf[v].pc # "idle"
    PROVE  /\ vrf'[v].pc # "idle"
           /\ vrf'[v].user = vrf[v].user
           /\ vrf'[v].device = vrf[v].device
           /\ vrf'[v].otp = vrf[v].otp
           /\ vrf'[v].stored = vrf[v].stored
           /\ vrf'[v].at = vrf[v].at
<1>1. vrf[v] \in VerifyCoroutine
  BY StartedVerify
<1>2. \/ \E code : vrf'[v] = WithReply(vrf[v], code)
      \/ \E pc \in {"resume", "cache"} : vrf'[v] = WithPc(vrf[v], pc)
      \/ vrf'[v] = WithTrust(vrf[v])
      \/ vrf'[v] = WithCache(vrf[v])
  BY VerifyOwn
<1>3. QED
  BY <1>1, <1>2, VerifyFields

(* A request that has just arrived: what it holds and what it has not done.  *)
LEMMA NewVerifyFields ==
    ASSUME NEW u, NEW d, NEW e, NEW o
    PROVE  /\ NewVerify(u, d, e, o).pc = "log"
           /\ NewVerify(u, d, e, o).user = u
           /\ NewVerify(u, d, e, o).stored = otpCache[EmailOf[u]]
           /\ NewVerify(u, d, e, o).at = now
           /\ NewVerify(u, d, e, o).until = 0
           /\ NewVerify(u, d, e, o).reply = NoReply
BY DEF NewVerify

LEMMA VerifyArrives ==
    ASSUME TypeOK, NEW v \in VerifyReq, VerifyNext(v), vrf[v].pc = "idle"
    PROVE  \E u \in Users, d \in Devices, e \in CheckReq, o \in Otps :
              vrf'[v] = NewVerify(u, d, e, o)
BY VerifyOwn, ZenonT(40) DEF VerifyRefuse, VerifyAccept, VerifyPublishFails, VerifyTrust, VerifyCache
===============================================================================
