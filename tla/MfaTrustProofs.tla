---------------------------- MODULE MfaTrustProofs ----------------------------
(* Trust: who skips the one-time password was verified, and for how long.    *)
EXTENDS MfaOtpProofs

(* A verification that vouches for a device goes on doing so.                *)
LEMMA VouchesStable ==
    ASSUME TypeOK, TrustTimes, NEW v \in VerifyReq, VerifyNext(v),
           NEW w \in VerifyReq, NEW u, NEW d, NEW t \in Nat, Vouches(vrf[w], u, d, t)
    PROVE  Vouches(vrf'[w], u, d, t)
<1>1. CASE w # v
  BY <1>1, VerifyOthers
<1>2. CASE w = v
  <2>1. vrf[v].pc \in {"cache", "done"}
    BY <1>2 DEF Vouches, TrustTimes
  <2>0. VerifyCache(v)
    BY <2>1 DEF VerifyNext, VerifyArrive, VerifyReceived, VerifyStep, VerifyLog, VerifyUnbound, VerifyRefuse,
                VerifyAccept, VerifyPublishFails, VerifyTrust, VerifyDbFails
  <2>2. vrf'[v] = WithCache(vrf[v]) /\ vrf[v].pc = "cache"
    BY <2>0 DEF VerifyCache, TypeOK
  <2>3. vrf[v] \in VerifyCoroutine /\ vrf[v].until <= now + TRUST_EXPIRE
    BY <2>2, StartedVerify DEF TrustTimes
  <2>4. /\ t \in Nat /\ vrf[v].until \in Nat /\ now + TRUST_EXPIRE \in Nat
        /\ t <= vrf[v].until
    BY <1>2, <2>3, ClockAssumption DEF Vouches, VerifyCoroutine, ClockAssumption, TypeOK
  <2>5. t <= now + TRUST_EXPIRE
    BY <2>3, <2>4
  <2>6. QED
    BY <1>2, <2>2, <2>3, <2>5, VerifyFields DEF Vouches
<1>3. QED
  BY <1>1, <1>2

(* Trust under a step of a check.                                            *)
LEMMA TrustInvCheck ==
    ASSUME TypeOK, TypeOK', TrustInv, NEW c \in CheckReq, CheckNext(c)
    PROVE  TrustInv'
<1>1. TrustTimes' /\ RowsVouched' /\ AcceptedCompleted'
  BY CheckOthers DEF TrustInv, TrustTimes, RowsVouched, AcceptedCompleted, Accepted
<1>2. ASSUME NEW u \in Users, NEW d \in Devices, NEW s \in Scores
      PROVE  /\ NewCheck(u, d, s) \in CheckCoroutine
             /\ NewCheck(u, d, s).rows = {} /\ NewCheck(u, d, s).reply = NoReply
             /\ NewCheck(u, d, s).user = u /\ NewCheck(u, d, s).device = d
             /\ NewCheck(u, d, s).at = now
  BY ScoreAssumption DEF ScoreAssumption, NewCheck, CheckCoroutine, NoReply, TypeOK
<1>3. ReadRowsVouched'
  <2> SUFFICES ASSUME NEW b \in CheckReq, NEW r \in chk'[b].rows
               PROVE  /\ r.user = chk'[b].user
                      /\ r.device = chk'[b].device
                      /\ r.expires > chk'[b].at
                      /\ Vouches(vrf[r.by], r.user, r.device, r.expires)
    BY CheckOthers DEF ReadRowsVouched
  <2>1. CASE b # c
    BY <2>1, CheckOthers DEF TrustInv, ReadRowsVouched
  <2>2. CASE b = c /\ chk[c].pc = "idle"
    <3>1. PICK u \in Users, d \in Devices, s \in Scores :
             chk'[c] = NewCheck(u, d, s) \/ chk'[c] = WithReply(NewCheck(u, d, s), 200)
      BY <2>2, CheckOwn, ZenonT(40) DEF CheckChallenge
    <3>2. chk'[c].rows = {}
      BY <1>2, <3>1, CheckFields
    <3>3. QED
      BY <2>2, <3>2
  <2>3. CASE b = c /\ chk[c].pc # "idle"
    <3>1. chk[c] \in CheckCoroutine
      BY <2>3, StartedCheck
    <3>2. CASE chk'[c] = WithRows(chk[c], LiveRows(chk[c].user, chk[c].device, chk[c].at))
      BY <2>3, <3>1, <3>2, LiveRowsFacts, CheckFields DEF TrustInv, RowsVouched
    <3>3. CASE \/ \E o \in Otps : chk'[c] = WithOtp(chk[c], o)
               \/ \E s \in {"sent", "failed-send"} : chk'[c] = WithMail(chk[c], s)
               \/ \E code \in {200, 202, 500} : chk'[c] = WithReply(chk[c], code)
      <4>1. /\ chk'[c].rows = chk[c].rows /\ chk'[c].user = chk[c].user
            /\ chk'[c].device = chk[c].device /\ chk'[c].at = chk[c].at
        BY <3>1, <3>3, CheckFields
      <4>2. QED
        BY <2>3, <4>1 DEF TrustInv, ReadRowsVouched
    <3>4. QED
      BY <2>3, <3>2, <3>3, CheckOwn
  <2>4. QED
    BY <2>1, <2>2, <2>3
<1>4. KeysVouched'
  <2>1. CASE trustCache' = trustCache
    BY <2>1, CheckOthers DEF TrustInv, KeysVouched
  <2>2. CASE CheckTrusted(c)
    <3> DEFINE key == <<chk[c].user, chk[c].device>>
    <3>1. chk[c] \in CheckCoroutine
      BY <2>2, StartedCheck DEF CheckTrusted
    <3>2. PICK r \in chk[c].rows :
              \/ /\ r.expires >= now + Second
                 /\ trustCache' = [trustCache EXCEPT ![key] = RecachedUntil(r)]
              \/ trustCache' = trustCache
      BY <2>2 DEF CheckTrusted
    <3>3. r \in TrustedRow /\ r.expires \in Nat /\ r.by \in VerifyReq
      BY <3>1 DEF CheckCoroutine, TrustedRow
    <3>4. CASE r.expires >= now + Second
               /\ trustCache' = [trustCache EXCEPT ![key] = RecachedUntil(r)]
      <4>1. r.expires - now \in Nat
        BY <3>3, <3>4, ClockAssumption DEF TypeOK, ClockAssumption
      <4>2. RecachedUntil(r) \in Nat /\ RecachedUntil(r) <= r.expires
        BY <3>3, <4>1, WholeSecondsFacts DEF RecachedUntil, TypeOK
      <4>3. Vouches(vrf[r.by], r.user, r.device, r.expires) /\ <<r.user, r.device>> = key
        BY DEF TrustInv, ReadRowsVouched
      <4>4. vrf[r.by].pc # "idle"
        BY <3>3, <4>3 DEF Vouches, TrustInv, TrustTimes
      <4>5. vrf[r.by].until \in Nat
        BY <3>3, <4>4, StartedVerify DEF VerifyCoroutine
      <4>6. Vouches(vrf[r.by], r.user, r.device, RecachedUntil(r))
        BY <3>3, <4>2, <4>3, <4>5 DEF Vouches
      <4>7. ASSUME NEW u \in Users, NEW d \in Devices, trustCache'[<<u, d>>] > 0
            PROVE  \E v \in VerifyReq : Vouches(vrf[v], u, d, trustCache'[<<u, d>>])
        <5>1. CASE <<u, d>> = key
          <6>1. trustCache'[<<u, d>>] = RecachedUntil(r)
            BY <3>4, <5>1 DEF TypeOK
          <6>2. r.user = u /\ r.device = d
            BY <4>3, <5>1
          <6>3. QED
            BY <3>3, <4>6, <6>1, <6>2
        <5>2. CASE <<u, d>> # key
          <6>1. trustCache'[<<u, d>>] = trustCache[<<u, d>>]
            BY <3>4, <5>2 DEF TypeOK
          <6>2. QED
            BY <4>7, <6>1 DEF TrustInv, KeysVouched
        <5>3. QED
          BY <5>1, <5>2
      <4>8. QED
        BY <4>7, CheckOthers DEF KeysVouched
    <3>5. QED
      BY <2>1, <3>2, <3>4
  <2>3. QED
    BY <2>1, <2>2, CheckOthers
<1>5. SkipOnlyWhileTrusted'
  <2> DEFINE Trusts(k, b) == /\ k.pc = "cache" \/ k.reply = 200
                             /\ k.user = b.user /\ k.device = b.device
                             /\ b.at < k.until
  <2> SUFFICES ASSUME NEW b \in CheckReq, chk'[b].reply = 200,
                      chk'[b].score >= RISK_THRESHOLD
               PROVE  \E v \in VerifyReq : Trusts(vrf[v], chk'[b])
    BY CheckOthers DEF SkipOnlyWhileTrusted, Granted
  <2>1. CASE b # c
    BY <2>1, CheckOthers DEF TrustInv, SkipOnlyWhileTrusted, Granted
  <2>2. CASE b = c /\ chk[c].pc = "idle"
    <3>1. PICK u \in Users, d \in Devices, s \in Scores :
             \/ chk'[c] = NewCheck(u, d, s)
             \/ chk'[c] = WithReply(NewCheck(u, d, s), 200) /\ trustCache[<<u, d>>] > now
      BY <2>2, CheckOwn DEF CheckChallenge
    <3>2. /\ trustCache[<<u, d>>] > now
          /\ chk'[c].user = u /\ chk'[c].device = d /\ chk'[c].at = now
      BY <1>2, <2>2, <3>1, CheckFields DEF NoReply
    <3>3. trustCache[<<u, d>>] \in Nat
      BY DEF TypeOK
    <3>4. PICK v \in VerifyReq : Vouches(vrf[v], u, d, trustCache[<<u, d>>])
      BY <3>2, <3>3 DEF TrustInv, KeysVouched, TypeOK
    <3>5. vrf[v].until \in Nat
      BY <3>4, StartedVerify DEF Vouches, TrustInv, TrustTimes, VerifyCoroutine
    <3>6. QED
      BY <2>2, <3>2, <3>3, <3>4, <3>5 DEF Vouches, TypeOK
  <2>3. CASE b = c /\ chk[c].pc # "idle" /\ chk[c].reply = 200
    <3>1. chk[c] \in CheckCoroutine
      BY <2>3, StartedCheck
    <3>2. /\ chk'[c].user = chk[c].user /\ chk'[c].device = chk[c].device
          /\ chk'[c].at = chk[c].at /\ chk'[c].score = chk[c].score
      <4>1. CASE chk'[c] = WithRows(chk[c], LiveRows(chk[c].user, chk[c].device, chk[c].at))
        BY <3>1, <4>1, CheckFields
      <4>2. CASE \/ \E o \in Otps : chk'[c] = WithOtp(chk[c], o)
                 \/ \E s \in {"sent", "failed-send"} : chk'[c] = WithMail(chk[c], s)
                 \/ \E code \in {202, 500} : chk'[c] = WithReply(chk[c], code)
                 \/ chk'[c] = WithReply(chk[c], 200)
        BY <3>1, <4>2, CheckFields
      <4>3. QED
        BY <2>3, <4>1, <4>2, CheckOwn
    <3>3. QED
      BY <2>3, <3>2 DEF TrustInv, SkipOnlyWhileTrusted, Granted
  <2>4. CASE b = c /\ chk[c].pc # "idle" /\ chk[c].reply # 200
    <3>1. chk[c] \in CheckCoroutine
      BY <2>4, StartedCheck
    <3>2. /\ chk'[c] = WithReply(chk[c], 200)
          /\ chk[c].rows # {} \/ chk[c].score < RISK_THRESHOLD
      <4>1. CASE chk'[c] = WithRows(chk[c], LiveRows(chk[c].user, chk[c].device, chk[c].at))
        BY <2>4, <3>1, <4>1, CheckFields, SMTT(30)
      <4>2. CASE \/ \E o \in Otps : chk'[c] = WithOtp(chk[c], o)
                 \/ \E s \in {"sent", "failed-send"} : chk'[c] = WithMail(chk[c], s)
                 \/ \E code \in {202, 500} : chk'[c] = WithReply(chk[c], code)
        BY <2>4, <3>1, <4>2, CheckFields
      <4>3. QED
        BY <2>4, <4>1, <4>2, CheckOwn
    <3>3. /\ chk'[c].user = chk[c].user /\ chk'[c].device = chk[c].device
          /\ chk'[c].at = chk[c].at /\ chk'[c].score = chk[c].score
      <4>1. chk'[c] = WithReply(chk[c], 200)
        BY <3>2
      <4>2. QED
        BY <3>1, <4>1, CheckFields
    <3>4. PICK r \in chk[c].rows : TRUE
      BY <2>4, <3>1, <3>2, <3>3, ScoreAssumption DEF ScoreAssumption, CheckCoroutine
    <3>5. /\ r.user = chk[c].user /\ r.device = chk[c].device /\ r.expires > chk[c].at
          /\ Vouches(vrf[r.by], r.user, r.device, r.expires)
      BY DEF TrustInv, ReadRowsVouched
    <3>6. r.by \in VerifyReq /\ r.expires \in Nat /\ chk[c].at \in Nat
      BY <3>1 DEF CheckCoroutine, TrustedRow
    <3>7. vrf[r.by].until \in Nat
      BY <3>5, <3>6, StartedVerify DEF Vouches, TrustInv, TrustTimes, VerifyCoroutine
    <3>8. Trusts(vrf[r.by], chk'[b])
      BY <2>4, <3>3, <3>5, <3>6, <3>7 DEF Vouches
    <3>9. QED
      BY <3>6, <3>8
  <2>5. QED
    BY <2>1, <2>2, <2>3, <2>4
<1>6. QED
  BY <1>1, <1>3, <1>4, <1>5 DEF TrustInv

(* A table row, a Redis key and a row a check has read stay vouched for in a *)
(* step of a verification.                                                   *)
LEMMA TrustInvVerify ==
    ASSUME TypeOK, TypeOK', TrustInv, NEW v \in VerifyReq, VerifyNext(v)
    PROVE  TrustInv'
<1>1. TrustTimes'
  <2> SUFFICES ASSUME NEW w \in VerifyReq
               PROVE  /\ vrf'[w].pc \in {"trust", "cache"} =>
                            vrf'[w].until <= now + TRUST_EXPIRE
                      /\ vrf'[w].reply = 200 => vrf'[w].pc = "done"
    BY VerifyOthers DEF TrustTimes
  <2>1. CASE w # v
    BY <2>1, VerifyOthers DEF TrustInv, TrustTimes
  <2>2. CASE w = v /\ vrf[v].pc = "idle"
    <3>1. PICK u \in Users, d \in Devices, e \in CheckReq, o \in Otps :
              vrf'[v] = NewVerify(u, d, e, o)
      BY <2>2, VerifyArrives
    <3>2. QED
      BY <2>2, <3>1, NewVerifyFields DEF NoReply
  <2>3. CASE w = v /\ vrf[v].pc # "idle"
    <3>1. vrf[v] \in VerifyCoroutine /\ now + TRUST_EXPIRE \in Nat
      BY <2>3, StartedVerify, ClockAssumption DEF ClockAssumption, TypeOK
    <3>2. CASE \E code : vrf'[v] = WithReply(vrf[v], code)
      BY <2>3, <3>1, <3>2, VerifyFields
    <3>3. CASE vrf[v].pc = "log" /\ vrf'[v] = WithPc(vrf[v], "resume")
      BY <2>3, <3>1, <3>3, VerifyFields DEF TrustInv, TrustTimes
    <3>4. CASE VerifyTrust(v) /\ vrf'[v] = WithPc(vrf[v], "cache")
      BY <2>3, <3>1, <3>4, VerifyFields DEF TrustInv, TrustTimes, VerifyTrust
    <3>5. CASE vrf'[v] = WithCache(vrf[v])
      BY <2>3, <3>1, <3>5, VerifyFields
    <3>6. CASE VerifyAccept(v) /\ vrf'[v] = WithTrust(vrf[v])
      BY <2>3, <3>1, <3>6, VerifyFields DEF TrustInv, TrustTimes, VerifyAccept
    <3>7. QED
      BY <2>3, <3>2, <3>3, <3>4, <3>5, <3>6, VerifyOwn
  <2>4. QED
    BY <2>1, <2>2, <2>3
<1>2. RowsVouched'
  <2> SUFFICES ASSUME NEW r \in trusted'
               PROVE  Vouches(vrf'[r.by], r.user, r.device, r.expires)
    BY DEF RowsVouched, Vouches
  <2>1. r.by \in VerifyReq /\ r.expires \in Nat
    BY DEF TypeOK, TrustedRow
  <2>2. CASE r \in trusted
    BY <2>1, <2>2, VouchesStable DEF TrustInv, RowsVouched
  <2>3. CASE r \notin trusted
    <3>1. VerifyTrust(v)
      BY <2>3 DEF VerifyNext, VerifyArrive, VerifyReceived, VerifyStep, VerifyLog, VerifyUnbound, VerifyRefuse,
                  VerifyAccept, VerifyPublishFails, VerifyCache, VerifyDbFails
    <3>2. /\ r.by = v /\ r.user = vrf[v].user /\ r.device = vrf[v].device
          /\ r.expires = vrf[v].until
      BY <2>3, <3>1 DEF VerifyTrust
    <3>3. vrf'[v] = WithPc(vrf[v], "cache") /\ vrf[v] \in VerifyCoroutine
      BY <3>1, StartedVerify DEF VerifyTrust, TypeOK
    <3>4. QED
      BY <2>1, <3>2, <3>3, VerifyFields DEF Vouches
  <2>4. QED
    BY <2>2, <2>3
<1>3. ReadRowsVouched'
  <2> SUFFICES ASSUME NEW c \in CheckReq, NEW r \in chk[c].rows
               PROVE  /\ r.user = chk[c].user
                      /\ r.device = chk[c].device
                      /\ r.expires > chk[c].at
                      /\ Vouches(vrf'[r.by], r.user, r.device, r.expires)
    BY VerifyOthers DEF ReadRowsVouched, Vouches
  <2>1. r \in TrustedRow
    BY DEF TypeOK, CheckCoroutine, CheckIdle
  <2>2. QED
    BY <2>1, VouchesStable DEF TrustInv, ReadRowsVouched, TrustedRow
<1>4. KeysVouched'
  <2> SUFFICES ASSUME NEW u \in Users, NEW d \in Devices, trustCache'[<<u, d>>] > 0
               PROVE  \E w \in VerifyReq : Vouches(vrf'[w], u, d, trustCache'[<<u, d>>])
    BY DEF KeysVouched, Vouches
  <2>1. CASE trustCache'[<<u, d>>] = trustCache[<<u, d>>]
    <3>1. trustCache[<<u, d>>] \in Nat
      BY DEF TypeOK
    <3>2. PICK w \in VerifyReq : Vouches(vrf[w], u, d, trustCache[<<u, d>>])
      BY <2>1 DEF TrustInv, KeysVouched
    <3>3. QED
      BY <2>1, <3>1, <3>2, VouchesStable DEF TrustInv
  <2>2. CASE trustCache'[<<u, d>>] # trustCache[<<u, d>>]
    <3>1. VerifyCache(v)
      BY <2>2 DEF VerifyNext, VerifyArrive, VerifyReceived, VerifyStep, VerifyLog, VerifyUnbound, VerifyRefuse,
                  VerifyAccept, VerifyPublishFails, VerifyTrust, VerifyDbFails
    <3>2. /\ u = vrf[v].user /\ d = vrf[v].device
          /\ trustCache'[<<u, d>>] = now + TRUST_EXPIRE
      BY <2>2, <3>1 DEF VerifyCache, TypeOK
    <3>3. vrf'[v] = WithCache(vrf[v]) /\ vrf[v] \in VerifyCoroutine
      BY <3>1, StartedVerify DEF VerifyCache, TypeOK
    <3>4. now + TRUST_EXPIRE \in Nat
      BY ClockAssumption DEF ClockAssumption, TypeOK
    <3>5. QED
      BY <3>2, <3>3, <3>4, VerifyFields DEF Vouches
  <2>3. QED
    BY <2>1, <2>2
<1>5. AcceptedCompleted'
  <2> SUFFICES ASSUME NEW w \in VerifyReq, Accepted(w)'
               PROVE  \E m \in completed' : m.by = w /\ m.ok
    BY DEF AcceptedCompleted
  <2>0. completed \subseteq completed'
    BY DEF VerifyNext, VerifyArrive, VerifyReceived, VerifyStep, VerifyLog, VerifyUnbound, VerifyRefuse,
           VerifyAccept, VerifyPublishFails, VerifyTrust, VerifyCache, VerifyDbFails,
           CompletedWith
  <2>1. CASE w # v \/ Accepted(v)
    <3>1. Accepted(w)
      BY <2>1, VerifyOthers DEF Accepted
    <3>2. QED
      BY <2>0, <3>1 DEF TrustInv, AcceptedCompleted
  <2>2. CASE w = v /\ VerifyAccept(v)
    <3> DEFINE published == [by |-> v, event |-> vrf[v].event, ok |-> TRUE]
    <3>1. published \in completed'
      BY <2>2 DEF VerifyAccept, CompletedWith
    <3>2. published.by = w /\ published.ok
      BY <2>2
    <3>3. QED
      BY <3>1, <3>2
  <2>3. CASE w = v /\ ~ Accepted(v) /\ ~ VerifyAccept(v)
    <3>1. CASE vrf[v].pc = "idle"
      <4>1. PICK u \in Users, d \in Devices, e \in CheckReq, o \in Otps :
                vrf'[v] = NewVerify(u, d, e, o)
        BY <3>1, VerifyArrives
      <4>2. QED
        BY <2>3, <4>1, NewVerifyFields DEF Accepted, NoReply
    <3>2. CASE vrf[v].pc # "idle"
      <4>1. vrf[v] \in VerifyCoroutine
        BY <3>2, StartedVerify
      <4>2. \/ vrf'[v] = WithPc(vrf[v], "resume")
            \/ \E code \in {401, 500} : vrf'[v] = WithReply(vrf[v], code)
        BY <2>3, <3>2, VerifyOwn DEF Accepted, VerifyTrust, VerifyCache
      <4>3. QED
        BY <2>3, <4>1, <4>2, VerifyFields DEF Accepted
    <3>3. QED
      BY <3>1, <3>2
  <2>4. QED
    BY <2>1, <2>2, <2>3
<1>6. SkipOnlyWhileTrusted'
  <2> SUFFICES ASSUME NEW c \in CheckReq, chk[c].reply = 200,
                      chk[c].score >= RISK_THRESHOLD
               PROVE  \E w \in VerifyReq :
                         /\ vrf'[w].pc = "cache" \/ vrf'[w].reply = 200
                         /\ vrf'[w].user = chk[c].user
                         /\ vrf'[w].device = chk[c].device
                         /\ chk[c].at < vrf'[w].until
    BY VerifyOthers DEF SkipOnlyWhileTrusted, Granted
  <2>1. PICK w \in VerifyReq :
            /\ vrf[w].pc = "cache" \/ vrf[w].reply = 200
            /\ vrf[w].user = chk[c].user
            /\ vrf[w].device = chk[c].device
            /\ chk[c].at < vrf[w].until
    BY DEF TrustInv, SkipOnlyWhileTrusted, Granted
  <2>2. vrf[w].until \in Nat /\ chk[c].at \in Nat
    <3>1. vrf[w].pc # "idle"
      BY <2>1 DEF TrustInv, TrustTimes
    <3>2. QED
      BY <3>1, StartedVerify DEF VerifyCoroutine, TypeOK, CheckCoroutine, CheckIdle
  <2>3. Vouches(vrf[w], chk[c].user, chk[c].device, vrf[w].until)
    BY <2>1, <2>2 DEF Vouches
  <2>4. Vouches(vrf'[w], chk[c].user, chk[c].device, vrf[w].until)
    BY <2>2, <2>3, VouchesStable DEF TrustInv
  <2>5. vrf'[w].until \in Nat
    BY <2>4, <1>1, StartedVerify DEF Vouches, TrustTimes, TypeOK, VerifyCoroutine, VerifyIdle
  <2>6. QED
    BY <2>1, <2>2, <2>4, <2>5 DEF Vouches
<1>7. QED
  BY <1>1, <1>2, <1>3, <1>4, <1>5, <1>6 DEF TrustInv

(* Trust under the clock, the purges and stuttering: none of them touches a  *)
(* coroutine, and a key or a row can only vanish.                            *)
LEMMA TrustInvOther ==
    ASSUME TypeOK, TypeOK', TrustInv,
           PurgeMatch \/ PurgeCommit \/ PurgeFails \/ Tick \/ UNCHANGED vars
    PROVE  TrustInv'
<1>1. /\ chk' = chk /\ vrf' = vrf /\ completed' = completed
      /\ trusted' \subseteq trusted
      /\ now' \in Nat /\ now <= now'
  BY DEF PurgeMatch, PurgeCommit, PurgeFails, Tick, vars, TypeOK
<1>2. ASSUME NEW u \in Users, NEW d \in Devices
      PROVE  trustCache'[<<u, d>>] \in {0, trustCache[<<u, d>>]}
  BY DEF PurgeMatch, PurgeCommit, PurgeFails, Tick, vars, TypeOK
<1>3. TrustTimes'
  <2> SUFFICES ASSUME NEW v \in VerifyReq, vrf[v].pc \in {"trust", "cache"}
               PROVE  vrf[v].until <= now' + TRUST_EXPIRE
    BY <1>1 DEF TrustInv, TrustTimes
  <2>1. vrf[v].until \in Nat
    BY StartedVerify DEF VerifyCoroutine
  <2>2. vrf[v].until <= now + TRUST_EXPIRE
    BY DEF TrustInv, TrustTimes
  <2>3. now \in Nat /\ TRUST_EXPIRE \in Nat
    BY ClockAssumption DEF ClockAssumption, TypeOK
  <2>4. QED
    BY <1>1, <2>1, <2>2, <2>3
<1>4. RowsVouched' /\ ReadRowsVouched' /\ AcceptedCompleted' /\ SkipOnlyWhileTrusted'
  BY <1>1 DEF TrustInv, RowsVouched, ReadRowsVouched, AcceptedCompleted,
              SkipOnlyWhileTrusted, Vouches, Accepted, Granted
<1>5. KeysVouched'
  <2> SUFFICES ASSUME NEW u \in Users, NEW d \in Devices, trustCache'[<<u, d>>] > 0
               PROVE  \E v \in VerifyReq : Vouches(vrf[v], u, d, trustCache'[<<u, d>>])
    BY <1>1, ZenonT(40) DEF KeysVouched, Vouches
  <2>1. trustCache'[<<u, d>>] = trustCache[<<u, d>>]
    BY <1>2
  <2>2. QED
    BY <2>1 DEF TrustInv, KeysVouched
<1>6. QED
  BY <1>3, <1>4, <1>5 DEF TrustInv

(* Every row of trusted_devices, every row a check has read and every        *)
(* trusted: key of Redis stems from a verification that stored the device    *)
(* and published its success, and outlives neither (set_trusted, is_trusted).*)
THEOREM TrustInvariant == Spec => []TrustInv
<1>1. Init => TrustInv
  BY DEF Init, TrustInv, TrustTimes, RowsVouched, ReadRowsVouched, KeysVouched,
         AcceptedCompleted, SkipOnlyWhileTrusted, Accepted, CheckIdle, VerifyIdle, NoReply
<1>2. TypeOK /\ TypeOK' /\ TrustInv /\ [Next]_vars => TrustInv'
  BY TrustInvCheck, TrustInvVerify, TrustInvOther DEF Next
<1>3. QED
  BY <1>1, <1>2, TypeCorrect, PTL DEF Spec

(* A check of a risky login that skips the password does so while the trust  *)
(* of its own user and device runs (mfa_check, is_trusted).                  *)
THEOREM SkipOnly == Spec => []SkipOnlyWhileTrusted
<1>1. TrustInv => SkipOnlyWhileTrusted
  BY DEF TrustInv
<1>2. QED
  BY <1>1, TrustInvariant, PTL

(* No device is trusted, in the table or in Redis, without the MFACompleted  *)
(* event of its success (mfa_verify publishes before set_trusted).           *)
THEOREM TrustCompletion == Spec => []TrustFollowsCompletion
<1>1. TypeOK /\ TrustInv => TrustFollowsCompletion
  <2> SUFFICES ASSUME TypeOK, TrustInv PROVE TrustFollowsCompletion
    OBVIOUS
  <2>1. ASSUME NEW v \in VerifyReq, vrf[v].pc = "cache" \/ vrf[v].reply = 200
        PROVE  \E m \in completed : m.by = v /\ m.ok
    BY <2>1 DEF TrustInv, AcceptedCompleted, Accepted
  <2>2. ASSUME NEW r \in trusted PROVE \E m \in completed : m.by = r.by /\ m.ok
    <3>1. r.by \in VerifyReq
      BY DEF TypeOK, TrustedRow
    <3>2. QED
      BY <2>1, <3>1 DEF TrustInv, RowsVouched, Vouches
  <2>3. ASSUME NEW u \in Users, NEW d \in Devices, trustCache[<<u, d>>] > now
        PROVE  \E m \in completed : m.ok /\ vrf[m.by].user = u /\ vrf[m.by].device = d
    <3>1. trustCache[<<u, d>>] > 0
      BY <2>3 DEF TypeOK
    <3>2. PICK v \in VerifyReq : Vouches(vrf[v], u, d, trustCache[<<u, d>>])
      BY <3>1 DEF TrustInv, KeysVouched
    <3>3. PICK m \in completed : m.by = v /\ m.ok
      BY <2>1, <3>2 DEF Vouches
    <3>4. QED
      BY <3>2, <3>3 DEF Vouches
  <2>4. QED
    BY <2>2, <2>3 DEF TrustFollowsCompletion
<1>2. QED
  BY <1>1, TypeCorrect, TrustInvariant, PTL

-----------------------------------------------------------------------------
(* What is_trusted caches *)

\* a check that has not ended has no answer
Unanswered == \A c \in CheckReq : chk[c].pc # "done" => chk[c].reply = NoReply

LEMMA UnansweredStays ==
    ASSUME TypeOK, Unanswered, [Next]_vars
    PROVE  Unanswered'
<1>1. ASSUME NEW c \in CheckReq, CheckNext(c) PROVE Unanswered'
  <2>1. SUFFICES ASSUME NEW b \in CheckReq, chk'[b].pc # "done"
                 PROVE  chk'[b].reply = NoReply
    BY DEF Unanswered
  <2>2. CASE b # c
    BY <1>1, <2>1, <2>2, CheckOthers DEF Unanswered
  <2>3. CASE b = c /\ chk[c].pc = "idle"
    <3>1. PICK u \in Users, d \in Devices, s \in Scores :
              \/ chk'[c] = NewCheck(u, d, s)
              \/ chk'[c] = WithReply(NewCheck(u, d, s), 200)
      BY <1>1, <2>3, CheckOwn, ZenonT(40) DEF CheckChallenge
    <3>2. /\ NewCheck(u, d, s).reply = NoReply
          /\ WithReply(NewCheck(u, d, s), 200).pc = "done"
      BY DEF NewCheck, WithReply
    <3>3. QED
      BY <2>1, <2>3, <3>1, <3>2
  <2>4. CASE b = c /\ chk[c].pc # "idle"
    <3>1. chk[c] \in CheckCoroutine
      BY <2>4, StartedCheck
    <3>2. chk[c].pc # "done" /\ chk[c].reply = NoReply
      BY <1>1, <2>4, CheckOwn DEF CheckChallenge, Unanswered
    <3>3. chk'[c].pc = "done" \/ chk'[c].reply = chk[c].reply
      BY <1>1, <2>4, <3>1, CheckOwn, CheckFields
    <3>4. QED
      BY <2>1, <2>4, <3>2, <3>3
  <2>5. QED
    BY <2>2, <2>3, <2>4
<1>2. CASE chk' = chk
  BY <1>2 DEF Unanswered
<1>3. QED
  BY <1>1, <1>2, VerifyOthers
  DEF Next, PurgeMatch, PurgeCommit, PurgeFails, Tick, vars

(* int() of the time left drops less than a second, and the key is set in    *)
(* the step that computed it: it ends with the row or within the second      *)
(* before (is_trusted).                                                      *)
THEOREM RecachedKeys == Spec => RecacheWithinRow
<1>1. Init => Unanswered
  BY DEF Init, Unanswered, CheckIdle
<1>2. ASSUME TypeOK, Unanswered, [Next]_vars, NEW c \in CheckReq,
             chk[c].pc = "result", chk'[c].reply = 200, chk[c].rows # {}
      PROVE  \E r \in chk[c].rows :
                LET until == trustCache'[<<chk[c].user, chk[c].device>>]
                IN until <= r.expires /\ r.expires < until + Second
  <2> DEFINE key == <<chk[c].user, chk[c].device>>
  <2>1. chk[c] \in CheckCoroutine
    BY <1>2, StartedCheck
  <2>2. chk'[c] # chk[c]
    BY <1>2 DEF Unanswered, NoReply
  <2>3. CheckNext(c)
    BY <1>2, <2>2, CheckOthers, VerifyOthers
    DEF Next, PurgeMatch, PurgeCommit, PurgeFails, Tick, vars
  <2>4. CheckTrusted(c)
    <3>1. ASSUME CheckAmbiguous(c) PROVE FALSE
      <4>1. chk'[c] = WithReply(chk[c], 500)
        BY <1>2, <3>1 DEF CheckAmbiguous, CheckReplies, TypeOK
      <4>2. QED
        BY <1>2, <2>1, <4>1, CheckFields
    <3>2. QED
      BY <1>2, <2>3, <3>1
      DEF CheckNext, CheckStep, CheckArrive, CheckQuery, CheckLowRisk, CheckChallenge,
          CheckMail, CheckLog, CheckDbFails
  <2>5. PICK r \in chk[c].rows :
           \/ /\ r.expires >= now + Second
              /\ trustCache' = [trustCache EXCEPT ![key] = RecachedUntil(r)]
           \/ CheckReplies(c, 500)
    BY <2>4 DEF CheckTrusted
  <2>6. ~ CheckReplies(c, 500)
    <3>1. SUFFICES ASSUME CheckReplies(c, 500) PROVE FALSE
      OBVIOUS
    <3>2. chk'[c] = WithReply(chk[c], 500)
      BY <1>2, <3>1 DEF CheckReplies, TypeOK
    <3>3. QED
      BY <1>2, <2>1, <3>2, CheckFields
  <2>7. trustCache'[key] = RecachedUntil(r)
    BY <1>2, <2>1, <2>5, <2>6 DEF TypeOK, CheckCoroutine
  <2>8. r.expires \in Nat /\ r.expires - now \in Nat /\ now \in Nat
    BY <1>2, <2>1, <2>5, <2>6, ClockAssumption
    DEF TypeOK, CheckCoroutine, TrustedRow, ClockAssumption
  <2>9. PICK n \in Nat : n = WholeSeconds(r.expires - now)
    BY <2>8, WholeSecondsFacts
  <2>10. n <= r.expires - now /\ r.expires - now < n + Second
    BY <2>8, <2>9, WholeSecondsFacts
  <2>11. Second \in Nat
    BY ClockAssumption DEF ClockAssumption
  <2>12. trustCache'[key] = now + n
    BY <2>7, <2>9 DEF RecachedUntil
  <2>13. now + n <= r.expires /\ r.expires < (now + n) + Second
    BY <2>8, <2>9, <2>10, <2>11
  <2>14. QED
    BY <2>12, <2>13
<1>3. TypeOK /\ Unanswered /\ [Next]_vars
         => [\A c \in CheckReq :
                chk[c].pc = "result" /\ chk'[c].reply = 200 /\ chk[c].rows # {} =>
                   \E r \in chk[c].rows :
                      LET until == trustCache'[<<chk[c].user, chk[c].device>>]
                      IN /\ until <= r.expires
                         /\ r.expires < until + Second]_vars
  BY <1>2
<1>4. QED
  BY <1>1, <1>3, UnansweredStays, TypeCorrect, PTL DEF Spec, RecacheWithinRow

-----------------------------------------------------------------------------
(* How often a device is stored.  MfaHandler_unique.cfg shows a device with  *)
(* two rows.                                                                 *)

\* "by" is a key of the table: a verification stores its device once.
RowPerVerify == \A r, q \in trusted : r.by = q.by => r = q

\* Two rows come from two passwords.
RowPerPassword ==
    \A r, q \in trusted :
        vrf[r.by].stored.event = vrf[q.by].stored.event => r = q

(* What a step can add to the table: the row of a verification that has      *)
(* none.                                                                     *)
LEMMA RowPerVerifyStays ==
    ASSUME TypeOK, TrustInv, RowPerVerify, [Next]_vars
    PROVE  RowPerVerify'
<1>1. CASE trusted' \subseteq trusted
  BY <1>1 DEF RowPerVerify
<1>2. ASSUME NEW v \in VerifyReq, VerifyTrust(v)
      PROVE  RowPerVerify'
  <2> DEFINE row == [by |-> v, user |-> vrf[v].user, device |-> vrf[v].device,
                     expires |-> vrf[v].until]
  <2>1. trusted' = trusted \cup {row} /\ row.by = v
    BY <1>2 DEF VerifyTrust
  <2> HIDE DEF row
  <2>2. vrf[v].pc = "trust" /\ vrf[v].reply # 200
    BY <1>2 DEF VerifyTrust, TrustInv, TrustTimes
  <2>3. \A r \in trusted : r.by # v
    BY <2>2 DEF TrustInv, RowsVouched, Vouches
  <2>4. QED
    BY <2>1, <2>3 DEF RowPerVerify
<1>3. ASSUME NEW v \in VerifyReq, VerifyNext(v), ~ VerifyTrust(v)
      PROVE  trusted' = trusted
  BY <1>3, ZenonT(40)
  DEF VerifyNext, VerifyArrive, VerifyReceived, VerifyStep, VerifyLog, VerifyUnbound,
      VerifyRefuse, VerifyAccept, VerifyPublishFails, VerifyCache, VerifyDbFails
<1>4. QED
  BY <1>1, <1>2, <1>3, CheckOthers
  DEF Next, Tick, PurgeMatch, PurgeCommit, PurgeFails, vars

(* As long as no two verifications of an address overlap between their read  *)
(* and their delete, one password stores at most one row of trusted_devices, *)
(* whatever is purged and stored again: what is left of the finding that a   *)
(* device is stored twice takes two passwords (set_trusted, which does not   *)
(* look for an earlier row).                                                 *)
THEOREM StoredOncePerPassword == Spec /\ []OneAtATime => []RowPerPassword
<1>1. Init => RowPerVerify
  BY DEF Init, RowPerVerify
<1>2. TypeOK /\ TrustInv /\ AcceptedOnce /\ RowPerVerify => RowPerPassword
  <2> SUFFICES ASSUME TypeOK, TrustInv, AcceptedOnce, RowPerVerify,
                      NEW r \in trusted, NEW q \in trusted,
                      vrf[r.by].stored.event = vrf[q.by].stored.event
               PROVE  r = q
    BY DEF RowPerPassword
  <2>1. r.by \in VerifyReq /\ q.by \in VerifyReq
    BY DEF TypeOK, TrustedRow
  <2>2. Accepted(r.by) /\ Accepted(q.by)
    BY DEF TrustInv, RowsVouched, Vouches, Accepted
  <2>3. r.by = q.by
    BY <2>1, <2>2 DEF AcceptedOnce
  <2>4. QED
    BY <2>3 DEF RowPerVerify
<1>3. QED
  BY <1>1, <1>2, RowPerVerifyStays, TypeCorrect, TrustInvariant, OneTimeAlone, PTL
  DEF Spec
=============================================================================
