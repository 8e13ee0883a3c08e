-------------------------- MODULE SessionTokensProofs --------------------------
(* Proofs of the type invariant of SessionTokens and of what a logout is     *)
(* worth, for every set of requests and emails and every value of the time   *)
(* constants.                                                                *)
EXTENDS SessionTokens, TLAPS

(* int() of a number of seconds drops less than one. *)
LEMMA WholeSecondsFacts ==
    ASSUME NEW t \in Nat
    PROVE  /\ WholeSeconds(t) \in Nat
           /\ WholeSeconds(t) <= t
           /\ t < WholeSeconds(t) + Second
<1>1. Second \in Nat \ {0}
  BY ClockAssumption DEF ClockAssumption
<1>2. t % Second \in 0 .. (Second - 1) /\ t % Second <= t
  BY <1>1
<1>3. QED
  BY <1>1, <1>2 DEF WholeSeconds

(* A request that has started holds what it was started with. *)
LEMMA Started ==
    ASSUME TypeOK
    PROVE  /\ \A r \in RegisterReq : reg[r].pc # "idle" => reg[r] \in Registering
           /\ \A s \in SignInReq : sgn[s].pc # "idle" => sgn[s] \in SigningIn
           /\ \A l \in LogoutReq : out[l].reply # NoReply => out[l] \in LoggingOut
           /\ \A q \in CurrentReq : cur[q].pc # "idle" => cur[q] \in Reading
           /\ \A d \in DeleteReq : del[d].pc # "idle" => del[d] \in Deleting
BY DEF TypeOK, RegisterIdle, SignInIdle, LogoutIdle, CurrentIdle, DeleteIdle

(* What clients hold are tokens. *)
LEMMA IssuedTokens ==
    ASSUME TypeOK
    PROVE  Issued \subseteq Token
<1>1. ASSUME NEW s \in SignInReq, sgn[s].token # NoToken
      PROVE  sgn[s].token \in Token
  BY <1>1 DEF TypeOK, SigningIn, SignInIdle
<1>2. QED
  BY <1>1 DEF Issued

(* create_access_token returns a token. *)
LEMMA NewTokenType ==
    ASSUME now \in Nat, NEW e \in Emails
    PROVE  NewToken(e) \in Token
<1>1. now + Life \in Nat
  BY ClockAssumption DEF ClockAssumption
<1>2. WholeSeconds(now) \in Nat /\ WholeSeconds(now + Life) \in Nat
  BY <1>1, WholeSecondsFacts
<1>3. QED
  BY <1>2 DEF NewToken, Token

(* The TTL of a key: less than a second short of what its token has left. *)
LEMMA TtlFacts ==
    ASSUME now \in Nat, NEW token \in Token, token.exp > now
    PROVE  /\ Ttl(token) \in Nat
           /\ now + Ttl(token) \in Nat
           /\ now + Ttl(token) <= token.exp
           /\ now + Ttl(token) + Second > token.exp
<1>1. token.exp \in Nat /\ token.exp - now \in Nat
  BY DEF Token
<1>2. /\ WholeSeconds(token.exp - now) \in Nat
      /\ WholeSeconds(token.exp - now) <= token.exp - now
      /\ token.exp - now < WholeSeconds(token.exp - now) + Second
  BY <1>1, WholeSecondsFacts
<1>3. Second \in Nat
  BY ClockAssumption DEF ClockAssumption
<1>4. QED
  BY <1>1, <1>2, <1>3 DEF Ttl

(* Each step leaves a well-formed request. *)
LEMMA StepTypes ==
    ASSUME TypeOK
    PROVE  /\ \A e \in Emails :
                 /\ \A code \in {NoReply, 400, 500} : NewReg(e, code) \in Registering
                 /\ \A code \in {NoReply, 404, 500} : NewDel(e, code) \in Deleting
           /\ \A k \in Registering : \A code \in {201, 500} : RegReply(k, code) \in Registering
           /\ \A u \in Account : InChecks(u) \in SigningIn
           /\ \A k \in SigningIn : SignedIn(k) \in SigningIn
           /\ \A token \in Token : \A code \in {200, 400, 401, 500} :
                 Answer(token, code) \in LoggingOut
           /\ \A token \in Token : /\ NewCur(token, NoReply) \in Reading
                                   /\ NewCur(token, 401) \in Reading
           /\ \A k \in Reading : \A u \in Account \cup {None} : \A code \in {200, 404, 500} :
                 CurReply(k, u, code) \in Reading
           /\ \A k \in Deleting : AfterMfa(k) \in Deleting
           /\ \A k \in Deleting : \A code \in {200, 500} : DelReply(k, code) \in Deleting
<1>0. now \in Nat
  BY DEF TypeOK
<1>1. \A e \in Emails :
         /\ \A code \in {NoReply, 400, 500} : NewReg(e, code) \in Registering
         /\ \A code \in {NoReply, 404, 500} : NewDel(e, code) \in Deleting
  BY DEF NewReg, NewDel, Registering, Deleting, NoReply
<1>2. ASSUME NEW k \in Registering, NEW code \in {201, 500}
      PROVE  RegReply(k, code) \in Registering
  BY DEF RegReply, Registering
<1>3. \A u \in Account : InChecks(u) \in SigningIn
  BY DEF InChecks, SigningIn
<1>4. \A k \in SigningIn : SignedIn(k) \in SigningIn
  BY <1>0, NewTokenType DEF SignedIn, SigningIn, Account
<1>5. \A token \in Token : \A code \in {200, 400, 401, 500} :
          Answer(token, code) \in LoggingOut
  BY <1>0 DEF Answer, LoggingOut
<1>6. \A token \in Token : /\ NewCur(token, NoReply) \in Reading
                           /\ NewCur(token, 401) \in Reading
  BY <1>0 DEF NewCur, Reading, NoReply
<1>7. ASSUME NEW k \in Reading, NEW u \in Account \cup {None}, NEW code \in {200, 404, 500}
      PROVE  CurReply(k, u, code) \in Reading
  BY DEF CurReply, Reading
<1>8. ASSUME NEW k \in Deleting
      PROVE  AfterMfa(k) \in Deleting
  <2>1. AfterMfa(k) = [pc |-> "commit", email |-> k.email, reply |-> k.reply]
    BY DEF AfterMfa, Deleting
  <2>2. QED
    BY <2>1 DEF Deleting
<1>9. ASSUME NEW k \in Deleting, NEW code \in {200, 500}
      PROVE  DelReply(k, code) \in Deleting
  BY DEF DelReply, Deleting
<1>10. QED
  BY <1>1, <1>2, <1>3, <1>4, <1>5, <1>6, <1>7, <1>8, <1>9

(* Every step keeps the types. *)
LEMMA TypeStep ==
    ASSUME TypeOK, Next
    PROVE  TypeOK'
<1>1. ASSUME NEW r \in RegisterReq, NEW e \in Emails, RegisterBegins(r, e)
      PROVE  TypeOK'
  BY <1>1, StepTypes DEF RegisterBegins, TypeOK
<1>2. ASSUME NEW r \in RegisterReq, RegisterCommit(r)
      PROVE  TypeOK'
  <2>1. reg[r] \in Registering
    BY <1>2, Started DEF RegisterCommit
  <2>2. reg[r].email \in Emails
    BY <2>1 DEF Registering
  <2>3. [by |-> r, email |-> reg[r].email] \in Account
    BY <2>2 DEF Account
  <2>4. users' \subseteq Account
    BY <1>2, <2>3 DEF RegisterCommit, TypeOK
  <2>5. QED
    BY <1>2, <2>1, <2>4, StepTypes DEF RegisterCommit, TypeOK
<1>3. ASSUME NEW s \in SignInReq, NEW u \in users, SignInBegins(s, u)
      PROVE  TypeOK'
  BY <1>3, StepTypes DEF SignInBegins, TypeOK
<1>4. ASSUME NEW s \in SignInReq, SignInToken(s)
      PROVE  TypeOK'
  <2>1. sgn[s] \in SigningIn
    BY <1>4, Started DEF SignInToken
  <2>2. QED
    BY <1>4, <2>1, StepTypes DEF SignInToken, TypeOK
<1>5. ASSUME NEW l \in LogoutReq, LogoutNext(l)
      PROVE  TypeOK'
  <2>1. PICK token \in Issued : \/ LogoutBlacklists(l, token) \/ LogoutTooLate(l, token)
                                \/ LogoutRefused(l, token)
    BY <1>5 DEF LogoutNext
  <2>2. token \in Token
    BY IssuedTokens
  <2>3. \A code \in {200, 400, 401, 500} : Answer(token, code) \in LoggingOut
    BY <2>2, StepTypes
  <2>4. CASE LogoutBlacklists(l, token)
    <3>1. token.exp > now /\ now \in Nat /\ token.exp \in Nat
      BY <2>2, <2>4 DEF LogoutBlacklists, TypeOK, Token
    <3>2. [token |-> token, until |-> now + Ttl(token)] \in Key
      BY <2>2, <3>1, TtlFacts DEF Key
    <3>3. now + Ttl(token) \in now .. token.exp
      BY <2>2, <3>1, TtlFacts
    <3>4. blacklist' = BlacklistWith(token) /\ now' = now
      BY <2>4 DEF LogoutBlacklists
    <3>5. blacklist' \subseteq Key /\ \A k \in blacklist' : k.until \in now .. k.token.exp
      BY <3>2, <3>3, <3>4 DEF BlacklistWith, TypeOK
    <3>6. out' \in [LogoutReq -> LoggingOut \cup {LogoutIdle}]
      BY <2>3, <2>4 DEF LogoutBlacklists, Answers, TypeOK
    <3>7. QED
      BY <2>4, <3>4, <3>5, <3>6 DEF LogoutBlacklists, TypeOK
  <2>5. CASE LogoutTooLate(l, token)
    BY <2>3, <2>5 DEF LogoutTooLate, Answers, TypeOK
  <2>6. CASE LogoutRefused(l, token)
    BY <2>3, <2>6 DEF LogoutRefused, Answers, TypeOK
  <2>7. QED
    BY <2>1, <2>4, <2>5, <2>6
<1>6. ASSUME NEW q \in CurrentReq, NEW token \in Issued, CurrentArrive(q, token)
      PROVE  TypeOK'
  <2>1. token \in Token
    BY IssuedTokens
  <2>2. QED
    BY <1>6, <2>1, StepTypes DEF CurrentArrive, TypeOK
<1>7. ASSUME NEW q \in CurrentReq, CurrentSelect(q)
      PROVE  TypeOK'
  <2>1. cur[q] \in Reading
    BY <1>7, Started DEF CurrentSelect
  <2>2. PICK u \in Account \cup {None}, code \in {200, 404, 500} :
           cur' = [cur EXCEPT ![q] = CurReply(cur[q], u, code)]
    BY <1>7 DEF CurrentSelect, Registered, TypeOK
  <2>3. QED
    BY <1>7, <2>1, <2>2, StepTypes DEF CurrentSelect, TypeOK
<1>8. ASSUME NEW d \in DeleteReq, NEW e \in Emails, DeleteBegins(d, e)
      PROVE  TypeOK'
  BY <1>8, StepTypes DEF DeleteBegins, TypeOK
<1>9. ASSUME NEW d \in DeleteReq, DeleteAsks(d) \/ DeleteCommit(d)
      PROVE  TypeOK'
  <2>1. del[d] \in Deleting
    BY <1>9, Started DEF DeleteAsks, DeleteCommit
  <2>2. QED
    BY <1>9, <2>1, StepTypes DEF DeleteAsks, DeleteCommit, TypeOK
<1>10. CASE Tick
  <2>1. now' \in Nat /\ blacklist' \subseteq Key
    BY <1>10 DEF Tick, TypeOK
  <2>2. ASSUME NEW k \in blacklist'
        PROVE  k.until \in now' .. k.token.exp
    <3>1. k \in blacklist /\ k \in Key /\ k.until > now + 1 /\ k.until \in now .. k.token.exp
      BY <1>10, <2>2 DEF Tick, TypeOK
    <3>2. k.until \in Nat /\ k.token.exp \in Nat /\ now \in Nat
      BY <3>1 DEF Key, Token, TypeOK
    <3>3. QED
      BY <1>10, <3>1, <3>2 DEF Tick
  <2>3. QED
    BY <1>10, <2>1, <2>2 DEF Tick, TypeOK
<1>11. QED
  BY <1>1, <1>2, <1>3, <1>4, <1>5, <1>6, <1>7, <1>8, <1>9, <1>10 DEF Next

(* Every reachable state is well typed; a key ends no later than its token.  *)
THEOREM TypeCorrect == Spec => []TypeOK
<1>1. Init => TypeOK
  BY DEF Init, TypeOK
<1>2. TypeOK /\ [Next]_vars => TypeOK'
  <2>1. TypeOK /\ UNCHANGED vars => TypeOK'
    BY DEF TypeOK, vars
  <2>2. QED
    BY <2>1, TypeStep
<1>3. QED
  BY <1>1, <1>2, PTL DEF Spec

-----------------------------------------------------------------------------
(* A step that leaves the clock, the blacklist, the logouts and the readers  *)
(* alone keeps TokenInv.                                                     *)
LEMMA TokenInvUnchanged ==
    ASSUME TokenInv, UNCHANGED <<now, blacklist, out, cur>>
    PROVE  TokenInv'
BY DEF TokenInv, HeldBack, Blacklisted, LoggedOutBefore

(* A logout answered at the present time is not before any reader.           *)
LEMMA TokenInvLogout ==
    ASSUME TypeOK, TokenInv, NEW l \in LogoutReq, LogoutNext(l)
    PROVE  TokenInv'
<1>1. PICK token \in Issued : \/ LogoutBlacklists(l, token) \/ LogoutTooLate(l, token)
                              \/ LogoutRefused(l, token)
  BY DEF LogoutNext
<1>2. token \in Token
  BY IssuedTokens
<1>3. PICK code \in {200, 400, 401, 500} : /\ out' = [out EXCEPT ![l] = Answer(token, code)]
                                           /\ code = 200 => LogoutBlacklists(l, token)
  BY <1>1 DEF LogoutBlacklists, LogoutTooLate, LogoutRefused, Answers
<1>4. now' = now /\ cur' = cur /\ now \in Nat
  BY <1>1 DEF LogoutBlacklists, LogoutTooLate, LogoutRefused, TypeOK
<1>5. /\ out'[l] = [token |-> token, at |-> now, reply |-> code]
      /\ \A m \in LogoutReq : m # l => out'[m] = out[m]
  <2>1. /\ out'[l] = Answer(token, code)
        /\ \A m \in LogoutReq : m # l => out'[m] = out[m]
    BY <1>3 DEF TypeOK
  <2>2. QED
    BY <2>1 DEF Answer
<1>6. /\ \A t : Blacklisted(t) => Blacklisted(t)'
      /\ code = 200 => Blacklisted(token)'
  <2>1. CASE LogoutBlacklists(l, token)
    <3>1. DEFINE new == [token |-> token, until |-> now + Ttl(token)]
    <3>2. blacklist' = {b \in blacklist : b.token # token} \cup {new} /\ new.token = token
      BY <2>1 DEF LogoutBlacklists, BlacklistWith
    <3>3. Blacklisted(token)'
      BY <3>2 DEF Blacklisted
    <3>4. ASSUME NEW t, Blacklisted(t), t # token
          PROVE  Blacklisted(t)'
      BY <3>2, <3>4 DEF Blacklisted
    <3>5. QED
      BY <3>3, <3>4
  <2>2. CASE code # 200 /\ blacklist' = blacklist
    BY <2>2 DEF Blacklisted
  <2>3. CASE LogoutTooLate(l, token) \/ LogoutRefused(l, token)
    <3>1. blacklist' = blacklist /\ out'[l].reply # 200
      BY <2>3 DEF LogoutTooLate, LogoutRefused, Answers, Answer, TypeOK
    <3>2. QED
      BY <1>5, <2>2, <3>1
  <2>4. QED
    BY <1>1, <2>1, <2>3
<1>7. \A m \in LogoutReq : out'[m].reply = 200 => HeldBack(out[m].token)'
  <2> SUFFICES ASSUME NEW m \in LogoutReq, out'[m].reply = 200
               PROVE  HeldBack(out[m].token)'
    OBVIOUS
  <2>1. CASE m = l
    BY <1>5, <1>6, <2>1 DEF HeldBack
  <2>2. CASE m # l
    <3>1. out'[m] = out[m] /\ HeldBack(out[m].token)
      BY <1>5, <2>2 DEF TokenInv
    <3>2. QED
      BY <1>4, <1>6, <3>1 DEF HeldBack
  <2>3. QED
    BY <2>1, <2>2
<1>8. \A k \in blacklist' : k.until + Second > k.token.exp
  <2>1. CASE LogoutBlacklists(l, token)
    <3>1. now + Ttl(token) + Second > token.exp
      BY <1>2, <1>4, <2>1, TtlFacts DEF LogoutBlacklists
    <3>2. QED
      BY <2>1, <3>1 DEF LogoutBlacklists, BlacklistWith, TokenInv
  <2>2. CASE LogoutTooLate(l, token) \/ LogoutRefused(l, token)
    BY <2>2 DEF LogoutTooLate, LogoutRefused, TokenInv
  <2>3. QED
    BY <1>1, <2>1, <2>2
<1>9. \A m \in LogoutReq : out'[m].at <= now'
  BY <1>4, <1>5 DEF TokenInv
<1>10. ASSUME NEW q \in CurrentReq, NEW t, LoggedOutBefore(t, cur[q].at)'
       PROVE  LoggedOutBefore(t, cur[q].at)
  <2>1. PICK m \in LogoutReq : out'[m].reply = 200 /\ out'[m].token = t /\ out'[m].at < cur[q].at
    BY <1>4, <1>10 DEF LoggedOutBefore
  <2>2. cur[q].at <= now /\ cur[q].at \in Nat
    BY DEF TokenInv, TypeOK, Reading, CurrentIdle
  <2>3. m # l
    BY <1>4, <1>5, <2>1, <2>2
  <2>4. QED
    BY <1>5, <2>1, <2>3 DEF LoggedOutBefore
<1>11. QED
  BY <1>4, <1>7, <1>8, <1>9, <1>10 DEF TokenInv

(* A reader that starts now finds a token that was logged out on the         *)
(* blacklist, unless its last second has begun.                              *)
LEMMA TokenInvArrive ==
    ASSUME TypeOK, TokenInv, NEW q \in CurrentReq, NEW token \in Issued,
           CurrentArrive(q, token)
    PROVE  TokenInv'
<1>1. UNCHANGED <<now, blacklist, out>> /\ now \in Nat
  BY DEF CurrentArrive, TypeOK
<1>2. PICK reply \in {NoReply, 401} : /\ cur' = [cur EXCEPT ![q] = NewCur(token, reply)]
                                      /\ reply = NoReply => ~ Blacklisted(token)
  <2>1. CASE Blacklisted(token) \/ ~ Decodes(token)
    <3>1. cur' = [cur EXCEPT ![q] = NewCur(token, 401)]
      BY <2>1 DEF CurrentArrive
    <3>2. 401 # NoReply
      BY DEF NoReply
    <3>3. QED
      BY <3>1, <3>2
  <2>2. CASE ~ Blacklisted(token) /\ Decodes(token)
    BY <2>2 DEF CurrentArrive
  <2>3. QED
    BY <2>1, <2>2
<1>3. /\ cur'[q].token = token /\ cur'[q].at = now /\ cur'[q].reply = reply
      /\ reply # NoReply => cur'[q].pc = "done"
      /\ \A p \in CurrentReq : p # q => cur'[p] = cur[p]
  <2>1. /\ cur'[q] = NewCur(token, reply)
        /\ \A p \in CurrentReq : p # q => cur'[p] = cur[p]
    BY <1>2 DEF TypeOK
  <2>2. QED
    BY <2>1 DEF NewCur
<1>4. LoggedOutBefore(token, now) /\ reply = NoReply => now + Second > token.exp
  <2>1. LoggedOutBefore(token, now) => HeldBack(token)
    BY DEF LoggedOutBefore, TokenInv
  <2>2. QED
    BY <1>2, <2>1 DEF HeldBack
<1>5. ASSUME NEW p \in CurrentReq, cur'[p].pc = "select" \/ cur'[p].reply = 200
      PROVE  ~ LoggedOutBefore(cur[p].token, cur[p].at)' \/ cur'[p].at + Second > cur'[p].token.exp
  <2>1. CASE p = q
    BY <1>1, <1>2, <1>3, <1>4, <1>5, <2>1 DEF LoggedOutBefore, NoReply
  <2>2. CASE p # q
    BY <1>1, <1>3, <1>5, <2>2 DEF LoggedOutBefore, TokenInv
  <2>3. QED
    BY <2>1, <2>2
<1>6. \A p \in CurrentReq : cur'[p].at <= now'
  BY <1>1, <1>3 DEF TokenInv
<1>7. QED
  BY <1>1, <1>5, <1>6 DEF TokenInv, HeldBack, Blacklisted

(* The SELECT keeps the token and the time at which it passed the check.     *)
LEMMA TokenInvSelect ==
    ASSUME TypeOK, TokenInv, NEW q \in CurrentReq, CurrentSelect(q)
    PROVE  TokenInv'
<1>1. UNCHANGED <<now, blacklist, out>> /\ cur[q].pc = "select"
  BY DEF CurrentSelect
<1>2. PICK u, code : cur' = [cur EXCEPT ![q] = CurReply(cur[q], u, code)]
  BY DEF CurrentSelect
<1>3. /\ cur'[q].token = cur[q].token /\ cur'[q].at = cur[q].at
      /\ \A p \in CurrentReq : p # q => cur'[p] = cur[p]
  BY <1>2 DEF CurReply, TypeOK
<1>4. ASSUME NEW p \in CurrentReq, cur'[p].pc = "select" \/ cur'[p].reply = 200
      PROVE  ~ LoggedOutBefore(cur[p].token, cur[p].at)' \/ cur'[p].at + Second > cur'[p].token.exp
  <2>1. cur[p].pc = "select" \/ cur[p].reply = 200
    BY <1>1, <1>3, <1>4
  <2>2. cur'[p].token = cur[p].token /\ cur'[p].at = cur[p].at
    BY <1>3
  <2>3. QED
    BY <1>1, <2>1, <2>2 DEF LoggedOutBefore, TokenInv
<1>5. \A p \in CurrentReq : cur'[p].at <= now'
  BY <1>1, <1>3 DEF TokenInv
<1>6. QED
  BY <1>1, <1>4, <1>5 DEF TokenInv, HeldBack, Blacklisted

(* A key that Redis drops has lasted to the last second of its token.        *)
LEMMA TokenInvTick ==
    ASSUME TypeOK, TokenInv, Tick
    PROVE  TokenInv'
<1>1. /\ now \in Nat /\ now' = now + 1 /\ out' = out /\ cur' = cur
      /\ blacklist' = {b \in blacklist : b.until > now + 1}
      /\ Second \in Nat
  BY ClockAssumption DEF Tick, TypeOK, ClockAssumption
<1>2. ASSUME NEW l \in LogoutReq, out[l].reply = 200
      PROVE  HeldBack(out[l].token)'
  <2>1. out[l].token.exp \in Nat
    BY <1>2, Started DEF LoggingOut, Token, NoReply
  <2>2. CASE now + Second > out[l].token.exp
    BY <1>1, <2>1, <2>2 DEF HeldBack
  <2>3. CASE Blacklisted(out[l].token)
    <3>1. PICK k \in blacklist : k.token = out[l].token
      BY <2>3 DEF Blacklisted
    <3>2. k.until \in Nat /\ k.until + Second > out[l].token.exp
      BY <3>1 DEF TokenInv, TypeOK, Key
    <3>3. CASE k.until > now + 1
      BY <1>1, <3>1, <3>3 DEF HeldBack, Blacklisted
    <3>4. CASE k.until <= now + 1
      BY <1>1, <2>1, <3>2, <3>4 DEF HeldBack
    <3>5. QED
      BY <1>1, <3>2, <3>3, <3>4
  <2>4. QED
    BY <1>2, <2>2, <2>3 DEF TokenInv, HeldBack
<1>3. /\ \A l \in LogoutReq : out[l].at <= now' /\ out[l].at \in Nat
      /\ \A q \in CurrentReq : cur[q].at <= now' /\ cur[q].at \in Nat
  <2>1. /\ \A l \in LogoutReq : out[l].at \in Nat /\ out[l].at <= now
        /\ \A q \in CurrentReq : cur[q].at \in Nat /\ cur[q].at <= now
    BY DEF TypeOK, TokenInv, LoggingOut, LogoutIdle, Reading, CurrentIdle
  <2>2. QED
    BY <1>1, <2>1
<1>4. \A k \in blacklist' : k.until + Second > k.token.exp
  BY <1>1 DEF TokenInv
<1>5. QED
  BY <1>1, <1>2, <1>3, <1>4 DEF TokenInv, LoggedOutBefore

(* A logout that was answered 200 holds its token back until the token's     *)
(* last second, a key lasts that long, and whoever passed the blacklist      *)
(* check passed it rightly.                                                  *)
THEOREM TokenInvariant == Spec => []TokenInv
<1>1. Init => TokenInv
  BY DEF Init, TokenInv, LogoutIdle, CurrentIdle, NoReply
<1>2. TypeOK /\ TokenInv /\ [Next]_vars => TokenInv'
  <2> SUFFICES ASSUME TypeOK, TokenInv, [Next]_vars
               PROVE  TokenInv'
    OBVIOUS
  <2>1. CASE \E l \in LogoutReq : LogoutNext(l)
    BY <2>1, TokenInvLogout
  <2>2. CASE \E q \in CurrentReq : \/ \E token \in Issued : CurrentArrive(q, token)
                                   \/ CurrentSelect(q)
    BY <2>2, TokenInvArrive, TokenInvSelect
  <2>3. CASE Tick
    BY <2>3, TokenInvTick
  <2>4. CASE \E r \in RegisterReq : \/ \E e \in Emails : RegisterBegins(r, e)
                                    \/ RegisterCommit(r)
    BY <2>4, TokenInvUnchanged DEF RegisterBegins, RegisterCommit
  <2>5. CASE \E s \in SignInReq : \/ \E u \in users : SignInBegins(s, u)
                                  \/ SignInToken(s)
    BY <2>5, TokenInvUnchanged DEF SignInBegins, SignInToken
  <2>6. CASE \E d \in DeleteReq : \/ \E e \in Emails : DeleteBegins(d, e)
                                  \/ DeleteAsks(d) \/ DeleteCommit(d)
    BY <2>6, TokenInvUnchanged DEF DeleteBegins, DeleteAsks, DeleteCommit
  <2>7. CASE UNCHANGED vars
    BY <2>7, TokenInvUnchanged DEF vars
  <2>8. QED
    BY <2>1, <2>2, <2>3, <2>4, <2>5, <2>6, <2>7 DEF Next
<1>3. QED
  BY <1>1, <1>2, TypeCorrect, PTL DEF Spec

(* A token that was logged out is refused until its last second, however     *)
(* registrations, sign-ins, logouts, readers and deletions interleave.       *)
THEOREM RevokedTokens == Spec => []RevokedUntilLastSecond
<1>1. TokenInv => RevokedUntilLastSecond
  BY DEF TokenInv, RevokedUntilLastSecond
<1>2. QED
  BY <1>1, TokenInvariant, PTL
===============================================================================
