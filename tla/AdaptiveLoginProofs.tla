-------------------------- MODULE AdaptiveLoginProofs ---------------------------
(* The system implements AdaptiveLogin, for every set of requests, accounts, *)
(* devices, passwords and scores and every value of the time constants: each *)
(* step of AdaptiveMfa is, through the refinement mapping, a step of         *)
(* AdaptiveLogin or leaves what it speaks of alone.                          *)
EXTENDS AdaptiveMfaProofs

(* What is known in every state of the system. *)
AllInv == SysTypeOK /\ LinkInv /\ OtpInv /\ TrustInv

(* A view is absent exactly when its request is. *)
LEMMA ViewFacts ==
    ASSUME NEW k, k.device \in Devices
    PROVE  /\ k.user = None => LoginView(k) = None /\ VerifyView(k) = None
           /\ k.user \in Users =>
                 /\ LoginView(k) # None
                 /\ LoginView(k) = [account |-> k.user, device |-> k.device,
                                    answer |-> LoginAnswer(k)]
                 /\ VerifyView(k) # None
                 /\ VerifyView(k) = [account |-> k.user, device |-> k.device,
                                     answer |-> VerifyAnswer(k)]
<1>1. ASSUME k.user = None PROVE LoginView(k) = None /\ VerifyView(k) = None
  BY <1>1 DEF LoginView, VerifyView
<1>2. ASSUME k.user \in Users
      PROVE  /\ LoginView(k) = [account |-> k.user, device |-> k.device,
                                answer |-> LoginAnswer(k)]
             /\ VerifyView(k) = [account |-> k.user, device |-> k.device,
                                 answer |-> VerifyAnswer(k)]
  BY <1>2, NoneFacts DEF LoginView, VerifyView
<1>3. LoginAnswer(k) \in L!Answers /\ VerifyAnswer(k) \in L!Answers
  BY DEF LoginAnswer, VerifyAnswer, L!Answers
<1>4. ASSUME k.user \in Users, NEW answer \in L!Answers
      PROVE  [account |-> k.user, device |-> k.device, answer |-> answer] # None
  BY <1>4, RequestAssumption DEF RequestAssumption, L!Request
<1>5. QED
  BY <1>1, <1>2, <1>3, <1>4

(* The answers, as the mapping reads them. *)
LEMMA AnswerFacts ==
    ASSUME NEW k
    PROVE  /\ k.reply = NoReply => LoginAnswer(k) = "none" /\ VerifyAnswer(k) = "none"
           /\ k.reply = 200 => LoginAnswer(k) = "token" /\ VerifyAnswer(k) = "token"
           /\ k.reply = 202 => LoginAnswer(k) = "challenge"
           /\ k.reply \in {400, 401, 500, 502} =>
                 LoginAnswer(k) = "refused" /\ VerifyAnswer(k) = "refused"
BY DEF LoginAnswer, VerifyAnswer, NoReply

(* How the views move with a login, and with a verification. *)
LEMMA LoginViewMoves ==
    ASSUME login \in [CheckReq -> A!LoginCoroutine \cup {A!LoginIdle}],
           NEW l \in CheckReq, NEW k, login' = [login EXCEPT ![l] = k]
    PROVE  AbsLogin' = [AbsLogin EXCEPT ![l] = LoginView(k)]
BY ZenonT(40) DEF AbsLogin, LoginView, LoginAnswer

LEMMA VerifyViewMoves ==
    ASSUME ver \in [VerifyReq -> A!VerCoroutine \cup {A!VerIdle}],
           NEW v \in VerifyReq, NEW k, ver' = [ver EXCEPT ![v] = k]
    PROVE  AbsVerification' = [AbsVerification EXCEPT ![v] = VerifyView(k)]
BY ZenonT(40) DEF AbsVerification, VerifyView, VerifyAnswer

(* What the mapping does not see. *)
LEMMA Unseen ==
    /\ login' = login => AbsLogin' = AbsLogin /\ Safe' = Safe
    /\ ver' = ver => AbsVerification' = AbsVerification
    /\ chk' = chk => Challenged' = Challenged
    /\ vrf' = vrf /\ completed' = completed => Proved' = Proved
BY DEF AbsLogin, Safe, AbsVerification, Challenged, Proved, LoginView, VerifyView,
       LoginAnswer, VerifyAnswer

-----------------------------------------------------------------------------
(* An answer to an open login is AnswerLogin, an answer to an open           *)
(* verification AnswerVerification.                                          *)
LEMMA AnswersLogin ==
    ASSUME AllInv, NEW l \in CheckReq, login[l].pc \in {"risk", "check"},
           NEW code \in {200, 202, 500, 502}, A!LoginReplies(l, code),
           UNCHANGED vars, ver' = ver,
           code = 200 => \/ login[l].score # None /\ login[l].score < RISK_THRESHOLD
                         \/ <<login[l].user, login[l].device>> \in Proved,
           code = 202 => /\ ~ (login[l].score < RISK_THRESHOLD)
                         /\ <<EmailOf[login[l].user], login[l].device>> \in Challenged
    PROVE  L!Next
<1>1. /\ login \in [CheckReq -> A!LoginCoroutine \cup {A!LoginIdle}]
      /\ login[l] \in A!LoginCoroutine
      /\ login[l].user \in Users /\ login[l].device \in Devices
      /\ login[l].reply = NoReply
  <2>1. login[l] \in A!LoginCoroutine
    BY Started DEF AllInv, SysTypeOK
  <2>2. login[l].user # None /\ login[l].reply = NoReply
    BY DEF AllInv, LinkInv, LoginsLinked
  <2>3. QED
    BY <2>1, <2>2 DEF A!LoginCoroutine, AllInv, SysTypeOK, A!TypeOK
<1>2. PICK k : k = A!WithReply(login[l], code)
  OBVIOUS
<1>3. /\ login' = [login EXCEPT ![l] = k]
      /\ k.user = login[l].user /\ k.device = login[l].device
      /\ k.score = login[l].score /\ k.reply = code
  BY <1>1, <1>2, AnsweredFields DEF A!LoginReplies
<1> DEFINE a == LoginAnswer(k)
<1>4. /\ AbsLogin[l] = [account |-> login[l].user, device |-> login[l].device,
                        answer |-> "none"]
      /\ AbsLogin[l] # None
      /\ LoginView(k) = [account |-> login[l].user, device |-> login[l].device,
                         answer |-> a]
  <2>1. /\ LoginView(login[l]) = [account |-> login[l].user, device |-> login[l].device,
                                  answer |-> LoginAnswer(login[l])]
        /\ LoginView(login[l]) # None
    BY <1>1, ViewFacts
  <2>2. LoginAnswer(login[l]) = "none"
    BY <1>1, AnswerFacts
  <2>3. AbsLogin[l] = LoginView(login[l])
    BY DEF AbsLogin
  <2>4. LoginView(k) = [account |-> k.user, device |-> k.device, answer |-> a]
    BY <1>1, <1>3, ViewFacts
  <2>5. QED
    BY <1>3, <2>1, <2>2, <2>3, <2>4
<1>5. AbsLogin' = [AbsLogin EXCEPT ![l].answer = a]
  <2>1. AbsLogin' = [AbsLogin EXCEPT ![l] = LoginView(k)]
    BY <1>1, <1>3, LoginViewMoves
  <2>2. LoginView(k) = [AbsLogin[l] EXCEPT !.answer = a]
    BY <1>4
  <2>3. QED
    BY <2>1, <2>2
<1>6. /\ a \in {"token", "challenge", "refused"}
      /\ a = "token" <=> code = 200
      /\ a = "challenge" <=> code = 202
  BY <1>3, AnswerFacts
<1>7. Safe' = Safe
  <2>1. \A b \in CheckReq : login'[b].score = login[b].score
    BY <1>1, <1>3
  <2>2. QED
    BY <2>1 DEF Safe
<1>8. a = "token" => l \in Safe \/ <<AbsLogin[l].account, AbsLogin[l].device>> \in Proved
  BY <1>4, <1>6 DEF Safe
<1>9. a = "challenge" =>
         /\ l \notin Safe
         /\ <<EmailOf[AbsLogin[l].account], AbsLogin[l].device>> \in Challenged
  BY <1>4, <1>6 DEF Safe
<1>10. AbsVerification' = AbsVerification /\ Challenged' = Challenged /\ Proved' = Proved
  BY Unseen DEF vars
<1> HIDE DEF a
<1>11. L!AnswerLogin(l, a)
  BY <1>4, <1>5, <1>7, <1>8, <1>9, <1>10 DEF L!AnswerLogin, L!Open
<1>12. QED
  BY <1>6, <1>11 DEF L!Next

LEMMA AnswersVerification ==
    ASSUME AllInv, NEW v \in VerifyReq, ver[v].pc \in {"lookup", "verify"},
           NEW code \in {200, 400, 401, 500, 502}, A!VerReplies(v, code),
           UNCHANGED vars, login' = login,
           code = 200 => <<ver[v].user, ver[v].device>> \in Proved
    PROVE  L!Next
<1>1. /\ ver \in [VerifyReq -> A!VerCoroutine \cup {A!VerIdle}]
      /\ ver[v] \in A!VerCoroutine
      /\ ver[v].user \in Users /\ ver[v].device \in Devices
      /\ ver[v].reply = NoReply
  <2>1. ver[v] \in A!VerCoroutine
    BY Started DEF AllInv, SysTypeOK
  <2>2. ver[v].user # None /\ ver[v].reply = NoReply
    BY DEF AllInv, LinkInv, VerificationsLinked
  <2>3. QED
    BY <2>1, <2>2 DEF A!VerCoroutine, AllInv, SysTypeOK, A!TypeOK
<1>2. PICK k : k = A!WithReply(ver[v], code)
  OBVIOUS
<1>3. /\ ver' = [ver EXCEPT ![v] = k]
      /\ k.user = ver[v].user /\ k.device = ver[v].device /\ k.reply = code
  BY <1>1, <1>2, AnsweredFields DEF A!VerReplies
<1> DEFINE a == VerifyAnswer(k)
<1>4. /\ AbsVerification[v] = [account |-> ver[v].user, device |-> ver[v].device,
                               answer |-> "none"]
      /\ AbsVerification[v] # None
      /\ VerifyView(k) = [account |-> ver[v].user, device |-> ver[v].device,
                          answer |-> a]
  <2>1. /\ VerifyView(ver[v]) = [account |-> ver[v].user, device |-> ver[v].device,
                                 answer |-> VerifyAnswer(ver[v])]
        /\ VerifyView(ver[v]) # None
    BY <1>1, ViewFacts
  <2>2. VerifyAnswer(ver[v]) = "none"
    BY <1>1, AnswerFacts
  <2>3. AbsVerification[v] = VerifyView(ver[v])
    BY DEF AbsVerification
  <2>4. VerifyView(k) = [account |-> k.user, device |-> k.device, answer |-> a]
    BY <1>1, <1>3, ViewFacts
  <2>5. QED
    BY <1>3, <2>1, <2>2, <2>3, <2>4
<1>5. AbsVerification' = [AbsVerification EXCEPT ![v].answer = a]
  <2>1. AbsVerification' = [AbsVerification EXCEPT ![v] = VerifyView(k)]
    BY <1>1, <1>3, VerifyViewMoves
  <2>2. VerifyView(k) = [AbsVerification[v] EXCEPT !.answer = a]
    BY <1>4
  <2>3. QED
    BY <2>1, <2>2
<1>6. a \in {"token", "refused"} /\ (a = "token" <=> code = 200)
  BY <1>3, AnswerFacts
<1>7. a = "token" =>
         <<AbsVerification[v].account, AbsVerification[v].device>> \in Proved
  BY <1>4, <1>6
<1>8. /\ AbsLogin' = AbsLogin /\ Safe' = Safe
      /\ Challenged' = Challenged /\ Proved' = Proved
  BY Unseen DEF vars
<1> HIDE DEF a
<1>9. L!AnswerVerification(v, a)
  BY <1>4, <1>5, <1>7, <1>8 DEF L!AnswerVerification, L!Open
<1>10. QED
  BY <1>6, <1>9 DEF L!Next

(* A refusal. *)
LEMMA RefusesVerification ==
    ASSUME AllInv, NEW v \in VerifyReq, ver[v].pc \in {"lookup", "verify"},
           NEW code \in {400, 500}, A!VerReplies(v, code), UNCHANGED vars, login' = login
    PROVE  L!Next
<1>1. /\ code \in {200, 400, 401, 500, 502}
      /\ code = 200 => <<ver[v].user, ver[v].device>> \in Proved
  OBVIOUS
<1>2. QED
  BY <1>1, AnswersVerification

(* An accepted verification has proved its device. *)
LEMMA AcceptedProved ==
    ASSUME AllInv, NEW v \in VerifyReq, Accepted(v)
    PROVE  <<vrf[v].user, vrf[v].device>> \in Proved
BY DEF AllInv, TrustInv, AcceptedCompleted, Proved

(* The steps of a login. *)
LEMMA LoginRefines ==
    ASSUME AllInv, NEW l \in CheckReq, LoginNext(l)
    PROVE  L!Next \/ UNCHANGED L!vars
<1>1. /\ login \in [CheckReq -> A!LoginCoroutine \cup {A!LoginIdle}]
      /\ A!TypeOK /\ TypeOK /\ LoginsLinked /\ ChecksChallenge
  BY DEF AllInv, SysTypeOK, A!TypeOK, LinkInv
<1>2. CASE LoginArrives(l)
  <2>1. PICK e \in Emails, d \in Devices, p \in Passwords :
            A!LoginBegins(l, e, d, p) \/ A!LoginRefused(l, e, d, p)
    BY <1>2 DEF LoginArrives
  <2>2. /\ AbsVerification' = AbsVerification /\ Challenged' = Challenged
        /\ Proved' = Proved
    BY <1>2, <2>1, Unseen
    DEF LoginArrives, MfaUnchanged, vars, A!LoginBegins, A!LoginRefused
  <2>3. login[l] = A!LoginIdle
    <3>1. login[l].pc = "idle"
      BY <2>1 DEF A!LoginBegins, A!LoginRefused
    <3>2. login[l] \notin A!LoginCoroutine
      BY <3>1 DEF A!LoginCoroutine
    <3>3. QED
      BY <1>1, <3>2
  <2>4. AbsLogin[l] = None
    BY <2>3 DEF A!LoginIdle, AbsLogin, LoginView
  <2>5. ASSUME NEW k, login' = [login EXCEPT ![l] = k], k.score = None
        PROVE  Safe' = Safe
    <3>1. \A b \in CheckReq : login'[b].score = login[b].score
      BY <1>1, <2>3, <2>5 DEF A!LoginIdle
    <3>2. QED
      BY <3>1 DEF Safe
  <2>6. CASE A!LoginBegins(l, e, d, p)
    <3>1. PICK u \in Users : login' = [login EXCEPT ![l] =
              [A!LoginIdle EXCEPT !.pc = "risk", !.user = u, !.device = d]]
      BY <2>6 DEF A!LoginBegins, A!Account
    <3> DEFINE k == [A!LoginIdle EXCEPT !.pc = "risk", !.user = u, !.device = d]
    <3>2. k.user = u /\ k.device = d /\ k.reply = NoReply /\ k.score = None
      BY DEF A!LoginIdle, A!NoReply, NoReply
    <3>3. login' = [login EXCEPT ![l] = k]
      BY <3>1
    <3> HIDE DEF k
    <3>4. LoginView(k) = [account |-> u, device |-> d, answer |-> "none"]
      <4>1. LoginView(k) = [account |-> k.user, device |-> k.device,
                            answer |-> LoginAnswer(k)]
        BY <3>2, ViewFacts
      <4>2. LoginAnswer(k) = "none"
        BY <3>2, AnswerFacts
      <4>3. QED
        BY <3>2, <4>1, <4>2
    <3>5. AbsLogin' = [AbsLogin EXCEPT ![l] = LoginView(k)]
      BY <1>1, <3>3, LoginViewMoves
    <3>6. L!StartLogin(l, u, d)
      BY <2>2, <2>4, <2>5, <3>2, <3>3, <3>4, <3>5 DEF L!StartLogin
    <3>7. QED
      BY <3>6 DEF L!Next
  <2>7. CASE A!LoginRefused(l, e, d, p)
    <3>1. PICK code \in {401, 500} : login' = [login EXCEPT ![l] =
              [A!LoginIdle EXCEPT !.pc = "done", !.device = d, !.reply = code]]
      BY <2>7 DEF A!LoginRefused
    <3> DEFINE k == [A!LoginIdle EXCEPT !.pc = "done", !.device = d, !.reply = code]
    <3>2. k.user = None /\ k.score = None
      BY DEF A!LoginIdle
    <3>3. login' = [login EXCEPT ![l] = k]
      BY <3>1
    <3> HIDE DEF k
    <3>4. AbsLogin' = [AbsLogin EXCEPT ![l] = LoginView(k)]
      BY <1>1, <3>3, LoginViewMoves
    <3>5. AbsLogin' = AbsLogin
      <4>1. LoginView(k) = None
        BY <3>2 DEF LoginView
      <4>2. QED
        BY <2>4, <3>4, <4>1 DEF AbsLogin
    <3>6. QED
      BY <2>2, <2>5, <3>2, <3>3, <3>5 DEF L!vars
  <2>8. QED
    BY <2>1, <2>6, <2>7
<1>3. CASE LoginScored(l)
  <2>1. PICK s \in Scores : A!LoginScored(l, s)
    BY <1>3 DEF LoginScored
  <2>2. /\ AbsVerification' = AbsVerification /\ Challenged' = Challenged
        /\ Proved' = Proved
    BY <1>3, <2>1, Unseen DEF LoginScored, MfaUnchanged, vars, A!LoginScored
  <2> DEFINE k == [login[l] EXCEPT !.pc = "check", !.score = s]
  <2>3. login[l] \in A!LoginCoroutine /\ login[l].score = None
        /\ login[l].user \in Users /\ login[l].device \in Devices
        /\ login[l].reply = NoReply /\ s # None
    BY <1>1, <2>1, Started, NoneFacts DEF A!LoginScored, A!LoginCoroutine, LoginsLinked
  <2>4. /\ k.user = login[l].user /\ k.device = login[l].device
        /\ k.reply = login[l].reply /\ k.score = s
    BY <2>3 DEF A!LoginCoroutine
  <2>5. login' = [login EXCEPT ![l] = k]
    BY <2>1 DEF A!LoginScored
  <2> HIDE DEF k
  <2>6. AbsLogin[l] = [account |-> login[l].user, device |-> login[l].device,
                       answer |-> "none"]
        /\ AbsLogin[l] # None /\ LoginView(k) = AbsLogin[l]
    <3>1. /\ LoginView(login[l]) = [account |-> login[l].user,
                                    device |-> login[l].device,
                                    answer |-> LoginAnswer(login[l])]
          /\ LoginView(login[l]) # None
      BY <2>3, ViewFacts
    <3>2. LoginView(k) = [account |-> k.user, device |-> k.device,
                          answer |-> LoginAnswer(k)]
      BY <2>3, <2>4, ViewFacts
    <3>3. LoginAnswer(login[l]) = "none" /\ LoginAnswer(k) = "none"
      BY <2>3, <2>4, AnswerFacts
    <3>4. AbsLogin[l] = LoginView(login[l])
      BY DEF AbsLogin
    <3>5. QED
      BY <2>4, <3>1, <3>2, <3>3, <3>4
  <2>7. AbsLogin' = AbsLogin
    <3>1. AbsLogin' = [AbsLogin EXCEPT ![l] = LoginView(k)]
      BY <1>1, <2>5, LoginViewMoves
    <3>2. QED
      BY <2>6, <3>1 DEF AbsLogin
  <2>8. Safe' = IF s < RISK_THRESHOLD THEN Safe \cup {l} ELSE Safe
    <3>1. login'[l].score = s /\ \A b \in CheckReq : b # l => login'[b] = login[b]
      BY <1>1, <2>4, <2>5
    <3>2. QED
      BY <2>3, <3>1 DEF Safe
  <2>9. CASE s < RISK_THRESHOLD
    BY <2>2, <2>6, <2>7, <2>8, <2>9 DEF L!Next, L!FindSafe, L!Open
  <2>10. CASE ~ (s < RISK_THRESHOLD)
    BY <2>2, <2>7, <2>8, <2>10 DEF L!vars
  <2>11. QED
    BY <2>9, <2>10
<1>4. CASE LoginFails(l)
  <2>1. PICK code \in {500, 502} : A!LoginReplies(l, code)
    BY <1>4 DEF LoginFails, A!LoginFails
  <2>2. login[l].pc \in {"risk", "check"} /\ UNCHANGED vars /\ ver' = ver
    BY <1>4 DEF LoginFails, A!LoginFails, MfaUnchanged
  <2>3. /\ code \in {200, 202, 500, 502}
        /\ code = 200 => \/ login[l].score # None /\ login[l].score < RISK_THRESHOLD
                         \/ <<login[l].user, login[l].device>> \in Proved
        /\ code = 202 => /\ ~ (login[l].score < RISK_THRESHOLD)
                         /\ <<EmailOf[login[l].user], login[l].device>> \in Challenged
    OBVIOUS
  <2>4. L!Next
    BY <2>1, <2>2, <2>3, AnswersLogin, Zenon
  <2>5. QED
    BY <2>4
<1>5. CASE LoginChecked(l)
  <2> DEFINE code == A!LoginCode(chk[l].reply)
  <2>1. /\ code \in {200, 202, 502}
        /\ code = 200 => chk[l].reply = 200
        /\ code = 202 => chk[l].reply = 202
    BY DEF A!LoginCode
  <2>2. /\ login[l].pc = "check" /\ chk[l].pc = "done" /\ UNCHANGED vars /\ ver' = ver
        /\ A!LoginReplies(l, code)
    BY <1>5 DEF LoginChecked, A!LoginChecked, MfaUnchanged
  <2> HIDE DEF code
  <2>3. /\ login[l].score # None /\ login[l].score = chk[l].score
        /\ login[l].user = chk[l].user /\ login[l].device = chk[l].device
        /\ chk[l].score \in Nat
    BY <1>1, <2>2, StartedCheck DEF LoginsLinked, CheckCoroutine
  <2>4. ASSUME code = 200, ~ (login[l].score < RISK_THRESHOLD)
        PROVE  <<login[l].user, login[l].device>> \in Proved
    <3>1. PICK v \in VerifyReq : /\ Granted(v) /\ vrf[v].user = chk[l].user
                                 /\ vrf[v].device = chk[l].device
      BY <2>1, <2>3, <2>4, ScoreAssumption
      DEF ScoreAssumption, AllInv, TrustInv, SkipOnlyWhileTrusted
    <3>2. Accepted(v)
      BY <3>1 DEF Granted, Accepted
    <3>3. QED
      BY <2>3, <3>1, <3>2, AcceptedProved
  <2>5. ASSUME code = 202
        PROVE  /\ ~ (login[l].score < RISK_THRESHOLD)
               /\ <<EmailOf[login[l].user], login[l].device>> \in Challenged
    <3>1. chk[l].otp # None /\ chk[l].score >= RISK_THRESHOLD
      BY <1>1, <2>1, <2>5 DEF ChecksChallenge
    <3>2. QED
      BY <2>3, <3>1, ScoreAssumption DEF ScoreAssumption, Challenged
  <2>6. L!Next
    BY <2>1, <2>2, <2>3, <2>4, <2>5, AnswersLogin
  <2>7. QED
    BY <2>6
<1>6. ASSUME login' = login, ver' = ver, vrf' = vrf, completed' = completed
      PROVE  /\ AbsLogin' = AbsLogin /\ Safe' = Safe
             /\ AbsVerification' = AbsVerification /\ Proved' = Proved
  BY <1>6, Unseen
<1>7. ASSUME \A b \in CheckReq : b # l => chk'[b] = chk[b],
             chk[l].otp # None => chk'[l].user = chk[l].user /\ chk'[l].device = chk[l].device
      PROVE  /\ chk'[l].otp = chk[l].otp => Challenged' = Challenged
             /\ chk'[l].otp # None => Challenged' =
                   Challenged \cup {<<EmailOf[chk'[l].user], chk'[l].device>>}
  BY <1>7 DEF Challenged
<1>8. CASE CheckReceived(l)
  <2>1. /\ CheckArrive(l, login[l].user, login[l].device, login[l].score)
        /\ login' = login /\ ver' = ver
    BY <1>8 DEF CheckReceived, AuthUnchanged, requests
  <2>2. vrf' = vrf /\ completed' = completed
    BY <2>1 DEF CheckArrive
  <2>3. chk[l].otp = None
    BY <1>1, <2>1 DEF CheckArrive, TypeOK, CheckCoroutine, CheckIdle
  <2>4. Challenged' = Challenged
    BY <1>1, <1>7, <2>1, <2>3, CheckArrives
  <2>5. QED
    BY <1>6, <2>1, <2>2, <2>4 DEF L!vars
<1>9. CASE CheckRuns(l)
  <2>1. CheckStep(l) /\ CheckNext(l) /\ login' = login /\ ver' = ver
    BY <1>9 DEF CheckRuns, AuthUnchanged, requests, CheckNext
  <2>2. /\ vrf' = vrf /\ completed' = completed
        /\ \A b \in CheckReq : b # l => chk'[b] = chk[b]
    BY <1>1, <2>1, CheckOthers
  <2>3. /\ chk[l].pc # "idle" /\ chk'[l].user = chk[l].user
        /\ chk'[l].device = chk[l].device
        /\ chk'[l].otp = chk[l].otp \/ CheckChallenge(l)
    BY <1>1, <2>1, CheckRunsOn
  <2>4. CASE chk'[l].otp = chk[l].otp
    BY <1>6, <1>7, <2>1, <2>2, <2>3, <2>4 DEF L!vars
  <2>5. CASE CheckChallenge(l)
    <3>1. chk'[l].otp # None
      <4>1. PICK o \in Otps : chk'[l] = WithOtp(chk[l], o)
        BY <1>1, <2>5 DEF CheckChallenge, TypeOK
      <4>2. o # None
        BY NoneAssumption DEF NoneAssumption
      <4>3. chk[l] \in CheckCoroutine
        BY <1>1, <2>3, StartedCheck
      <4>4. QED
        BY <4>1, <4>2, <4>3, CheckFields
    <3>2. Challenged' = Challenged \cup {<<EmailOf[chk[l].user], chk[l].device>>}
      BY <1>7, <2>2, <2>3, <3>1
    <3>3. /\ login[l].user # None /\ login[l].score = chk[l].score
          /\ login[l].user = chk[l].user /\ login[l].device = chk[l].device
      BY <1>1, <2>3 DEF LoginsLinked
    <3>4. login[l] \in A!LoginCoroutine /\ login[l].user \in Users
          /\ login[l].device \in Devices
      BY <1>1, <3>3 DEF A!LoginCoroutine, A!LoginIdle
    <3>5. /\ AbsLogin[l] = [account |-> login[l].user, device |-> login[l].device,
                            answer |-> LoginAnswer(login[l])]
          /\ AbsLogin[l] # None
      BY <3>4, ViewFacts DEF AbsLogin
    <3>6. AbsLogin[l].account = chk[l].user /\ AbsLogin[l].device = chk[l].device
      BY <3>3, <3>5
    <3>7. l \notin Safe
      <4>1. chk[l].score >= RISK_THRESHOLD /\ chk[l].score \in Nat
        BY <1>1, <2>3, <2>5, StartedCheck DEF CheckChallenge, CheckCoroutine
      <4>2. QED
        BY <3>3, <4>1, ScoreAssumption DEF ScoreAssumption, Safe
    <3>8. L!Challenge(l)
      BY <1>6, <2>1, <2>2, <3>2, <3>5, <3>6, <3>7 DEF L!Challenge
    <3>9. QED
      BY <3>8 DEF L!Next
  <2>6. QED
    BY <2>3, <2>4, <2>5
<1>10. QED
  BY <1>2, <1>3, <1>4, <1>5, <1>8, <1>9 DEF LoginNext

(* The steps of a verification. *)
LEMMA VerificationRefines ==
    ASSUME AllInv, NEW v \in VerifyReq, VerificationNext(v)
    PROVE  L!Next \/ UNCHANGED L!vars
<1>1. /\ ver \in [VerifyReq -> A!VerCoroutine \cup {A!VerIdle}]
      /\ A!TypeOK /\ TypeOK /\ VerificationsLinked /\ CompletedLinked
  BY DEF AllInv, SysTypeOK, A!TypeOK, LinkInv
<1>2. CASE VerificationArrives(v)
  <2>1. PICK e \in Emails, d \in Devices, o \in Otps : A!VerifyLooksUp(v, e, d, o)
    BY <1>2 DEF VerificationArrives
  <2>2. /\ AbsLogin' = AbsLogin /\ Safe' = Safe /\ Challenged' = Challenged
        /\ Proved' = Proved
    BY <1>2, <2>1, Unseen DEF VerificationArrives, MfaUnchanged, vars, A!VerifyLooksUp
  <2>3. ver[v] = A!VerIdle
    <3>1. ver[v].pc = "idle"
      BY <2>1 DEF A!VerifyLooksUp
    <3>2. ver[v] \notin A!VerCoroutine
      BY <3>1 DEF A!VerCoroutine
    <3>3. QED
      BY <1>1, <3>2
  <2>4. AbsVerification[v] = None
    BY <2>3 DEF A!VerIdle, AbsVerification, VerifyView
  <2>5. ASSUME NEW u \in Users, ver' = [ver EXCEPT ![v] =
                   [A!VerIdle EXCEPT !.pc = "lookup", !.user = u, !.device = d, !.otp = o]]
        PROVE  L!Next
    <3> DEFINE k == [A!VerIdle EXCEPT !.pc = "lookup", !.user = u, !.device = d, !.otp = o]
    <3>1. k.user = u /\ k.device = d /\ k.reply = NoReply
      BY DEF A!VerIdle, A!NoReply, NoReply
    <3>2. ver' = [ver EXCEPT ![v] = k]
      BY <2>5
    <3> HIDE DEF k
    <3>3. VerifyView(k) = [account |-> u, device |-> d, answer |-> "none"]
      <4>1. VerifyView(k) = [account |-> k.user, device |-> k.device,
                             answer |-> VerifyAnswer(k)]
        BY <3>1, ViewFacts
      <4>2. VerifyAnswer(k) = "none"
        BY <3>1, AnswerFacts
      <4>3. QED
        BY <3>1, <4>1, <4>2
    <3>4. AbsVerification' = [AbsVerification EXCEPT ![v] = VerifyView(k)]
      BY <1>1, <3>2, VerifyViewMoves
    <3>5. L!StartVerification(v, u, d)
      BY <2>2, <2>4, <3>3, <3>4 DEF L!StartVerification
    <3>6. QED
      BY <3>5 DEF L!Next
  <2>6. ASSUME NEW code, ver' = [ver EXCEPT ![v] =
                   [A!VerIdle EXCEPT !.pc = "done", !.device = d, !.otp = o, !.reply = code]]
        PROVE  UNCHANGED L!vars
    <3> DEFINE k == [A!VerIdle EXCEPT !.pc = "done", !.device = d, !.otp = o, !.reply = code]
    <3>1. k.user = None
      BY DEF A!VerIdle
    <3>2. ver' = [ver EXCEPT ![v] = k]
      BY <2>6
    <3> HIDE DEF k
    <3>3. AbsVerification' = [AbsVerification EXCEPT ![v] = VerifyView(k)]
      BY <1>1, <3>2, VerifyViewMoves
    <3>4. VerifyView(k) = None
      BY <3>1 DEF VerifyView
    <3>5. AbsVerification' = AbsVerification
      BY <2>4, <3>3, <3>4 DEF AbsVerification
    <3>6. QED
      BY <2>2, <3>5 DEF L!vars
  <2> DEFINE Found == \E u \in Users : ver' = [ver EXCEPT ![v] =
                 [A!VerIdle EXCEPT !.pc = "lookup", !.user = u, !.device = d, !.otp = o]]
             Missed == \E code : ver' = [ver EXCEPT ![v] =
                 [A!VerIdle EXCEPT !.pc = "done", !.device = d, !.otp = o, !.reply = code]]
  <2>7. Found \/ Missed
    BY <2>1 DEF A!VerifyLooksUp, A!Account
  <2>8. CASE Found
    BY <2>5, <2>8
  <2>9. CASE Missed
    BY <2>6, <2>9
  <2> HIDE DEF Found, Missed
  <2>10. QED
    BY <2>7, <2>8, <2>9
<1>3. CASE VerificationReads(v)
  <2>1. /\ ver[v].pc = "lookup" /\ UNCHANGED vars /\ login' = login
    BY <1>3 DEF VerificationReads, A!VerifyReads, MfaUnchanged
  <2>2. CASE A!VerReplies(v, 400)
    <3>1. PICK code \in {400, 500} : A!VerReplies(v, code)
      BY <2>2
    <3>2. L!Next
      BY <2>1, <3>1, RefusesVerification
    <3>3. QED
      BY <3>2
  <2>3. ASSUME NEW i, ver' = [ver EXCEPT ![v] = [ver[v] EXCEPT !.pc = "verify", !.event = i]]
        PROVE  UNCHANGED L!vars
    <3>1. ver[v] \in A!VerCoroutine
      BY <1>1, <2>1, Started
    <3> DEFINE k == [ver[v] EXCEPT !.pc = "verify", !.event = i]
    <3>2. k.user = ver[v].user /\ k.device = ver[v].device /\ k.reply = ver[v].reply
      BY <3>1 DEF A!VerCoroutine
    <3>3. ver' = [ver EXCEPT ![v] = k]
      BY <2>3
    <3> HIDE DEF k
    <3>4. AbsVerification' = [AbsVerification EXCEPT ![v] = VerifyView(k)]
      BY <1>1, <3>3, VerifyViewMoves
    <3>5. VerifyView(k) = AbsVerification[v]
      BY <3>2 DEF VerifyView, VerifyAnswer, AbsVerification
    <3>6. AbsVerification' = AbsVerification
      BY <3>4, <3>5 DEF AbsVerification
    <3>7. /\ AbsLogin' = AbsLogin /\ Safe' = Safe /\ Challenged' = Challenged
          /\ Proved' = Proved
      BY <2>1, Unseen DEF vars
    <3>8. QED
      BY <3>6, <3>7 DEF L!vars
  <2>4. QED
    BY <1>3, <2>2, <2>3 DEF VerificationReads, A!VerifyReads
<1>4. CASE VerificationFails(v)
  <2>1. /\ ver[v].pc \in {"lookup", "verify"} /\ UNCHANGED vars /\ login' = login
        /\ \E code \in {400, 500} : A!VerReplies(v, code)
    BY <1>4 DEF VerificationFails, A!VerifyFails, MfaUnchanged
  <2>2. L!Next
    <3>1. PICK code \in {400, 500} : A!VerReplies(v, code)
      BY <2>1
    <3>2. QED
      BY <2>1, <3>1, RefusesVerification
  <2>3. QED
    BY <2>2
<1>5. CASE VerificationAnswered(v)
  <2> DEFINE code == A!VerifyCode(vrf[v].reply)
  <2>1. code \in {200, 400, 401, 500, 502} /\ (code = 200 => vrf[v].reply = 200)
    BY DEF A!VerifyCode
  <2>2. /\ ver[v].pc = "verify" /\ vrf[v].pc = "done" /\ UNCHANGED vars /\ login' = login
        /\ A!VerReplies(v, code)
    BY <1>5 DEF VerificationAnswered, A!VerifyAnswered, MfaUnchanged
  <2> HIDE DEF code
  <2>3. ASSUME code = 200 PROVE <<ver[v].user, ver[v].device>> \in Proved
    <3>1. ver[v].user = vrf[v].user /\ ver[v].device = vrf[v].device
      BY <1>1, <2>2 DEF VerificationsLinked
    <3>2. Accepted(v)
      BY <2>1, <2>3 DEF Accepted
    <3>3. QED
      BY <3>1, <3>2, AcceptedProved
  <2>4. L!Next
    BY <2>1, <2>2, <2>3, AnswersVerification
  <2>5. QED
    BY <2>4
<1>6. ASSUME login' = login, ver' = ver, chk' = chk
      PROVE  /\ AbsLogin' = AbsLogin /\ Safe' = Safe
             /\ AbsVerification' = AbsVerification /\ Challenged' = Challenged
  BY <1>6, Unseen
<1>7. CASE VerificationReceived(v)
  <2>1. /\ vrf[v].pc = "idle" /\ completed' = completed /\ chk' = chk
        /\ login' = login /\ ver' = ver
        /\ \E k : vrf' = [vrf EXCEPT ![v] = k]
    BY <1>7 DEF VerificationReceived, VerifyReceived, AuthUnchanged, requests
  <2>2. \A m \in completed : vrf'[m.by] = vrf[m.by]
    <3>1. ASSUME NEW m \in completed PROVE m.by # v /\ m.by \in VerifyReq
      BY <1>1, <2>1 DEF CompletedLinked, TypeOK, Completion
    <3>2. QED
      BY <1>1, <2>1, <3>1 DEF TypeOK
  <2>3. Proved' = Proved
    BY <2>1, <2>2 DEF Proved
  <2>4. QED
    BY <1>6, <2>1, <2>3 DEF L!vars
<1>8. CASE VerificationRuns(v)
  <2>1. VerifyStep(v) /\ login' = login /\ ver' = ver
    BY <1>8 DEF VerificationRuns, AuthUnchanged, requests
  <2>2. /\ chk' = chk /\ vrf[v].pc # "idle"
        /\ vrf'[v].user = vrf[v].user /\ vrf'[v].device = vrf[v].device
        /\ \A w \in VerifyReq : w # v => vrf'[w] = vrf[w]
    BY <1>1, <2>1, VerifyRunsOn
  <2>3. ASSUME NEW m \in completed
        PROVE  /\ m.by \in VerifyReq
               /\ vrf'[m.by].user = vrf[m.by].user
               /\ vrf'[m.by].device = vrf[m.by].device
    BY <1>1, <2>2 DEF TypeOK, Completion
  <2>4. CASE completed' = completed
    <3>1. Proved' = Proved
      BY <2>3, <2>4 DEF Proved
    <3>2. QED
      BY <1>6, <2>1, <2>2, <3>1 DEF L!vars
  <2>5. CASE VerifyRefuse(v)
    <3>1. {m \in completed' : m.ok} = {m \in completed : m.ok}
      BY <2>5 DEF VerifyRefuse, CompletedWith
    <3>2. Proved' = Proved
      BY <2>3, <3>1 DEF Proved
    <3>3. QED
      BY <1>6, <2>1, <2>2, <3>2 DEF L!vars
  <2>6. CASE VerifyAccept(v)
    <3> DEFINE own == [by |-> v, event |-> vrf[v].event, ok |-> TRUE]
    <3>1. completed' = completed \cup {own} /\ own.by = v /\ own.ok
      BY <2>6 DEF VerifyAccept, CompletedWith
    <3> HIDE DEF own
    <3>2. Proved' = Proved \cup {<<vrf[v].user, vrf[v].device>>}
      BY <2>2, <2>3, <3>1 DEF Proved
    <3>3. /\ ver[v].event # None /\ ver[v].user = vrf[v].user
          /\ ver[v].device = vrf[v].device /\ ver[v].user # None
      BY <1>1, <2>2 DEF VerificationsLinked
    <3>4. ver[v] \in A!VerCoroutine /\ ver[v].user \in Users /\ ver[v].device \in Devices
      BY <1>1, <3>3 DEF A!VerCoroutine, A!VerIdle
    <3>5. /\ AbsVerification[v] = [account |-> ver[v].user, device |-> ver[v].device,
                                   answer |-> VerifyAnswer(ver[v])]
          /\ AbsVerification[v] # None
      BY <3>4, ViewFacts DEF AbsVerification
    <3>6. <<EmailOf[vrf[v].user], vrf[v].device>> \in Challenged
      <4> DEFINE s == vrf[v].stored
      <4>1. /\ s # None /\ s.device = vrf[v].device
            /\ IssuedBy(chk[s.event], s, EmailOf[vrf[v].user])
        BY <2>6 DEF VerifyAccept, Accepts, AllInv, OtpInv, ReadWasIssued
      <4>2. s \in OtpEntry
        BY <1>1, <2>2, <4>1, StartedVerify DEF VerifyCoroutine
      <4>3. s.event \in CheckReq /\ s.otp # None
        BY <4>2, NoneAssumption DEF NoneAssumption, OtpEntry
      <4> HIDE DEF s
      <4>4. QED
        BY <4>1, <4>3 DEF IssuedBy, Challenged
    <3>7. L!Prove(v)
      BY <1>6, <2>1, <2>2, <3>2, <3>3, <3>5, <3>6 DEF L!Prove
    <3>8. QED
      BY <3>7 DEF L!Next
  <2>7. QED
    BY <2>1, <2>4, <2>5, <2>6
    DEF VerifyStep, VerifyLog, VerifyUnbound, VerifyPublishFails, VerifyTrust,
        VerifyCache, VerifyDbFails
<1>9. QED
  BY <1>2, <1>3, <1>4, <1>5, <1>7, <1>8 DEF VerificationNext

-----------------------------------------------------------------------------
(* The system keeps the promise of AdaptiveLogin (RefinesAdaptiveLogin): it  *)
(* starts in an initial state of that specification, and every step is one   *)
(* of its steps or a stutter.                                                *)
THEOREM Refinement == SysSpec => RefinesAdaptiveLogin
<1>1. SysInit => L!Init
  BY DEF SysInit, Init, A!Init, L!Init, A!LoginIdle, A!VerIdle, CheckIdle, AbsLogin,
         LoginView, AbsVerification, VerifyView, Safe, Challenged, Proved
<1>2. AllInv /\ [SysNext]_sysvars => [L!Next]_L!vars
  <2> SUFFICES ASSUME AllInv, [SysNext]_sysvars PROVE L!Next \/ UNCHANGED L!vars
    OBVIOUS
  <2>1. CASE \E l \in CheckReq : LoginNext(l)
    BY <2>1, LoginRefines
  <2>2. CASE \E v \in VerifyReq : VerificationNext(v)
    BY <2>2, VerificationRefines
  <2>3. CASE \/ \E u \in Users : RegistrationArrives(u) \/ RegistrationEnds(u)
             \/ \E c \in ChangeReq : ChangeArrives(c) \/ ChangeEnds(c)
             \/ \E x \in DeleteReq : DeletionNext(x)
             \/ SysTick
             \/ UNCHANGED sysvars
    <3>1. /\ login' = login /\ ver' = ver /\ chk' = chk /\ vrf' = vrf
          /\ completed' = completed
      BY <2>3, OtherLinks DEF AllInv
    <3>2. QED
      BY <3>1, Unseen DEF L!vars
  <2>4. QED
    BY <2>1, <2>2, <2>3 DEF SysNext
<1>3. SysSpec => []AllInv
  <2>1. (SysTypeOK /\ LinkInv) /\ (OtpInv /\ TrustInv) => AllInv
    BY DEF AllInv
  <2>2. SysSpec => [](OtpInv /\ TrustInv)
    BY HandlerInSystem
  <2>3. QED
    BY <2>1, <2>2, Links, PTL
<1>4. QED
  BY <1>1, <1>2, <1>3, PTL DEF SysSpec, L!Spec, RefinesAdaptiveLogin
===============================================================================
