--------------------------- MODULE RiskEngineProofs ----------------------------
(* Proofs about RiskEngine, for every set of events, emails and logins, every  *)
(* number of coroutines and every number of failures, deletions and restarts.  *)
EXTENDS RiskEngine, FiniteSetTheorems, FunctionTheorems, TLAPS

-----------------------------------------------------------------------------
(* The inductive invariant *)

Over == {"stored", "done", "failed"}

Api(e) == task[<<e, "api">>]
Mq(e)  == task[<<e, "mq">>]

\* the event is on its way to the consumer, or has been there
Announced(e) == e \in mq \/ Mq(e).pc # "idle"

\* what login_user and the two coroutines of an event have to do with each other
FlowInv ==
    \A e \in Events :
        /\ login[e] = None => flow[e] = "new"
        /\ flow[e] = "new" => Api(e).pc = "idle"
        /\ flow[e] = "check" => Api(e).pc = "done"
        /\ Announced(e) => flow[e] = "over" /\ Api(e).pc \in {"idle", "done", "failed"}
        /\ e \in mq => Mq(e).pc = "idle"

\* A password is logged once the API's coroutine has answered with a score that
\* asks for one; its rows may be deleted, the password stays what it is.
OtpInv ==
    \A e \in Events :
        /\ otpLogs[e] # NoLogs => otp[e] # "none"
        /\ otp[e] # "none" => /\ flow[e] = "over" /\ Api(e).pc = "done"
                             /\ Api(e).score >= RISK_THRESHOLD

UnverifiedHasOtp == \A e \in tot_unverified : otp[e] # "none"

\* a coroutine that was about to store x had the score n
Scored(x, n) == \E s \in Source : task[<<x, s>>].pc \in Over /\ task[<<x, s>>].score = n

\* what is stored of an attempt is what was calculated for it
StoredInv == \A r \in attempts : Scored(r.event, r.score)

StartedInv == IsFiniteSet({x \in Events : login[x] # None})

\* what holds of the state of a coroutine, whoever started it
TaskSound(k) ==
    /\ k.pc \in {"commit", "stored"} => k.stage = "seen"
    /\ k.pc \in Running /\ k.stage = "seen" => k.score <= 100
    /\ k.pc \in {"ask", "answer"} => k.asked # None
    /\ k.pc = "answer" /\ ~ k.answer => otp[k.asked] # "none"

\* another attempt of the email; with the right password, from the same place
Related(e, x)   == x # e /\ login[x] # None /\ login[x].email = login[e].email
Shares(e, x, f) == f \in Factors => login[x].ok /\ login[x][f] = login[e][f]

\* V: the attempts that are remembered as verified
Vouched(e, f, V) == \E x \in V : Related(e, x) /\ Shares(e, x, f)
Repeated(e, V)   == \E x \in V : Related(e, x) /\ Scored(x, 100)

\* The score that the API's coroutine has reached: what the stages have not
\* added, some attempt has vouched for.
Floor(e, k, V) ==
    /\ k.stage = "agent" => Vouched(e, "ip", V) \/ k.score >= 30
    /\ k.stage \in {"country", "region", "streak"} =>
          Vouched(e, "ip", V) \/ Vouched(e, "agent", V) \/ k.score >= 50
    /\ k.stage = "seen" =>
          \/ Repeated(e, V) \/ Vouched(e, "ip", V) \/ Vouched(e, "agent", V)
          \/ k.score >= 50

\* What the API's coroutine works on are other attempts of the email.
RowsSound(e, k) ==
    \A r \in k.rows : /\ Related(e, r.event) /\ Shares(e, r.event, k.stage)
                      /\ Scored(r.event, r.score)
AskedSound(e, k) ==
    k.asked # None => /\ Related(e, k.asked) /\ Shares(e, k.asked, k.stage)
                      /\ k.stage = "last" => Scored(k.asked, 100)
ListedSound(e, k, V) ==
    \A x \in k.listed : /\ Related(e, x) /\ Shares(e, x, k.stage)
                        /\ k.stage \in Factors => x \in V
ApiSound(e, k, V) ==
    k.pc \in Running =>
        RowsSound(e, k) /\ AskedSound(e, k) /\ ListedSound(e, k, V) /\ Floor(e, k, V)

RiskInv ==
    /\ TypeOK
    /\ FlowInv
    /\ StoredInv
    /\ StartedInv
    /\ OtpInv
    /\ UnverifiedHasOtp
    /\ \A t \in Task : TaskSound(task[t])
    /\ \A e \in Events : ApiSound(e, Api(e), tot_verified)

-----------------------------------------------------------------------------
(* The stages and what they add *)

\* the next stage is the first later one that login l needs a query for
LEMMA StageAfterLeast ==
    ASSUME NEW l \in LoginEvent(Emails, Values), NEW s \in Stage, s # "seen"
    PROVE  LET q == StageAfter(l, s)
           IN /\ q \in Stage /\ Place[q] > Place[s] /\ Queries(l, q)
              /\ \A p \in Stage : Place[p] > Place[s] /\ Queries(l, p)
                                    => Place[q] <= Place[p]
<1> DEFINE Later(q) == Place[q] > Place[s] /\ Queries(l, q)
           Is(q) == Later(q) /\ \A p \in Stage : Later(p) => Place[q] <= Place[p]
<1>1. /\ Queries(l, "ip") /\ Queries(l, "agent")
      /\ Queries(l, "streak") /\ Queries(l, "seen")
  BY DEF Queries
<1>2. \E q \in Stage : Is(q)
  <2>1. CASE s = "last"
    <3>1. CASE Queries(l, "first")
      BY <2>1, <3>1 DEF Stage, Factors, Place
    <3>2. CASE ~ Queries(l, "first")
      BY <2>1, <3>2, <1>1 DEF Stage, Factors, Place
    <3>3. QED
      BY <3>1, <3>2
  <2>2. CASE s \in {"first", "ip", "region", "streak"}
    BY <2>2, <1>1 DEF Stage, Factors, Place
  <2>3. CASE s \in {"agent", "country"}
    <3>1. CASE s = "agent" /\ Queries(l, "country")
      BY <3>1 DEF Stage, Factors, Place
    <3>2. CASE ~ (s = "agent" /\ Queries(l, "country")) /\ Queries(l, "region")
      BY <2>3, <3>2 DEF Stage, Factors, Place
    <3>3. CASE ~ (s = "agent" /\ Queries(l, "country")) /\ ~ Queries(l, "region")
      BY <2>3, <3>3, <1>1 DEF Stage, Factors, Place
    <3>4. QED
      BY <3>1, <3>2, <3>3
  <2>4. QED
    BY <2>1, <2>2, <2>3 DEF Stage, Factors
<1>3. StageAfter(l, s) \in Stage /\ Is(StageAfter(l, s))
  BY <1>2 DEF StageAfter
<1>4. QED
  BY <1>3

LEMMA NextStage ==
    ASSUME NEW l \in LoginEvent(Emails, Values), NEW s \in Stage, s # "seen"
    PROVE  /\ StageAfter(l, s) \in Stage
           /\ s = "last" => StageAfter(l, s) \in {"first", "ip"}
           /\ s = "first" => StageAfter(l, s) = "ip"
           /\ s = "ip" => StageAfter(l, s) = "agent"
           /\ s \in {"agent", "country", "region"} =>
                 StageAfter(l, s) \in {"country", "region", "streak"}
           /\ s = "streak" => StageAfter(l, s) = "seen"
<1> DEFINE Later(q) == Place[q] > Place[s] /\ Queries(l, q)
           Is(q) == Later(q) /\ \A p \in Stage : Later(p) => Place[q] <= Place[p]
<1>1. /\ Queries(l, "ip") /\ Queries(l, "agent")
      /\ Queries(l, "streak") /\ Queries(l, "seen")
  BY DEF Queries
<1>2. StageAfter(l, s) \in Stage /\ Is(StageAfter(l, s))
  BY StageAfterLeast
<1> DEFINE q == StageAfter(l, s)
<1>3. q \in Stage /\ Place[q] > Place[s]
  BY <1>2
<1>4. \A p \in Stage : Later(p) => Place[q] <= Place[p]
  BY <1>2
<1>5. /\ Place["ip"] > Place[s] => Place[q] <= Place["ip"]
      /\ Place["agent"] > Place[s] => Place[q] <= Place["agent"]
      /\ Place["streak"] > Place[s] => Place[q] <= Place["streak"]
  BY <1>1, <1>4 DEF Stage, Factors
<1> HIDE DEF q
<1>6. /\ q \in Stage
      /\ s = "last" => q \in {"first", "ip"}
      /\ s = "first" => q = "ip"
      /\ s = "ip" => q = "agent"
      /\ s \in {"agent", "country", "region"} => q \in {"country", "region", "streak"}
      /\ s = "streak" => q = "seen"
  BY <1>3, <1>5 DEF Stage, Factors, Place
<1>7. QED
  BY <1>6 DEF q

LEMMA Risks ==
    ASSUME NEW s \in Stage, NEW listed
    PROVE  /\ Gain(s, listed) \in Nat
           /\ s = "ip" /\ listed = {} => Gain(s, listed) = 30
           /\ s = "agent" /\ listed = {} => Gain(s, listed) = 20
BY DEF Gain, Points, Stage, Factors

LEMMA StaticRiskType ==
    ASSUME NEW l
    PROVE  StaticRisk(l) \in Nat
<1>1. /\ Points("country") \in Nat
      /\ Points("region") \in Nat
  BY DEF Points
<1>2. QED
  BY <1>1 DEF StaticRisk

LEMMA Cap ==
    ASSUME NEW n \in Nat
    PROVE  /\ Capped(n) \in Nat /\ Capped(n) <= 100
           /\ n >= 50 => Capped(n) >= 50
BY DEF Capped

-----------------------------------------------------------------------------
(* What the invariant says of the events *)

\* an event that a coroutine has been started for belongs to a login
LEMMA StartedTask ==
    ASSUME RiskInv, NEW e \in Events, NEW s \in Source, task[<<e, s>>].pc # "idle"
    PROVE  login[e] # None /\ login[e] \in LoginEvent(Emails, Values)
<1>1. flow[e] # "new"
  BY DEF RiskInv, FlowInv, Announced, Api, Mq, Source
<1>2. login[e] # None
  BY <1>1 DEF RiskInv, FlowInv
<1>3. QED
  BY <1>2, LoginAssumption DEF RiskInv, TypeOK

LEMMA StoredStarted ==
    ASSUME RiskInv, NEW r \in attempts
    PROVE  r.event \in Events /\ login[r.event] # None /\ Scored(r.event, r.score)
<1>1. r.event \in Events /\ Scored(r.event, r.score)
  BY DEF RiskInv, TypeOK, StoredInv, Attempt
<1>2. PICK s \in Source : task[<<r.event, s>>].pc \in Over
  BY <1>1 DEF Scored
<1>3. QED
  BY <1>1, <1>2, StartedTask DEF Over

\* the API's coroutine finds no attempt of its own event
LEMMA NoneOfItsOwn ==
    ASSUME RiskInv, NEW e \in Events, Api(e).pc \in Running \ {"stored"},
           NEW r \in attempts
    PROVE  r.event # e
<1> SUFFICES ASSUME r.event = e PROVE FALSE
  OBVIOUS
<1>1. PICK s \in Source : task[<<e, s>>].pc \in Over
  BY StoredStarted DEF Scored
<1>2. s = "mq"
  BY <1>1 DEF Source, Over, Running, Waiting, Api
<1>3. Announced(e)
  BY <1>1, <1>2 DEF Announced, Mq, Over
<1>4. Api(e).pc \in {"idle", "done", "failed"}
  BY <1>3 DEF RiskInv, FlowInv
<1>5. QED
  BY <1>4 DEF Running, Waiting

-----------------------------------------------------------------------------
(* What most steps keep *)

\* logins stay what they are, what is remembered as verified stays so, and a
\* score that was calculated does
Kept ==
    /\ \A x \in Events : login[x] # None => login'[x] = login[x]
    /\ tot_verified \subseteq tot_verified'
    /\ \A t \in Task : task[t].pc \in Over =>
                          task'[t].pc \in Over /\ task'[t].score = task[t].score

OtpKept == \A x \in Events : otp[x] # "none" => otp'[x] # "none"

LEMMA ScoredKept ==
    ASSUME Kept, NEW x \in Events, NEW n, Scored(x, n)
    PROVE  Scored(x, n)'
<1>1. PICK s \in Source : task[<<x, s>>].pc \in Over /\ task[<<x, s>>].score = n
  BY DEF Scored
<1>2. <<x, s>> \in Task
  BY DEF Task
<1>3. task'[<<x, s>>].pc \in Over /\ task'[<<x, s>>].score = n
  BY <1>1, <1>2 DEF Kept
<1>4. QED
  BY <1>3 DEF Scored

LEMMA RelatedKept ==
    ASSUME Kept, NEW e \in Events, login[e] # None, NEW x \in Events, Related(e, x)
    PROVE  /\ Related(e, x)'
           /\ \A f : Shares(e, x, f) => Shares(e, x, f)'
<1>1. login'[e] = login[e] /\ login'[x] = login[x]
  BY DEF Kept, Related
<1>2. QED
  BY <1>1 DEF Related, Shares

LEMMA VouchedKept ==
    ASSUME Kept, NEW e \in Events, login[e] # None, NEW V \in SUBSET Events
    PROVE  /\ \A f : Vouched(e, f, V) => Vouched(e, f, V)'
           /\ Repeated(e, V) => Repeated(e, V)'
<1>1. ASSUME NEW f, Vouched(e, f, V) PROVE Vouched(e, f, V)'
  <2>1. PICK x \in V : Related(e, x) /\ Shares(e, x, f)
    BY <1>1 DEF Vouched
  <2>2. Related(e, x)' /\ Shares(e, x, f)'
    BY <2>1, RelatedKept
  <2>3. QED
    BY <2>2 DEF Vouched
<1>2. ASSUME Repeated(e, V) PROVE Repeated(e, V)'
  <2>1. PICK x \in V : Related(e, x) /\ Scored(x, 100)
    BY <1>2 DEF Repeated
  <2>2. Related(e, x)' /\ Scored(x, 100)'
    BY <2>1, RelatedKept, ScoredKept
  <2>3. QED
    BY <2>2 DEF Repeated
<1>3. QED
  BY <1>1, <1>2

LEMMA FloorKept ==
    ASSUME Kept, NEW e \in Events, login[e] # None, NEW V \in SUBSET Events,
           NEW k, Floor(e, k, V)
    PROVE  Floor(e, k, V)'
<1>1. /\ \A f : Vouched(e, f, V) => Vouched(e, f, V)'
      /\ Repeated(e, V) => Repeated(e, V)'
  BY VouchedKept
<1>2. QED
  BY <1>1 DEF Floor

LEMMA ApiSoundKept ==
    ASSUME Kept, NEW e \in Events, login[e] # None, NEW V \in SUBSET Events,
           NEW k \in Coroutine, ApiSound(e, k, V)
    PROVE  ApiSound(e, k, V)'
<1> SUFFICES ASSUME k.pc \in Running
             PROVE  /\ RowsSound(e, k)' /\ AskedSound(e, k)'
                    /\ ListedSound(e, k, V)' /\ Floor(e, k, V)'
  BY DEF ApiSound
<1>1. RowsSound(e, k)'
  <2>1. SUFFICES ASSUME NEW r \in k.rows
                 PROVE  /\ Related(e, r.event)' /\ Shares(e, r.event, k.stage)'
                        /\ Scored(r.event, r.score)'
    BY DEF RowsSound
  <2>2. /\ r.event \in Events
        /\ Related(e, r.event) /\ Shares(e, r.event, k.stage)
        /\ Scored(r.event, r.score)
    BY DEF Coroutine, Attempt, ApiSound, RowsSound
  <2>3. QED
    BY <2>2, RelatedKept, ScoredKept
<1>2. AskedSound(e, k)'
  <2>1. SUFFICES ASSUME k.asked # None
                 PROVE  /\ Related(e, k.asked)' /\ Shares(e, k.asked, k.stage)'
                        /\ k.stage = "last" => Scored(k.asked, 100)'
    BY DEF AskedSound
  <2>2. /\ k.asked \in Events
        /\ Related(e, k.asked) /\ Shares(e, k.asked, k.stage)
        /\ k.stage = "last" => Scored(k.asked, 100)
    BY <2>1 DEF Coroutine, ApiSound, AskedSound
  <2>3. Related(e, k.asked)' /\ Shares(e, k.asked, k.stage)'
    BY <2>2, RelatedKept
  <2>4. k.stage = "last" => Scored(k.asked, 100)'
    BY <2>2, ScoredKept
  <2>5. QED
    BY <2>3, <2>4
<1>3. ListedSound(e, k, V)'
  <2>1. SUFFICES ASSUME NEW x \in k.listed
                 PROVE  /\ Related(e, x)' /\ Shares(e, x, k.stage)'
                        /\ k.stage \in Factors => x \in V
    BY DEF ListedSound
  <2>2. /\ x \in Events
        /\ Related(e, x) /\ Shares(e, x, k.stage)
        /\ k.stage \in Factors => x \in V
    BY DEF Coroutine, ApiSound, ListedSound
  <2>3. QED
    BY <2>2, RelatedKept
<1>4. Floor(e, k, V)'
  BY FloorKept DEF ApiSound
<1>5. QED
  BY <1>1, <1>2, <1>3, <1>4

\* what vouches for a login still does when more is remembered
LEMMA ApiSoundGrows ==
    ASSUME NEW e, NEW k, NEW V, NEW W, V \subseteq W, ApiSound(e, k, V)
    PROVE  ApiSound(e, k, W)
<1>1. /\ \A f : Vouched(e, f, V) => Vouched(e, f, W)
      /\ Repeated(e, V) => Repeated(e, W)
  BY DEF Vouched, Repeated
<1>2. Floor(e, k, V) => Floor(e, k, W)
  BY <1>1 DEF Floor
<1>3. ListedSound(e, k, V) => ListedSound(e, k, W)
  BY DEF ListedSound
<1>4. QED
  BY <1>2, <1>3 DEF ApiSound

LEMMA TaskSoundKept ==
    ASSUME OtpKept, NEW k \in Coroutine, TaskSound(k)
    PROVE  TaskSound(k)'
BY DEF OtpKept, TaskSound, Coroutine

LEMMA OtherTaskSound ==
    ASSUME RiskInv, OtpKept, NEW t \in Task, task'[t] = task[t]
    PROVE  TaskSound(task[t])'
<1>1. PICK k \in Coroutine : k = task[t]
  BY DEF RiskInv, TypeOK
<1>2. TaskSound(k)
  BY <1>1 DEF RiskInv
<1>3. TaskSound(k)'
  BY <1>2, TaskSoundKept
<1>4. QED
  BY <1>1, <1>3

LEMMA OtherApiSound ==
    ASSUME RiskInv, TypeOK', Kept, NEW e \in Events, Api(e)' = Api(e)
    PROVE  ApiSound(e, Api(e), tot_verified)'
<1>1. CASE Api(e).pc \notin Running
  BY <1>1 DEF ApiSound
<1>2. CASE Api(e).pc \in Running
  <2>1. PICK k \in Coroutine : k = Api(e)
    BY DEF RiskInv, TypeOK, Api, Task, Source
  <2>2. PICK V \in SUBSET Events : V = tot_verified'
    BY DEF TypeOK
  <2>3. login[e] # None
    BY <1>2, StartedTask DEF Api, Source, Running, Waiting
  <2>4. ApiSound(e, k, tot_verified)
    BY <2>1 DEF RiskInv
  <2>5. ApiSound(e, k, V)
    BY <2>2, <2>4, ApiSoundGrows DEF Kept
  <2>6. ApiSound(e, k, V)'
    BY <2>3, <2>5, ApiSoundKept
  <2>7. QED
    BY <2>1, <2>2, <2>6
<1>3. QED
  BY <1>1, <1>2

-----------------------------------------------------------------------------
(* A step of a coroutine: it leaves the state k, and with it the lists and   *)
(* the table; the flow of the login goes on when the coroutine is over       *)

FlowOfStep(t, k) ==
    \/ flow' = flow
    \/ /\ t[2] = "api" /\ flow[t[1]] = "predict"
       /\ \/ k.pc = "done" /\ flow' = [flow EXCEPT ![t[1]] = "check"]
          \/ k.pc = "failed" /\ flow' = [flow EXCEPT ![t[1]] = "over"]

\* the row of the step's own event is the only one that it may add
TableOfStep(t, k) ==
    \A r \in attempts' :
        \/ r \in attempts
        \/ r \in Attempt /\ r.event = t[1] /\ k.pc \in Over /\ r.score = k.score

ListsOfStep ==
    /\ tot_verified \subseteq tot_verified' /\ tot_verified' \subseteq Events
    /\ tot_unverified' \subseteq Events
    /\ \A x \in tot_unverified' : otp[x] # "none"

LEMMA CoroutineStep ==
    ASSUME RiskInv, NEW t \in Task, NEW k \in Coroutine,
           Moves(t, k), UNCHANGED auth \/ UNCHANGED <<login, stamp, mq, otp, otpLogs>>,
           task[t].pc \in Running, k.pc # "idle",
           task[t].pc = "stored" => k.pc \in Over /\ k.score = task[t].score,
           FlowOfStep(t, k), TableOfStep(t, k), ListsOfStep, faults' \in Nat,
           TaskSound(k),
           t[2] = "api" => ApiSound(t[1], k, tot_verified')
    PROVE  RiskInv'
<1> DEFINE e == t[1]
           s == t[2]
<1>1. e \in Events /\ s \in Source /\ t = <<e, s>>
  BY DEF Task
<1> HIDE DEF e, s
<1>2. UNCHANGED <<login, stamp, mq, otp, otpLogs>>
  BY DEF auth
<1>3. /\ task'[t] = k
      /\ \A u \in Task : u # t => task'[u] = task[u]
  BY DEF Moves, RiskInv, TypeOK
<1>4. \A x \in Events : \/ flow'[x] = flow[x]
                        \/ /\ flow[x] = "predict" /\ t = <<x, "api">>
                           /\ \/ k.pc = "done" /\ flow'[x] = "check"
                              \/ k.pc = "failed" /\ flow'[x] = "over"
  BY <1>1 DEF FlowOfStep, RiskInv, TypeOK, e, s
<1>5. TypeOK'
  <2>1. task' \in [Task -> Coroutine]
    BY DEF Moves, RiskInv, TypeOK
  <2>2. attempts' \subseteq Attempt
    BY DEF TableOfStep, RiskInv, TypeOK
  <2>3. flow' \in [Events -> {"new", "predict", "check", "over"}]
    BY <1>1 DEF FlowOfStep, RiskInv, TypeOK, e, s
  <2>4. QED
    BY <1>2, <2>1, <2>2, <2>3 DEF RiskInv, TypeOK, ListsOfStep
<1>6. Kept
  <2>1. \A u \in Task : task[u].pc \in Over =>
                           task'[u].pc \in Over /\ task'[u].score = task[u].score
    BY <1>3 DEF Over, Running, Waiting
  <2>2. QED
    BY <1>2, <2>1 DEF Kept, ListsOfStep
<1>7. OtpKept
  BY <1>2 DEF OtpKept
<1>8. FlowInv'
  <2>1. SUFFICES ASSUME NEW x \in Events
                 PROVE  /\ login'[x] = None => flow'[x] = "new"
                        /\ flow'[x] = "new" => Api(x)'.pc = "idle"
                        /\ flow'[x] = "check" => Api(x)'.pc = "done"
                        /\ Announced(x)' => /\ flow'[x] = "over"
                                            /\ Api(x)'.pc \in {"idle", "done", "failed"}
                        /\ x \in mq' => Mq(x)'.pc = "idle"
    BY DEF FlowInv
  <2>2. /\ login[x] = None => flow[x] = "new"
        /\ flow[x] = "new" => Api(x).pc = "idle"
        /\ flow[x] = "check" => Api(x).pc = "done"
        /\ Announced(x) => flow[x] = "over" /\ Api(x).pc \in {"idle", "done", "failed"}
        /\ x \in mq => Mq(x).pc = "idle"
    BY DEF RiskInv, FlowInv
  <2>3. /\ t # <<x, "api">> => Api(x)' = Api(x)
        /\ t # <<x, "mq">> => Mq(x)' = Mq(x)
        /\ t = <<x, "api">> => Api(x).pc \in Running /\ Api(x)' = k
        /\ t = <<x, "mq">> => Mq(x).pc \in Running
    BY <1>3 DEF Api, Mq, Task, Source
  <2>4. Announced(x)' => Announced(x)
    BY <1>2, <2>3 DEF Announced, Running, Waiting
  <2>5. login'[x] = login[x] /\ (x \in mq' <=> x \in mq)
    BY <1>2
  <2>6. flow'[x] \in {"new", "check"} =>
           flow'[x] = flow[x] \/ (t = <<x, "api">> /\ k.pc = "done" /\ flow'[x] = "check")
    BY <1>4
  <2>7. Announced(x)' => flow'[x] = "over" /\ Api(x)' = Api(x)
    BY <1>4, <2>2, <2>3, <2>4 DEF Running, Waiting
  <2>8. QED
    BY <1>4, <2>2, <2>3, <2>4, <2>5, <2>6, <2>7 DEF Running, Waiting
<1>9. StoredInv'
  <2>1. SUFFICES ASSUME NEW r \in attempts'
                 PROVE  Scored(r.event, r.score)'
    BY DEF StoredInv
  <2>2. CASE r \in attempts
    BY <2>2, <1>6, StoredStarted, ScoredKept
  <2>3. CASE r.event = t[1] /\ k.pc \in Over /\ r.score = k.score
    BY <2>3, <1>1, <1>3 DEF Scored, e, s
  <2>4. QED
    BY <2>2, <2>3 DEF TableOfStep
<1>10. StartedInv'
  BY <1>2 DEF RiskInv, StartedInv
<1>11. UnverifiedHasOtp' /\ OtpInv'
  <2>1. ASSUME NEW x \in Events, flow[x] = "over", Api(x).pc = "done"
        PROVE  flow'[x] = "over" /\ Api(x)' = Api(x)
    BY <1>3, <1>4, <2>1 DEF Api, Task, Source, Running, Waiting
  <2>2. OtpInv'
    BY <1>2, <2>1 DEF RiskInv, OtpInv
  <2>3. QED
    BY <1>2, <2>2 DEF ListsOfStep, UnverifiedHasOtp
<1>12. \A u \in Task : TaskSound(task[u])'
  <2>1. TaskSound(k)'
    BY <1>7, TaskSoundKept
  <2>2. \A u \in Task : u # t => TaskSound(task[u])'
    BY <1>3, <1>7, OtherTaskSound
  <2>3. QED
    BY <1>3, <2>1, <2>2
<1>13. \A x \in Events : ApiSound(x, Api(x), tot_verified)'
  <2>1. ASSUME NEW x \in Events, t # <<x, "api">>
        PROVE  ApiSound(x, Api(x), tot_verified)'
    <3>1. Api(x)' = Api(x)
      BY <1>3, <2>1 DEF Api, Task, Source
    <3>2. QED
      BY <3>1, <1>5, <1>6, OtherApiSound
  <2>2. ASSUME NEW x \in Events, t = <<x, "api">>
        PROVE  ApiSound(x, Api(x), tot_verified)'
    <3>1. PICK V \in SUBSET Events : V = tot_verified'
      BY DEF ListsOfStep
    <3>2. login[x] # None
      BY <2>2, StartedTask DEF Source, Running, Waiting
    <3>3. ApiSound(x, k, V)
      BY <2>2, <3>1
    <3>4. ApiSound(x, k, V)'
      BY <1>6, <3>2, <3>3, ApiSoundKept
    <3>5. Api(x)' = k
      BY <1>3, <2>2 DEF Api
    <3>6. QED
      BY <3>1, <3>4, <3>5
  <2>3. QED
    BY <2>1, <2>2
<1>14. QED
  BY <1>5, <1>8, <1>9, <1>10, <1>11, <1>12, <1>13 DEF RiskInv

(* What the lemmas about the steps start from. *)
LEMMA TaskState ==
    ASSUME RiskInv, NEW t \in Task
    PROVE  /\ t[1] \in Events /\ t[2] \in Source /\ t = <<t[1], t[2]>>
           /\ task[t] \in Coroutine /\ TaskSound(task[t])
           /\ t[2] = "api" => /\ Api(t[1]) = task[t]
                              /\ ApiSound(t[1], task[t], tot_verified)
           /\ task[t].pc # "idle" => login[t[1]] \in LoginEvent(Emails, Values)
<1>1. t[1] \in Events /\ t[2] \in Source /\ t = <<t[1], t[2]>>
  BY DEF Task
<1>2. task[t] \in Coroutine /\ TaskSound(task[t])
  BY DEF RiskInv, TypeOK
<1>3. t[2] = "api" => Api(t[1]) = task[t] /\ ApiSound(t[1], task[t], tot_verified)
  BY <1>1 DEF RiskInv, Api
<1>4. task[t].pc # "idle" => login[t[1]] \in LoginEvent(Emails, Values)
  BY <1>1, StartedTask
<1>5. QED
  BY <1>1, <1>2, <1>3, <1>4

(* A step that changes only the state of the coroutine. *)
LEMMA QuietStep ==
    ASSUME RiskInv, NEW t \in Task, NEW k \in Coroutine,
           Moves(t, k), UNCHANGED <<auth, attempts, lists, faults>>,
           task[t].pc \in Running \ {"stored"}, k.pc \in Running,
           TaskSound(k),
           t[2] = "api" => ApiSound(t[1], k, tot_verified)
    PROVE  RiskInv'
<1>1. ListsOfStep
  BY DEF RiskInv, TypeOK, ListsOfStep, lists, UnverifiedHasOtp
<1>2. TableOfStep(t, k) /\ FlowOfStep(t, k)
  BY DEF TableOfStep, FlowOfStep, auth
<1>3. t[2] = "api" => ApiSound(t[1], k, tot_verified')
  BY DEF lists
<1>4. faults' \in Nat
  BY DEF RiskInv, TypeOK
<1>5. k.pc # "idle" /\ task[t].pc # "stored"
  BY DEF Running, Waiting
<1>6. QED
  BY <1>1, <1>2, <1>3, <1>4, <1>5, CoroutineStep

LEMMA SelectKeeps ==
    ASSUME RiskInv, NEW t \in Task, Select(t)
    PROVE  RiskInv'
<1> DEFINE e == t[1]
           rows == Selected(e, task[t].stage)
<1>1. /\ e \in Events /\ task[t] \in Coroutine /\ TaskSound(task[t])
      /\ t[2] = "api" => Api(e) = task[t] /\ ApiSound(e, task[t], tot_verified)
  BY TaskState
<1>2. task[t].pc = "query" /\ Moves(t, WithRows(task[t], rows))
  BY DEF Select
<1>3. /\ rows \subseteq attempts
      /\ \A r \in rows : \/ r.event = e
                         \/ /\ login[r.event].email = login[e].email
                            /\ Shares(e, r.event, task[t].stage)
  <2>1. CASE task[t].stage = "seen"
    BY <2>1 DEF Selected
  <2>2. CASE task[t].stage \in {"last", "first", "streak"}
    <3>1. rows \subseteq OfEmail(e)
      BY <2>2 DEF Selected, LastThree, Newest
    <3>2. QED
      BY <2>2, <3>1 DEF OfEmail, Shares, Factors
  <2>3. CASE task[t].stage \in Factors
    <3>1. rows = Sharing(e, task[t].stage)
      BY <2>3 DEF Selected, Factors
    <3>2. QED
      BY <3>1 DEF Sharing, OfEmail, Shares
  <2>4. QED
    BY <1>1, <2>1, <2>2, <2>3 DEF Coroutine, Stage
<1> HIDE DEF rows
<1>4. attempts \subseteq Attempt
  BY DEF RiskInv, TypeOK
<1>5. PICK k \in Coroutine : k = WithRows(task[t], rows)
  BY <1>1, <1>3, <1>4 DEF Coroutine, WithRows, Running
<1>6. /\ k.pc = "rows" /\ k.rows = rows /\ k.stage = task[t].stage
      /\ k.asked = task[t].asked /\ k.listed = task[t].listed
      /\ k.score = task[t].score
  BY <1>1, <1>5 DEF Coroutine, WithRows
<1>7. TaskSound(k)
  BY <1>1, <1>2, <1>6 DEF TaskSound, Running, Waiting
<1>8. ASSUME t[2] = "api" PROVE ApiSound(e, k, tot_verified)
  <2>1. RowsSound(e, k)
    <3>1. SUFFICES ASSUME NEW r \in rows
                   PROVE  /\ Related(e, r.event) /\ Shares(e, r.event, task[t].stage)
                          /\ Scored(r.event, r.score)
      BY <1>6 DEF RowsSound
    <3>2. r.event # e
      BY <1>1, <1>2, <1>3, <1>8, NoneOfItsOwn DEF Running, Waiting
    <3>3. login[r.event] # None /\ Scored(r.event, r.score)
      BY <1>3, StoredStarted
    <3>4. QED
      BY <1>3, <3>2, <3>3 DEF Related
  <2>2. /\ AskedSound(e, task[t]) /\ ListedSound(e, task[t], tot_verified)
        /\ Floor(e, task[t], tot_verified)
    BY <1>1, <1>2, <1>8 DEF ApiSound, Running, Waiting
  <2>3. /\ AskedSound(e, k) /\ ListedSound(e, k, tot_verified)
        /\ Floor(e, k, tot_verified)
    BY <1>6, <2>2 DEF AskedSound, ListedSound, Floor
  <2>4. QED
    BY <2>1, <2>3 DEF ApiSound
<1>9. QED
  <2>1. UNCHANGED <<auth, attempts, lists, faults>>
    BY DEF Select
  <2>2. task[t].pc \in Running \ {"stored"} /\ k.pc \in Running
    BY <1>2, <1>6 DEF Running, Waiting
  <2>3. Moves(t, k)
    BY <1>2, <1>5
  <2>4. QED
    BY <1>7, <1>8, <2>1, <2>2, <2>3, QuietStep

LEMMA AnswerKeeps ==
    ASSUME RiskInv, NEW t \in Task, Answer(t)
    PROVE  RiskInv'
<1> DEFINE e == t[1]
           b == VerifySuccess(OtpLogsAnswer(task[t].asked))
<1>1. /\ e \in Events /\ task[t] \in Coroutine /\ TaskSound(task[t])
      /\ t[2] = "api" => Api(e) = task[t] /\ ApiSound(e, task[t], tot_verified)
  BY TaskState
<1>2. task[t].pc = "ask" /\ Moves(t, WithAnswer(task[t], b))
  BY DEF Answer
<1>3. b \in BOOLEAN
  BY DEF VerifySuccess
<1>4. ~ b => otp[task[t].asked] # "none"
  <2>1. ~ b => otpLogs[task[t].asked] # NoLogs
    BY DEF VerifySuccess, OtpLogsAnswer
  <2>2. task[t].asked \in Events
    BY <1>1, <1>2 DEF TaskSound, Coroutine
  <2>3. QED
    BY <2>1, <2>2 DEF RiskInv, OtpInv
<1> HIDE DEF b
<1>5. PICK k \in Coroutine : k = WithAnswer(task[t], b)
  BY <1>1, <1>3 DEF Coroutine, WithAnswer, Running
<1>6. /\ k.pc = "answer" /\ k.answer = b /\ k.rows = task[t].rows
      /\ k.stage = task[t].stage /\ k.score = task[t].score
      /\ k.asked = task[t].asked /\ k.listed = task[t].listed
  BY <1>1, <1>5 DEF Coroutine, WithAnswer
<1>7. TaskSound(k)
  BY <1>1, <1>2, <1>4, <1>6 DEF TaskSound, Running, Waiting
<1>8. t[2] = "api" => ApiSound(e, k, tot_verified)
  BY <1>1, <1>2, <1>6
  DEF ApiSound, RowsSound, AskedSound, ListedSound, Floor, Running, Waiting
<1>9. QED
  <2>1. UNCHANGED <<auth, attempts, lists, faults>>
    BY DEF Answer
  <2>2. task[t].pc \in Running \ {"stored"} /\ k.pc \in Running
    BY <1>2, <1>6 DEF Running, Waiting
  <2>3. Moves(t, k)
    BY <1>2, <1>5
  <2>4. QED
    BY <1>7, <1>8, <2>1, <2>2, <2>3, QuietStep

(* The state before the query of stage s. *)
LEMMA OnToState ==
    ASSUME NEW k0 \in Coroutine, NEW s \in Stage, NEW n \in Nat
    PROVE  LET k == OnTo(k0, s, n)
           IN /\ k \in Coroutine
              /\ k.pc = "query" /\ k.stage = s /\ k.score = n
              /\ k.rows = {} /\ k.asked = None /\ k.listed = {}
BY DEF OnTo, Coroutine, Running, Waiting

(* A step on to a stage with no loop behind it. *)
LEMMA OnToStep ==
    ASSUME RiskInv, NEW t \in Task, NEW s \in Stage, NEW n \in Nat,
           Moves(t, OnTo(task[t], s, n)),
           task[t].pc \in {"rows", "answer"},
           UNCHANGED <<auth, attempts, faults>>, ListsOfStep,
           s = "seen" => n <= 100,
           t[2] = "api" => Floor(t[1], OnTo(task[t], s, n), tot_verified')
    PROVE  RiskInv'
<1>1. task[t] \in Coroutine
  BY TaskState
<1>2. PICK k0 \in Coroutine : k0 = task[t]
  BY <1>1
<1>3. PICK k \in Coroutine : k = OnTo(k0, s, n)
  BY OnToState
<1>4. k.pc = "query"
  BY <1>3, OnToState
<1>5. TaskSound(k)
  <2>1. k.stage = s /\ k.score = n
    BY <1>3, OnToState
  <2>2. QED
    BY <1>4, <2>1 DEF TaskSound
<1>6. t[2] = "api" => ApiSound(t[1], k, tot_verified')
  <2>1. SUFFICES ASSUME t[2] = "api" PROVE ApiSound(t[1], k, tot_verified')
    OBVIOUS
  <2>2. Floor(t[1], k, tot_verified')
    BY <1>2, <1>3, <2>1
  <2>3. k.rows = {} /\ k.asked = None /\ k.listed = {}
    BY <1>3, OnToState
  <2>4. QED
    BY <2>2, <2>3 DEF ApiSound, RowsSound, AskedSound, ListedSound
<1>7. TableOfStep(t, k) /\ FlowOfStep(t, k)
  BY DEF TableOfStep, FlowOfStep, auth
<1>8. faults' \in Nat
  BY DEF RiskInv, TypeOK
<1>9. /\ task[t].pc \in Running /\ task[t].pc # "stored" /\ k.pc # "idle"
      /\ Moves(t, k)
  BY <1>2, <1>3, <1>4 DEF Running, Waiting
<1>10. QED
  BY <1>5, <1>6, <1>7, <1>8, <1>9, CoroutineStep

LEMMA ListsStay ==
    ASSUME RiskInv, UNCHANGED lists
    PROVE  ListsOfStep
BY DEF RiskInv, TypeOK, ListsOfStep, lists, UnverifiedHasOtp

(* What the coroutine notes of an answer that is a failure is about an       *)
(* attempt with a password.                                                  *)
LEMMA ListsRemember ==
    ASSUME RiskInv, NEW t \in Task,
           tot_verified' = VerifiedWith(task[t]),
           tot_unverified' = UnverifiedWith(task[t])
    PROVE  ListsOfStep
<1>1. task[t] \in Coroutine /\ TaskSound(task[t])
  BY TaskState
<1>2. task[t].pc = "answer" => task[t].asked \in Events
  BY <1>1 DEF TaskSound, Coroutine
<1>3. tot_verified \subseteq tot_verified' /\ tot_verified' \subseteq Events
  BY <1>2 DEF VerifiedWith, RiskInv, TypeOK
<1>4. tot_unverified' \subseteq Events
  BY <1>2 DEF UnverifiedWith, RiskInv, TypeOK
<1>5. \A x \in tot_unverified' : otp[x] # "none"
  BY <1>1 DEF UnverifiedWith, RiskInv, UnverifiedHasOtp, TaskSound
<1>6. QED
  BY <1>3, <1>4, <1>5 DEF ListsOfStep

(* The stages up to "ip" have no floor. *)
LEMMA NoFloor ==
    ASSUME NEW k0 \in Coroutine, NEW s \in {"first", "ip"}, NEW n \in Nat, NEW e, NEW V
    PROVE  Floor(e, OnTo(k0, s, n), V)
<1>1. s \in Stage
  BY DEF Stage, Factors
<1>2. OnTo(k0, s, n).stage = s
  BY <1>1, OnToState
<1>3. QED
  BY <1>2 DEF Floor

LEMMA FromLastKeeps ==
    ASSUME RiskInv, NEW t \in Task, NEW s \in {"last", "first"},
           task[t].pc = "rows", FromLast(t, s),
           UNCHANGED <<auth, attempts, lists, faults>>
    PROVE  RiskInv'
<1> DEFINE l == login[t[1]]
           next == StageAfter(l, s)
           n == IF next = "first" THEN 0 ELSE StaticRisk(l)
<1>1. l \in LoginEvent(Emails, Values) /\ task[t] \in Coroutine
  BY TaskState
<1>2. next \in Stage /\ next \in {"first", "ip"}
  BY <1>1, NextStage DEF Stage
<1>3. n \in Nat
  BY StaticRiskType
<1>4. Moves(t, OnTo(task[t], next, n))
  BY DEF FromLast
<1> HIDE DEF next, n
<1>5. Floor(t[1], OnTo(task[t], next, n), tot_verified')
  BY <1>1, <1>2, <1>3, NoFloor
<1>6. ListsOfStep
  BY ListsStay
<1>7. task[t].pc \in {"rows", "answer"} /\ (next = "seen" => n <= 100)
  BY <1>2
<1>8. QED
  BY <1>2, <1>3, <1>4, <1>5, <1>6, <1>7, OnToStep DEF lists

(* The scores 50 and 100 need nobody to vouch for them. *)
LEMMA SeenKeeps ==
    ASSUME RiskInv, NEW t \in Task, NEW n \in {50, 100},
           task[t].pc = "rows", Moves(t, OnTo(task[t], "seen", n)),
           UNCHANGED <<auth, attempts, lists, faults>>
    PROVE  RiskInv'
<1>1. PICK k0 \in Coroutine : k0 = task[t]
  BY TaskState
<1>2. "seen" \in Stage /\ n \in Nat
  BY DEF Stage
<1>3. OnTo(k0, "seen", n).stage = "seen" /\ OnTo(k0, "seen", n).score = n
  BY <1>2, OnToState
<1>4. Floor(t[1], OnTo(task[t], "seen", n), tot_verified')
  BY <1>1, <1>3 DEF Floor
<1>5. ListsOfStep
  BY ListsStay
<1>6. n <= 100 /\ task[t].pc \in {"rows", "answer"}
  OBVIOUS
<1>7. QED
  BY <1>2, <1>4, <1>5, <1>6, OnToStep DEF lists

LEMMA LastPassesKeeps ==
    ASSUME RiskInv, NEW t \in Task, LastPasses(t)
    PROVE  RiskInv'
BY FromLastKeeps DEF LastPasses

LEMMA LastUnverifiedKeeps ==
    ASSUME RiskInv, NEW t \in Task, LastUnverified(t)
    PROVE  RiskInv'
BY SeenKeeps DEF LastUnverified

LEMMA FirstLoginKeeps ==
    ASSUME RiskInv, NEW t \in Task, FirstLogin(t)
    PROVE  RiskInv'
BY SeenKeeps, FromLastKeeps DEF FirstLogin

LEMMA LastAsksKeeps ==
    ASSUME RiskInv, NEW t \in Task, LastAsks(t)
    PROVE  RiskInv'
<1> DEFINE e == t[1]
<1>1. /\ e \in Events /\ task[t] \in Coroutine /\ TaskSound(task[t])
      /\ t[2] = "api" => Api(e) = task[t] /\ ApiSound(e, task[t], tot_verified)
  BY TaskState
<1>2. task[t].pc = "rows" /\ task[t].stage = "last"
  BY DEF LastAsks
<1>3. PICK r \in task[t].rows : r.score = 100 /\ Moves(t, Asks(task[t], r.event, {}, {}))
  BY DEF LastAsks
<1>4. r \in Attempt /\ r.event \in Events /\ r.event # None
  BY <1>1, NoneAssumption DEF Coroutine, Attempt
<1>5. PICK k \in Coroutine : k = Asks(task[t], r.event, {}, {})
  BY <1>1, <1>4 DEF Coroutine, Asks, Running, Waiting
<1>6. /\ k.pc = "ask" /\ k.asked = r.event /\ k.rows = {} /\ k.listed = {}
      /\ k.stage = "last" /\ k.score = task[t].score
  BY <1>1, <1>2, <1>5 DEF Coroutine, Asks
<1>7. TaskSound(k)
  BY <1>4, <1>6 DEF TaskSound
<1>8. ASSUME t[2] = "api" PROVE ApiSound(e, k, tot_verified)
  <2>1. /\ Related(e, r.event) /\ Shares(e, r.event, "last")
        /\ Scored(r.event, 100)
    BY <1>1, <1>2, <1>3, <1>8 DEF ApiSound, RowsSound, Running
  <2>2. QED
    BY <1>6, <2>1 DEF ApiSound, RowsSound, AskedSound, ListedSound, Floor
<1>9. QED
  <2>1. UNCHANGED <<auth, attempts, lists, faults>>
    BY DEF LastAsks
  <2>2. task[t].pc \in Running \ {"stored"} /\ k.pc \in Running
    BY <1>2, <1>6 DEF Running, Waiting
  <2>3. Moves(t, k)
    BY <1>3, <1>5
  <2>4. QED
    BY <1>7, <1>8, <2>1, <2>2, <2>3, QuietStep

LEMMA LastAnsweredKeeps ==
    ASSUME RiskInv, NEW t \in Task, LastAnswered(t)
    PROVE  RiskInv'
<1> DEFINE e == t[1]
           n == IF task[t].answer THEN 0 ELSE 100
<1>1. /\ e \in Events /\ task[t] \in Coroutine /\ TaskSound(task[t])
      /\ t[2] = "api" => ApiSound(e, task[t], tot_verified)
  BY TaskState
<1>2. /\ task[t].pc = "answer" /\ task[t].stage = "last"
      /\ tot_verified' = VerifiedWith(task[t])
      /\ tot_unverified' = UnverifiedWith(task[t])
      /\ Moves(t, OnTo(task[t], "seen", n))
      /\ UNCHANGED <<auth, attempts, faults>>
  BY DEF LastAnswered
<1>3. n \in Nat /\ n <= 100 /\ (~ task[t].answer => n = 100) /\ "seen" \in Stage
  BY DEF Stage
<1> HIDE DEF n
<1>4. ListsOfStep
  BY <1>2, ListsRemember
<1>5. OnTo(task[t], "seen", n).stage = "seen" /\ OnTo(task[t], "seen", n).score = n
  BY <1>1, <1>3, OnToState
<1>6. ASSUME t[2] = "api" PROVE Floor(e, OnTo(task[t], "seen", n), tot_verified')
  <2>1. CASE task[t].answer
    <3>1. task[t].asked \in tot_verified'
      BY <1>2, <2>1 DEF VerifiedWith
    <3>2. Related(e, task[t].asked) /\ Scored(task[t].asked, 100)
      BY <1>1, <1>2, <1>6 DEF TaskSound, ApiSound, AskedSound, Running
    <3>3. QED
      BY <1>5, <3>1, <3>2 DEF Floor, Repeated
  <2>2. CASE ~ task[t].answer
    BY <1>3, <1>5, <2>2 DEF Floor
  <2>3. QED
    BY <2>1, <2>2
<1>7. QED
  BY <1>2, <1>3, <1>4, <1>6, OnToStep

(* What the loop of a stage lists is sound, and of a factor it is remembered. *)
LEMMA ListedAfterSound ==
    ASSUME RiskInv, NEW t \in Task, NEW rows \in SUBSET task[t].rows, t[2] = "api",
           task[t].pc \in {"rows", "answer"}, task[t].stage \in Factors \cup {"streak"},
           tot_verified' = VerifiedWith(task[t]),
           NEW x \in ListedAfter(task[t], rows)
    PROVE  /\ x \in Events
           /\ Related(t[1], x) /\ Shares(t[1], x, task[t].stage)
           /\ task[t].stage \in Factors => x \in tot_verified'
<1> DEFINE e == t[1]
           k == task[t]
<1>1. /\ k \in Coroutine /\ TaskSound(k)
      /\ ApiSound(e, k, tot_verified)
  BY TaskState
<1>2. RowsSound(e, k) /\ AskedSound(e, k) /\ ListedSound(e, k, tot_verified)
  BY <1>1 DEF ApiSound, Running
<1>3. tot_verified \subseteq tot_verified'
  BY DEF VerifiedWith
<1>4. k.stage \in Factors => k.stage # "streak"
  BY DEF Factors
<1>5. CASE x \in k.listed
  BY <1>1, <1>2, <1>3, <1>5 DEF ListedSound, Coroutine
<1>6. CASE x = k.asked /\ k.pc = "answer" /\ k.answer = (k.stage # "streak")
  <2>1. k.asked # None /\ x \in Events
    BY <1>1, <1>6 DEF TaskSound, Coroutine
  <2>2. Related(e, x) /\ Shares(e, x, k.stage)
    BY <1>2, <1>6, <2>1 DEF AskedSound
  <2>3. k.stage \in Factors => x \in tot_verified'
    BY <1>4, <1>6 DEF VerifiedWith
  <2>4. QED
    BY <2>1, <2>2, <2>3
<1>7. CASE \E q \in rows : x = q.event /\ Lists(k.stage, q, VerifiedWith(k), UnverifiedWith(k))
  <2>1. PICK q \in k.rows : x = q.event /\ Lists(k.stage, q, tot_verified', UnverifiedWith(k))
    BY <1>7
  <2>2. x \in Events
    BY <1>1, <2>1 DEF Coroutine, Attempt
  <2>3. Related(e, x) /\ Shares(e, x, k.stage)
    BY <1>2, <2>1 DEF RowsSound
  <2>4. k.stage \in Factors => x \in tot_verified'
    BY <1>4, <2>1 DEF Lists
  <2>5. QED
    BY <2>2, <2>3, <2>4
<1>8. QED
  BY <1>5, <1>6, <1>7 DEF ListedAfter, ListedWith

(* Whoever started the coroutine, it lists events. *)
LEMMA ListedAfterType ==
    ASSUME RiskInv, NEW t \in Task, NEW rows \in SUBSET task[t].rows
    PROVE  ListedAfter(task[t], rows) \subseteq Events
<1>1. task[t] \in Coroutine /\ TaskSound(task[t])
  BY TaskState
<1>2. ListedWith(task[t]) \subseteq Events
  BY <1>1 DEF ListedWith, TaskSound, Coroutine
<1>3. \A q \in rows : q.event \in Events
  BY <1>1 DEF Coroutine, Attempt
<1>4. QED
  BY <1>2, <1>3 DEF ListedAfter

LEMMA LoopAsksKeeps ==
    ASSUME RiskInv, NEW t \in Task, LoopAsks(t)
    PROVE  RiskInv'
<1> DEFINE e == t[1]
<1>1. /\ e \in Events /\ task[t] \in Coroutine /\ TaskSound(task[t])
      /\ t[2] = "api" => ApiSound(e, task[t], tot_verified)
  BY TaskState
<1>2. /\ task[t].pc \in {"rows", "answer"}
      /\ task[t].stage \in Factors \cup {"streak"}
      /\ tot_verified' = VerifiedWith(task[t])
      /\ tot_unverified' = UnverifiedWith(task[t])
      /\ UNCHANGED <<auth, attempts, faults>>
  BY DEF LoopAsks
<1>3. PICK r \in task[t].rows, left \in SUBSET task[t].rows :
         Moves(t, Asks(task[t], r.event, left,
                       ListedAfter(task[t], task[t].rows \ (left \cup {r}))))
  BY DEF LoopAsks
<1> DEFINE rows   == task[t].rows \ (left \cup {r})
           listed == ListedAfter(task[t], rows)
<1>4. rows \in SUBSET task[t].rows
  OBVIOUS
<1> HIDE DEF rows
<1>5. listed \subseteq Events
  BY <1>4, ListedAfterType
<1>6. ASSUME t[2] = "api", NEW x \in listed
      PROVE  /\ Related(e, x) /\ Shares(e, x, task[t].stage)
             /\ task[t].stage \in Factors => x \in tot_verified'
  BY <1>2, <1>4, <1>6, ListedAfterSound
<1>7. Moves(t, Asks(task[t], r.event, left, listed))
  BY <1>3 DEF rows
<1> HIDE DEF listed
<1>8. r \in Attempt /\ r.event \in Events /\ r.event # None
  BY <1>1, NoneAssumption DEF Coroutine, Attempt
<1>9. PICK k \in Coroutine : k = Asks(task[t], r.event, left, listed)
  BY <1>1, <1>5, <1>8 DEF Coroutine, Asks, Running, Waiting
<1>10. /\ k.pc = "ask" /\ k.asked = r.event /\ k.rows = left /\ k.listed = listed
       /\ k.stage = task[t].stage /\ k.score = task[t].score
  BY <1>1, <1>9 DEF Coroutine, Asks
<1>11. task[t].stage \notin {"seen", "last"}
  BY <1>2 DEF Factors
<1>12. TaskSound(k)
  BY <1>8, <1>10, <1>11 DEF TaskSound
<1>13. ListsOfStep
  BY <1>2, ListsRemember
<1>14. ASSUME t[2] = "api" PROVE ApiSound(e, k, tot_verified')
  <2>1. ApiSound(e, task[t], tot_verified')
    BY <1>1, <1>13, <1>14, ApiSoundGrows DEF ListsOfStep
  <2>2. RowsSound(e, task[t]) /\ Floor(e, task[t], tot_verified')
    BY <1>2, <2>1 DEF ApiSound, Running
  <2>3. RowsSound(e, k) /\ Floor(e, k, tot_verified')
    BY <1>10, <2>2 DEF RowsSound, Floor
  <2>4. AskedSound(e, k)
    BY <1>10, <1>11, <2>2 DEF AskedSound, RowsSound
  <2>5. ListedSound(e, k, tot_verified')
    BY <1>6, <1>10, <1>14 DEF ListedSound
  <2>6. QED
    BY <2>3, <2>4, <2>5 DEF ApiSound
<1>15. TableOfStep(t, k) /\ FlowOfStep(t, k)
  BY <1>2 DEF TableOfStep, FlowOfStep, auth
<1>16. /\ task[t].pc \in Running /\ task[t].pc # "stored" /\ k.pc # "idle"
       /\ Moves(t, k) /\ faults' \in Nat
  BY <1>2, <1>7, <1>9, <1>10 DEF Running, RiskInv, TypeOK
<1>17. QED
  BY <1>2, <1>12, <1>13, <1>14, <1>15, <1>16, CoroutineStep

(* A stage that lists nobody adds its risk: what it has not added, somebody   *)
(* vouches for.                                                               *)
LEMMA LoopEndsKeeps ==
    ASSUME RiskInv, NEW t \in Task, LoopEnds(t)
    PROVE  RiskInv'
<1> DEFINE e == t[1]
           stage == task[t].stage
           listed == ListedAfter(task[t], task[t].rows)
           gain == Gain(stage, listed)
           sum == task[t].score + gain
           next == StageAfter(login[e], stage)
           n == IF stage = "streak" THEN Capped(sum) ELSE sum
<1>1. /\ e \in Events /\ task[t] \in Coroutine /\ TaskSound(task[t])
      /\ t[2] = "api" => ApiSound(e, task[t], tot_verified)
  BY TaskState
<1>2. /\ task[t].pc \in {"rows", "answer"}
      /\ stage \in Factors \cup {"streak"}
      /\ tot_verified' = VerifiedWith(task[t])
      /\ tot_unverified' = UnverifiedWith(task[t])
      /\ UNCHANGED <<auth, attempts, faults>>
      /\ Moves(t, OnTo(task[t], next, n))
  BY DEF LoopEnds
<1>3. stage \in Stage /\ stage # "seen" /\ task[t].score \in Nat
  BY <1>1, <1>2 DEF Coroutine, Factors
<1>4. login[e] \in LoginEvent(Emails, Values)
  BY <1>2, TaskState
<1>5. /\ next \in Stage
      /\ stage = "ip" => next = "agent"
      /\ stage \in {"agent", "country", "region"} =>
            next \in {"country", "region", "streak"}
      /\ stage = "streak" => next = "seen"
  BY <1>3, <1>4, NextStage
<1>6. /\ gain \in Nat
      /\ stage = "ip" /\ listed = {} => gain = 30
      /\ stage = "agent" /\ listed = {} => gain = 20
  BY <1>3, Risks
<1>7. ASSUME t[2] = "api", NEW x \in listed
      PROVE  /\ Related(e, x) /\ Shares(e, x, stage)
             /\ stage \in Factors => x \in tot_verified'
  BY <1>2, <1>7, ListedAfterSound
<1>8. ListsOfStep
  BY <1>2, ListsRemember
<1>9. ASSUME t[2] = "api" PROVE Floor(e, task[t], tot_verified')
  <2>1. ApiSound(e, task[t], tot_verified')
    BY <1>1, <1>8, <1>9, ApiSoundGrows DEF ListsOfStep
  <2>2. QED
    BY <1>2, <2>1 DEF ApiSound, Running
<1> HIDE DEF listed, gain, next
<1>10. sum \in Nat /\ sum >= task[t].score /\ sum >= gain
  BY <1>3, <1>6
<1>11. /\ n \in Nat
       /\ stage = "streak" => n <= 100
       /\ stage = "streak" /\ sum >= 50 => n >= 50
       /\ stage # "streak" => n = sum
  BY <1>10, Cap
<1>12. next = "seen" => n <= 100
  BY <1>2, <1>5, <1>11 DEF Factors
<1>13. ASSUME t[2] = "api" PROVE Floor(e, OnTo(task[t], next, n), tot_verified')
  <2>1. PICK k : /\ k = OnTo(task[t], next, n)
                 /\ k.stage = next /\ k.score = n
    BY <1>1, <1>5, <1>11, OnToState
  <2>2. CASE stage = "ip"
    <3>1. Vouched(e, "ip", tot_verified') \/ n >= 30
      <4>1. CASE listed = {}
        BY <1>6, <1>10, <1>11, <2>2, <4>1
      <4>2. CASE listed # {}
        BY <1>7, <1>13, <2>2, <4>2 DEF Vouched, Factors
      <4>3. QED
        BY <4>1, <4>2
    <3>2. next = "agent"
      BY <1>5, <2>2
    <3>3. QED
      BY <2>1, <3>1, <3>2 DEF Floor
  <2>3. CASE stage = "agent"
    <3>1. Vouched(e, "ip", tot_verified') \/ task[t].score >= 30
      BY <1>9, <1>13, <2>3 DEF Floor
    <3>2. \/ Vouched(e, "ip", tot_verified') \/ Vouched(e, "agent", tot_verified')
          \/ n >= 50
      <4>1. CASE listed = {}
        <5>1. gain = 20 /\ n = task[t].score + gain
          BY <1>6, <1>11, <2>3, <4>1
        <5>2. task[t].score >= 30 => n >= 50
          BY <1>3, <5>1
        <5>3. QED
          BY <3>1, <5>2
      <4>2. CASE listed # {}
        BY <1>7, <1>13, <2>3, <4>2 DEF Vouched, Factors
      <4>3. QED
        BY <4>1, <4>2
    <3>3. next \in {"country", "region", "streak"}
      BY <1>5, <2>3
    <3>4. QED
      BY <2>1, <3>2, <3>3 DEF Floor
  <2>4. CASE stage \in {"country", "region", "streak"}
    <3>1. \/ Vouched(e, "ip", tot_verified') \/ Vouched(e, "agent", tot_verified')
          \/ task[t].score >= 50
      BY <1>9, <1>13, <2>4 DEF Floor
    <3>2. task[t].score >= 50 => n >= 50
      BY <1>3, <1>10, <1>11
    <3>3. next \in {"country", "region", "streak", "seen"}
      BY <1>5, <2>4
    <3>4. QED
      BY <2>1, <3>1, <3>2, <3>3 DEF Floor
  <2>5. QED
    BY <1>2, <2>2, <2>3, <2>4 DEF Factors
<1>14. QED
  BY <1>2, <1>5, <1>8, <1>11, <1>12, <1>13, OnToStep

(* The row is stored; what its coroutine works on then is only the score. *)
LEMMA WithPcState ==
    ASSUME NEW k0 \in Coroutine, NEW pc \in {"commit", "stored", "done", "failed"}
    PROVE  LET k == WithPc(k0, pc)
           IN /\ k \in Coroutine
              /\ k.pc = pc /\ k.stage = "seen" /\ k.score = k0.score
              /\ k.rows = {} /\ k.asked = None /\ k.listed = {}
BY DEF WithPc, Coroutine, Stage, Running, Waiting

LEMMA WithPcSound ==
    ASSUME RiskInv, NEW t \in Task, NEW pc \in {"commit", "stored", "done", "failed"},
           pc \in {"commit", "stored"} =>
              task[t].pc \in Running /\ task[t].stage = "seen",
           NEW k, k = WithPc(task[t], pc)
    PROVE  /\ TaskSound(k)
           /\ t[2] = "api" => ApiSound(t[1], k, tot_verified)
<1>1. /\ task[t] \in Coroutine /\ TaskSound(task[t])
      /\ t[2] = "api" => ApiSound(t[1], task[t], tot_verified)
  BY TaskState
<1>2. /\ k.pc = pc /\ k.stage = "seen" /\ k.score = task[t].score
      /\ k.rows = {} /\ k.asked = None /\ k.listed = {}
  BY <1>1, WithPcState
<1>3. k.pc \in Running => k.pc \in {"commit", "stored"}
  BY <1>2 DEF Running, Waiting
<1>4. TaskSound(k)
  BY <1>1, <1>2, <1>3 DEF TaskSound
<1>5. ASSUME t[2] = "api", k.pc \in Running PROVE Floor(t[1], k, tot_verified)
  <2>1. task[t].stage = "seen" /\ Floor(t[1], task[t], tot_verified)
    BY <1>1, <1>2, <1>3, <1>5 DEF ApiSound
  <2>2. QED
    BY <1>2, <2>1 DEF Floor
<1>6. QED
  BY <1>2, <1>4, <1>5 DEF ApiSound, RowsSound, AskedSound, ListedSound

(* A step of persist_login_attempt, or the end of the coroutine. *)
LEMMA WithPcStep ==
    ASSUME RiskInv, NEW t \in Task, NEW pc \in {"commit", "stored", "done", "failed"},
           Moves(t, WithPc(task[t], pc)),
           UNCHANGED <<login, stamp, mq, otp, otpLogs, lists>>, faults' \in Nat,
           task[t].pc \in Running,
           task[t].pc = "stored" => pc \in Over,
           pc \in {"commit", "stored"} => task[t].stage = "seen",
           FlowOfStep(t, WithPc(task[t], pc)), TableOfStep(t, WithPc(task[t], pc))
    PROVE  RiskInv'
<1>1. task[t] \in Coroutine
  BY TaskState
<1>2. PICK k \in Coroutine : /\ k = WithPc(task[t], pc)
                             /\ k.pc = pc /\ k.score = task[t].score
  BY <1>1, WithPcState
<1>3. TaskSound(k) /\ (t[2] = "api" => ApiSound(t[1], k, tot_verified))
  BY <1>2, WithPcSound
<1>4. ListsOfStep
  BY ListsStay
<1>5. t[2] = "api" => ApiSound(t[1], k, tot_verified')
  BY <1>3 DEF lists
<1>6. /\ Moves(t, k) /\ FlowOfStep(t, k) /\ TableOfStep(t, k)
      /\ task[t].pc = "stored" => k.pc \in Over /\ k.score = task[t].score
      /\ k.pc # "idle"
  BY <1>2
<1>7. QED
  BY <1>3, <1>4, <1>5, <1>6, CoroutineStep

LEMMA PersistNewKeeps ==
    ASSUME RiskInv, NEW t \in Task, PersistNew(t)
    PROVE  RiskInv'
<1>1. /\ task[t].pc = "rows" /\ task[t].stage = "seen"
      /\ Moves(t, WithPc(task[t], "commit"))
      /\ UNCHANGED <<auth, attempts, lists, faults>>
  BY DEF PersistNew
<1>2. /\ FlowOfStep(t, WithPc(task[t], "commit"))
      /\ TableOfStep(t, WithPc(task[t], "commit"))
  BY <1>1 DEF FlowOfStep, TableOfStep, auth
<1>3. /\ task[t].pc \in Running /\ task[t].pc # "stored" /\ faults' \in Nat
      /\ UNCHANGED <<login, stamp, mq, otp, otpLogs, lists>>
  BY <1>1 DEF Running, RiskInv, TypeOK, auth
<1>4. QED
  BY <1>1, <1>2, <1>3, WithPcStep

(* The row has the score of the coroutine, at most 100. *)
LEMMA PersistCommitsKeeps ==
    ASSUME RiskInv, NEW t \in Task, PersistCommits(t)
    PROVE  RiskInv'
<1>1. /\ task[t].pc = "commit"
      /\ attempts' = attempts \cup {[event |-> t[1], score |-> task[t].score]}
      /\ Moves(t, WithPc(task[t], "stored"))
      /\ UNCHANGED <<auth, lists, faults>>
  BY DEF PersistCommits
<1>2. t[1] \in Events /\ task[t] \in Coroutine /\ TaskSound(task[t])
  BY TaskState
<1>3. task[t].stage = "seen" /\ task[t].score \in Score
  BY <1>1, <1>2 DEF TaskSound, Coroutine, Score, Running, Waiting
<1>4. FlowOfStep(t, WithPc(task[t], "stored"))
  BY <1>1 DEF FlowOfStep, auth
<1>5. TableOfStep(t, WithPc(task[t], "stored"))
  <2>1. [event |-> t[1], score |-> task[t].score] \in Attempt
    BY <1>2, <1>3 DEF Attempt
  <2>2. PICK k : k = WithPc(task[t], "stored") /\ k.pc = "stored" /\ k.score = task[t].score
    BY <1>2, WithPcState
  <2>3. QED
    BY <1>1, <2>1, <2>2 DEF TableOfStep, Over
<1>6. /\ task[t].pc \in Running /\ task[t].pc # "stored" /\ faults' \in Nat
      /\ UNCHANGED <<login, stamp, mq, otp, otpLogs, lists>>
  BY <1>1 DEF Running, Waiting, RiskInv, TypeOK, auth
<1>7. QED
  BY <1>1, <1>3, <1>4, <1>5, <1>6, WithPcStep

LEMMA PersistFailsKeeps ==
    ASSUME RiskInv, NEW t \in Task, PersistFails(t)
    PROVE  RiskInv'
<1>1. /\ task[t].pc = "commit"
      /\ Moves(t, WithPc(task[t], "stored"))
      /\ UNCHANGED <<auth, attempts, lists>> /\ faults' = faults + 1
  BY DEF PersistFails, Fault
<1>2. task[t].stage = "seen"
  BY <1>1, TaskState DEF TaskSound
<1>3. /\ FlowOfStep(t, WithPc(task[t], "stored"))
      /\ TableOfStep(t, WithPc(task[t], "stored"))
  BY <1>1 DEF FlowOfStep, TableOfStep, auth
<1>4. /\ task[t].pc \in Running /\ task[t].pc # "stored" /\ faults' \in Nat
      /\ UNCHANGED <<login, stamp, mq, otp, otpLogs, lists>>
  BY <1>1 DEF Running, Waiting, RiskInv, TypeOK, auth
<1>5. QED
  BY <1>1, <1>2, <1>3, <1>4, WithPcStep

LEMMA PublishesKeeps ==
    ASSUME RiskInv, NEW t \in Task, Publishes(t)
    PROVE  RiskInv'
<1>1. /\ task[t].pc \in {"stored", "rows"}
      /\ Moves(t, WithPc(task[t], "done"))
      /\ UNCHANGED <<login, stamp, mq, otp, otpLogs, attempts, lists, faults>>
  BY DEF Publishes
<1>2. FlowOfStep(t, WithPc(task[t], "done"))
  <2>1. PICK k : k = WithPc(task[t], "done") /\ k.pc = "done"
    BY TaskState, WithPcState
  <2>2. FlowOfStep(t, k)
    BY <2>1 DEF Publishes, FlowOfStep
  <2>3. QED
    BY <2>1, <2>2
<1>3. TableOfStep(t, WithPc(task[t], "done"))
  BY <1>1 DEF TableOfStep
<1>4. task[t].pc \in Running /\ faults' \in Nat /\ "done" \in Over
  BY <1>1 DEF Running, RiskInv, TypeOK, Over
<1>5. QED
  BY <1>1, <1>2, <1>3, <1>4, WithPcStep

LEMMA TaskFailsKeeps ==
    ASSUME RiskInv, NEW t \in Task, TaskFails(t)
    PROVE  RiskInv'
<1>1. /\ task[t].pc \in {"query", "ask", "stored", "rows"}
      /\ Moves(t, WithPc(task[t], "failed"))
      /\ UNCHANGED <<login, stamp, mq, otp, otpLogs, attempts, lists>>
      /\ faults' = faults + 1
  BY DEF TaskFails, Fault
<1>2. FlowOfStep(t, WithPc(task[t], "failed"))
  <2>1. PICK k : k = WithPc(task[t], "failed") /\ k.pc = "failed"
    BY TaskState, WithPcState
  <2>2. FlowOfStep(t, k)
    BY <2>1 DEF TaskFails, FlowOfStep
  <2>3. QED
    BY <2>1, <2>2
<1>3. TableOfStep(t, WithPc(task[t], "failed"))
  BY <1>1 DEF TableOfStep
<1>4. task[t].pc \in Running /\ faults' \in Nat /\ "failed" \in Over
  BY <1>1 DEF Running, Waiting, RiskInv, TypeOK, Over
<1>5. QED
  BY <1>1, <1>2, <1>3, <1>4, WithPcStep

LEMMA TaskNextKeeps ==
    ASSUME RiskInv, NEW t \in Task, TaskNext(t)
    PROVE  RiskInv'
BY SelectKeeps, AnswerKeeps, LastPassesKeeps, LastUnverifiedKeeps, LastAsksKeeps,
   LastAnsweredKeeps, FirstLoginKeeps, LoopAsksKeeps, LoopEndsKeeps,
   PersistNewKeeps, PersistCommitsKeeps, PersistFailsKeeps, PublishesKeeps,
   TaskFailsKeeps
DEF TaskNext

-----------------------------------------------------------------------------
(* A step of login_user, of the user or of the broker: it may start a        *)
(* coroutine and forget attempts                                             *)

LEMMA OutsideStep ==
    ASSUME RiskInv, TypeOK', FlowInv', StartedInv', OtpInv', OtpKept, UNCHANGED lists,
           \A x \in Events : login[x] # None => login'[x] = login[x],
           attempts' \subseteq attempts,
           \A u \in Task : \/ task'[u] = task[u]
                           \/ task[u].pc = "idle" /\ task'[u] = NewTask
    PROVE  RiskInv'
<1>1. /\ NewTask.pc = "query" /\ NewTask.stage = "last" /\ NewTask.rows = {}
      /\ NewTask.asked = None /\ NewTask.listed = {}
  BY DEF NewTask, TaskIdle
<1>2. Kept
  BY DEF Kept, lists, Over
<1>3. StoredInv'
  BY <1>2, StoredStarted, ScoredKept DEF StoredInv
<1>4. UnverifiedHasOtp'
  BY DEF RiskInv, TypeOK, UnverifiedHasOtp, OtpKept, lists
<1>5. ASSUME NEW u \in Task PROVE TaskSound(task[u])'
  <2>1. CASE task'[u] = task[u]
    BY <2>1, OtherTaskSound
  <2>2. CASE task'[u] = NewTask
    BY <1>1, <2>2 DEF TaskSound
  <2>3. QED
    BY <2>1, <2>2
<1>6. ASSUME NEW e \in Events PROVE ApiSound(e, Api(e), tot_verified)'
  <2>1. Api(e)' = Api(e) \/ Api(e)' = NewTask
    BY DEF Api, Task, Source
  <2>2. CASE Api(e)' = Api(e)
    BY <1>2, <2>2, OtherApiSound
  <2>3. CASE Api(e)' = NewTask
    BY <1>1, <2>3 DEF ApiSound, RowsSound, AskedSound, ListedSound, Floor
  <2>4. QED
    BY <2>1, <2>2, <2>3
<1>7. QED
  BY <1>3, <1>4, <1>5, <1>6 DEF RiskInv

(* The clock of a new login is the number of logins before it. *)
LEMMA ArrivesTypes ==
    ASSUME RiskInv, NEW e \in Events, NEW l \in Logins, Arrives(e, l)
    PROVE  /\ login' \in [Events -> Logins \cup {None}]
           /\ stamp' \in [Events -> Nat]
           /\ StartedInv'
           /\ \A x \in Events : login[x] # None => login'[x] = login[x]
           /\ \A x \in Events : x # e => login'[x] = login[x]
           /\ login'[e] # None
           /\ flow[e] = "new" /\ Api(e).pc = "idle" /\ Mq(e).pc = "idle" /\ e \notin mq
<1> DEFINE started == {x \in Events : login[x] # None}
<1>1. /\ login[e] = None
      /\ login' = [login EXCEPT ![e] = l]
      /\ stamp' = [stamp EXCEPT ![e] = 1 + Cardinality(started)]
  BY DEF Arrives
<1>2. IsFiniteSet(started)
  BY DEF RiskInv, StartedInv
<1>3. Cardinality(started) \in Nat
  BY <1>2, FS_CardinalityType
<1>4. l # None
  BY NoneAssumption
<1>5. /\ login' \in [Events -> Logins \cup {None}]
      /\ \A x \in Events : login[x] # None => login'[x] = login[x]
      /\ \A x \in Events : x # e => login'[x] = login[x]
      /\ login'[e] = l
  BY <1>1 DEF RiskInv, TypeOK
<1>6. StartedInv'
  <2>1. {x \in Events : login'[x] # None} = started \cup {e}
    BY <1>1, <1>4, <1>5
  <2>2. QED
    BY <1>2, <2>1, FS_AddElement DEF StartedInv
<1>7. stamp' \in [Events -> Nat]
  <2> HIDE DEF started
  <2>1. QED
    BY <1>1, <1>3 DEF RiskInv, TypeOK
<1>8. flow[e] = "new" /\ Api(e).pc = "idle" /\ ~ Announced(e)
  BY <1>1 DEF RiskInv, FlowInv
<1>9. QED
  BY <1>4, <1>5, <1>6, <1>7, <1>8 DEF Announced

LEMMA LoginWrongKeeps ==
    ASSUME RiskInv, NEW e \in Events, NEW l \in Logins, LoginWrong(e, l)
    PROVE  RiskInv'
<1>1. /\ login' \in [Events -> Logins \cup {None}] /\ stamp' \in [Events -> Nat]
      /\ StartedInv'
      /\ \A x \in Events : login[x] # None => login'[x] = login[x]
      /\ \A x \in Events : x # e => login'[x] = login[x]
      /\ login'[e] # None
      /\ Api(e).pc = "idle" /\ Mq(e).pc = "idle"
  BY ArrivesTypes DEF LoginWrong
<1>2. /\ flow' = [flow EXCEPT ![e] = "over"] /\ mq' = mq \cup {e}
      /\ UNCHANGED <<otp, otpLogs, attempts, lists, task, faults>>
  BY DEF LoginWrong
<1>3. TypeOK'
  BY <1>1, <1>2 DEF RiskInv, TypeOK, lists
<1>4. FlowInv'
  BY <1>1, <1>2 DEF RiskInv, TypeOK, FlowInv, Announced, Api, Mq
<1>5. OtpInv' /\ OtpKept
  <2>1. /\ \A x \in Events : Api(x)' = Api(x) /\ (x # e => flow'[x] = flow[x])
        /\ flow'[e] = "over"
    BY <1>2 DEF RiskInv, TypeOK, Api
  <2>2. QED
    BY <1>2, <2>1 DEF RiskInv, OtpInv, OtpKept
<1>6. QED
  BY <1>1, <1>2, <1>3, <1>4, <1>5, OutsideStep

LEMMA NewTaskType == NewTask \in Coroutine /\ NewTask.pc = "query"
BY DEF NewTask, TaskIdle, Coroutine, Stage, Running, Waiting

(* The API's coroutine starts before the event is announced. *)
LEMMA LoginRightKeeps ==
    ASSUME RiskInv, NEW e \in Events, NEW l \in Logins, LoginRight(e, l)
    PROVE  RiskInv'
<1>1. /\ login' \in [Events -> Logins \cup {None}] /\ stamp' \in [Events -> Nat]
      /\ StartedInv'
      /\ \A x \in Events : login[x] # None => login'[x] = login[x]
      /\ \A x \in Events : x # e => login'[x] = login[x]
      /\ login'[e] # None
      /\ Api(e).pc = "idle" /\ Mq(e).pc = "idle" /\ e \notin mq
  BY ArrivesTypes DEF LoginRight
<1>2. /\ flow' = [flow EXCEPT ![e] = "predict"] /\ mq' = mq
      /\ task' = [task EXCEPT ![<<e, "api">>] = NewTask]
      /\ UNCHANGED <<otp, otpLogs, attempts, lists, faults>>
  BY DEF LoginRight, MqAtLogin
<1>3. <<e, "api">> \in Task
  BY DEF Task, Source
<1>4. TypeOK'
  BY <1>1, <1>2, <1>3, NewTaskType DEF RiskInv, TypeOK, lists
<1>5. /\ \A u \in Task : u # <<e, "api">> => task'[u] = task[u]
      /\ task'[<<e, "api">>] = NewTask
  BY <1>2, <1>3 DEF RiskInv, TypeOK
<1>6. FlowInv'
  <2>1. \A x \in Events : Mq(x)' = Mq(x) /\ (x # e => Api(x)' = Api(x))
    BY <1>5 DEF Api, Mq, Task, Source
  <2>2. QED
    BY <1>1, <1>2, <2>1 DEF RiskInv, TypeOK, FlowInv, Announced
<1>7. \A u \in Task : \/ task'[u] = task[u]
                      \/ task[u].pc = "idle" /\ task'[u] = NewTask
  BY <1>1, <1>5 DEF Api
<1>8. OtpInv' /\ OtpKept
  <2>1. \A x \in Events : x # e => Api(x)' = Api(x)
    BY <1>5 DEF Api, Task, Source
  <2>2. QED
    BY <1>1, <1>2, <2>1 DEF RiskInv, TypeOK, OtpInv, OtpKept
<1>9. QED
  BY <1>1, <1>2, <1>4, <1>6, <1>7, <1>8, OutsideStep

LEMMA LoginGivesUpKeeps ==
    ASSUME RiskInv, NEW e \in Events, LoginGivesUp(e)
    PROVE  RiskInv'
<1>1. /\ flow[e] = "predict" /\ flow' = [flow EXCEPT ![e] = "over"]
      /\ faults' = faults + 1
      /\ UNCHANGED <<login, stamp, mq, otp, otpLogs, attempts, lists, task>>
  BY DEF LoginGivesUp, Fault
<1>2. TypeOK'
  BY <1>1 DEF RiskInv, TypeOK, lists
<1>3. FlowInv'
  BY <1>1 DEF RiskInv, TypeOK, FlowInv, Announced, Api, Mq
<1>4. StartedInv' /\ OtpInv' /\ OtpKept
  <2>1. /\ \A x \in Events : Api(x)' = Api(x) /\ (x # e => flow'[x] = flow[x])
        /\ flow'[e] = "over"
    BY <1>1 DEF RiskInv, TypeOK, Api
  <2>2. QED
    BY <1>1, <2>1 DEF RiskInv, StartedInv, OtpInv, OtpKept
<1>5. QED
  BY <1>1, <1>2, <1>3, <1>4, OutsideStep

(* A row is logged for a password. *)
LEMMA LogRow ==
    ASSUME RiskInv, NEW e \in Events, NEW row \in {"sent", "failed", "verified"},
           otp' = [otp EXCEPT ![e] = row],
           otpLogs' = [otpLogs EXCEPT ![e][row] = 1]
    PROVE  /\ otpLogs' \in [Events -> OtpLogs]
           /\ otp' \in [Events -> {"none", "sent", "failed", "verified"}]
           /\ \A x \in Events : x # e => otpLogs'[x] = otpLogs[x] /\ otp'[x] = otp[x]
           /\ otp'[e] # "none"
<1>1. otpLogs \in [Events -> OtpLogs]
  BY DEF RiskInv, TypeOK
<1>2. PICK o : o = [otpLogs[e] EXCEPT ![row] = 1]
  OBVIOUS
<1>3. o \in OtpLogs
  BY <1>1, <1>2 DEF OtpLogs
<1>4. /\ otpLogs' \in [Events -> OtpLogs]
      /\ \A x \in Events : x # e => otpLogs'[x] = otpLogs[x]
  BY <1>1, <1>2, <1>3
<1>5. /\ otp' \in [Events -> {"none", "sent", "failed", "verified"}]
      /\ \A x \in Events : x # e => otp'[x] = otp[x]
      /\ otp'[e] # "none"
  BY DEF RiskInv, TypeOK
<1>6. QED
  BY <1>4, <1>5

LEMMA LoginCheckedKeeps ==
    ASSUME RiskInv, NEW e \in Events, LoginChecked(e)
    PROVE  RiskInv'
<1>1. /\ flow[e] = "check" /\ flow' = [flow EXCEPT ![e] = "over"]
      /\ mq' = mq \cup {e}
      /\ UNCHANGED <<login, stamp, attempts, lists, task, faults>>
  BY DEF LoginChecked
<1>2. /\ otpLogs' \in [Events -> OtpLogs]
      /\ otp' \in [Events -> {"none", "sent", "failed", "verified"}]
      /\ \A x \in Events : x # e => otpLogs'[x] = otpLogs[x] /\ otp'[x] = otp[x]
      /\ \/ otp'[e] = otp[e] /\ otpLogs'[e] = otpLogs[e]
         \/ otp'[e] # "none" /\ Api(e).score >= RISK_THRESHOLD
  <2>1. CASE UNCHANGED <<otp, otpLogs>>
    BY <2>1 DEF RiskInv, TypeOK
  <2>2. CASE /\ Api(e).score >= RISK_THRESHOLD
             /\ \E row \in {"sent", "failed"} :
                   /\ otp' = [otp EXCEPT ![e] = row]
                   /\ otpLogs' = [otpLogs EXCEPT ![e][row] = 1]
    BY <2>2, LogRow
  <2>3. QED
    BY <2>1, <2>2 DEF LoginChecked, Api
<1>3. TypeOK'
  BY <1>1, <1>2 DEF RiskInv, TypeOK, lists
<1>4. Api(e).pc = "done" /\ Mq(e).pc = "idle" /\ login[e] # None
  BY <1>1 DEF RiskInv, FlowInv, Announced
<1>5. /\ \A x \in Events : /\ Api(x)' = Api(x) /\ Mq(x)' = Mq(x)
                           /\ x # e => flow'[x] = flow[x]
      /\ flow'[e] = "over"
  BY <1>1 DEF RiskInv, TypeOK, Api, Mq
<1>6. FlowInv' /\ OtpInv'
  <2>1. FlowInv'
    BY <1>1, <1>4, <1>5 DEF RiskInv, FlowInv, Announced
  <2>2. OtpInv'
    BY <1>2, <1>4, <1>5 DEF RiskInv, OtpInv
  <2>3. QED
    BY <2>1, <2>2
<1>7. OtpKept
  BY <1>2 DEF OtpKept
<1>8. StartedInv'
  BY <1>1 DEF RiskInv, StartedInv
<1>9. QED
  BY <1>1, <1>3, <1>6, <1>7, <1>8, OutsideStep

LEMMA OtpVerifiedKeeps ==
    ASSUME RiskInv, NEW e \in Events, OtpVerified(e)
    PROVE  RiskInv'
<1>1. /\ otp[e] = "sent"
      /\ UNCHANGED <<login, stamp, flow, mq, attempts, lists, task, faults>>
  BY DEF OtpVerified
<1>2. /\ otpLogs' \in [Events -> OtpLogs]
      /\ otp' \in [Events -> {"none", "sent", "failed", "verified"}]
      /\ \A x \in Events : x # e => otpLogs'[x] = otpLogs[x] /\ otp'[x] = otp[x]
      /\ otp'[e] # "none"
  BY LogRow DEF OtpVerified
<1>3. TypeOK' /\ FlowInv' /\ StartedInv'
  BY <1>1, <1>2
  DEF RiskInv, TypeOK, lists, FlowInv, Announced, Api, Mq, StartedInv
<1>4. OtpInv' /\ OtpKept
  BY <1>1, <1>2 DEF RiskInv, OtpInv, OtpKept, Api
<1>5. QED
  BY <1>1, <1>3, <1>4, OutsideStep

(* Deleted rows change nothing of the passwords. *)
LEMMA LogsDeletedKeeps ==
    ASSUME RiskInv, NEW m \in Emails, LogsDeleted(m)
    PROVE  RiskInv'
<1>1. /\ \A e \in Events : otpLogs'[e] \in {NoLogs, otpLogs[e]}
      /\ faults' = faults + 1
      /\ UNCHANGED <<login, stamp, flow, mq, otp, attempts, lists, task>>
  BY DEF LogsDeleted, Fault
<1>2. otpLogs' \in [Events -> OtpLogs]
  <2>1. NoLogs \in OtpLogs
    BY DEF NoLogs, OtpLogs
  <2>2. QED
    BY <2>1 DEF LogsDeleted, RiskInv, TypeOK
<1>3. TypeOK' /\ FlowInv' /\ StartedInv'
  BY <1>1, <1>2
  DEF RiskInv, TypeOK, lists, FlowInv, Announced, Api, Mq, StartedInv
<1>4. OtpInv' /\ OtpKept
  BY <1>1 DEF RiskInv, OtpInv, OtpKept, Api
<1>5. QED
  BY <1>1, <1>3, <1>4, OutsideStep

(* The consumer starts on an event that the API is done with. *)
LEMMA MqDeliverKeeps ==
    ASSUME RiskInv, NEW e \in Events, MqDeliver(e)
    PROVE  RiskInv'
<1>1. /\ e \in mq /\ mq' = mq \ {e}
      /\ task' = [task EXCEPT ![<<e, "mq">>] = NewTask]
      /\ UNCHANGED <<login, stamp, flow, otp, otpLogs, attempts, lists, faults>>
  BY DEF MqDeliver
<1>2. <<e, "mq">> \in Task
  BY DEF Task, Source
<1>3. TypeOK'
  BY <1>1, <1>2, NewTaskType DEF RiskInv, TypeOK, lists
<1>4. /\ \A u \in Task : u # <<e, "mq">> => task'[u] = task[u]
      /\ task'[<<e, "mq">>] = NewTask
  BY <1>1, <1>2 DEF RiskInv, TypeOK
<1>5. FlowInv'
  <2>1. \A x \in Events : Api(x)' = Api(x) /\ (x # e => Mq(x)' = Mq(x))
    BY <1>4 DEF Api, Mq, Task, Source
  <2>2. QED
    BY <1>1, <2>1 DEF RiskInv, TypeOK, FlowInv, Announced
<1>6. \A u \in Task : \/ task'[u] = task[u]
                      \/ task[u].pc = "idle" /\ task'[u] = NewTask
  BY <1>1, <1>4 DEF Mq, RiskInv, FlowInv
<1>7. StartedInv' /\ OtpInv' /\ OtpKept
  <2>1. \A x \in Events : Api(x)' = Api(x)
    BY <1>4 DEF Api, Task, Source
  <2>2. QED
    BY <1>1, <2>1 DEF RiskInv, StartedInv, OtpInv, OtpKept
<1>8. QED
  BY <1>1, <1>3, <1>5, <1>6, <1>7, OutsideStep

LEMMA AttemptsDeletedKeeps ==
    ASSUME RiskInv, NEW m \in Emails, AttemptsDeleted(m)
    PROVE  RiskInv'
<1>1. /\ attempts' \subseteq attempts /\ faults' = faults + 1
      /\ UNCHANGED <<auth, lists, task>>
  BY DEF AttemptsDeleted, Fault
<1>2. TypeOK' /\ FlowInv' /\ StartedInv' /\ OtpInv' /\ OtpKept
  BY <1>1
  DEF RiskInv, TypeOK, auth, lists, FlowInv, Announced, Api, Mq, StartedInv, OtpInv,
      OtpKept
<1>3. QED
  BY <1>1, <1>2, OutsideStep DEF auth

(* After a restart no coroutine runs, and nothing is remembered. *)
LEMMA RestartKeeps ==
    ASSUME RiskInv, Restart
    PROVE  RiskInv'
<1>1. /\ task' = [t \in Task |-> IF t \in RunningTasks THEN WithPc(task[t], "failed")
                                                     ELSE task[t]]
      /\ flow' = [e \in Events |-> IF flow[e] = "predict" THEN "over" ELSE flow[e]]
      /\ tot_verified' = {} /\ tot_unverified' = {} /\ mq' = {}
      /\ faults' = faults + 1
      /\ UNCHANGED <<login, stamp, otp, otpLogs, attempts>>
  BY DEF Restart, Fault
<1>2. ASSUME NEW t \in Task
      PROVE  /\ task'[t] \in Coroutine /\ task'[t].pc \notin Running
             /\ task'[t].score = task[t].score
             /\ task[t].pc \in Running => task'[t].pc = "failed"
             /\ task[t].pc \notin Running => task'[t] = task[t]
  <2>1. CASE t \in RunningTasks
    <3>1. task'[t] = WithPc(task[t], "failed") /\ task[t].pc \in Running
      BY <1>1, <2>1 DEF RunningTasks
    <3>2. QED
      BY <3>1, TaskState, WithPcState DEF Running, Waiting
  <2>2. CASE t \notin RunningTasks
    <3>1. task'[t] = task[t] /\ task[t].pc \notin Running
      BY <1>1, <2>2 DEF RunningTasks
    <3>2. QED
      BY <3>1, TaskState
  <2>3. QED
    BY <2>1, <2>2
<1>3. TypeOK'
  <2>1. task' \in [Task -> Coroutine]
    BY <1>1, <1>2
  <2>2. flow' \in [Events -> {"new", "predict", "check", "over"}]
    BY <1>1 DEF RiskInv, TypeOK
  <2>3. QED
    BY <1>1, <2>1, <2>2 DEF RiskInv, TypeOK
<1>4. \A t \in Task : TaskSound(task[t])'
  BY <1>2 DEF TaskSound, Running, Waiting
<1>5. \A e \in Events : ApiSound(e, Api(e), tot_verified)'
  BY <1>2 DEF ApiSound, Api, Task, Source
<1>6. StoredInv'
  <2>1. \A t \in Task : task[t].pc \in Over =>
                           task'[t].pc \in Over /\ task'[t].score = task[t].score
    BY <1>2 DEF Over
  <2>2. SUFFICES ASSUME NEW r \in attempts PROVE Scored(r.event, r.score)'
    BY <1>1 DEF StoredInv
  <2>3. r.event \in Events /\ Scored(r.event, r.score)
    BY StoredStarted
  <2>4. PICK s \in Source : /\ task[<<r.event, s>>].pc \in Over
                            /\ task[<<r.event, s>>].score = r.score
    BY <2>3 DEF Scored
  <2>5. <<r.event, s>> \in Task
    BY <2>3 DEF Task
  <2>6. task'[<<r.event, s>>].pc \in Over /\ task'[<<r.event, s>>].score = r.score
    BY <2>1, <2>4, <2>5
  <2>7. QED
    BY <2>6 DEF Scored
<1>7. FlowInv'
  <2>1. SUFFICES ASSUME NEW x \in Events
                 PROVE  /\ login'[x] = None => flow'[x] = "new"
                        /\ flow'[x] = "new" => Api(x)'.pc = "idle"
                        /\ flow'[x] = "check" => Api(x)'.pc = "done"
                        /\ Announced(x)' => /\ flow'[x] = "over"
                                            /\ Api(x)'.pc \in {"idle", "done", "failed"}
                        /\ x \in mq' => Mq(x)'.pc = "idle"
    BY DEF FlowInv
  <2>2. /\ login[x] = None => flow[x] = "new"
        /\ flow[x] = "new" => Api(x).pc = "idle"
        /\ flow[x] = "check" => Api(x).pc = "done"
        /\ Announced(x) => flow[x] = "over" /\ Api(x).pc \in {"idle", "done", "failed"}
    BY DEF RiskInv, FlowInv
  <2>3. flow'[x] = IF flow[x] = "predict" THEN "over" ELSE flow[x]
    BY <1>1
  <2>4. /\ Api(x).pc \notin Running => Api(x)' = Api(x)
        /\ Mq(x).pc = "idle" => Mq(x)' = Mq(x)
    BY <1>2 DEF Api, Mq, Task, Source, Running, Waiting
  <2>5. Announced(x)' => Announced(x)
    BY <1>1, <2>4 DEF Announced
  <2>6. QED
    BY <1>1, <2>2, <2>3, <2>4, <2>5 DEF Running, Waiting
<1>8. StartedInv' /\ UnverifiedHasOtp'
  BY <1>1 DEF RiskInv, StartedInv, UnverifiedHasOtp
<1>9. OtpInv'
  <2>1. ASSUME NEW x \in Events, flow[x] = "over", Api(x).pc = "done"
        PROVE  flow'[x] = "over" /\ Api(x)' = Api(x)
    BY <1>1, <1>2, <2>1 DEF Api, Task, Source, Running, Waiting
  <2>2. QED
    BY <1>1, <2>1 DEF RiskInv, OtpInv
<1>10. QED
  BY <1>3, <1>4, <1>5, <1>6, <1>7, <1>8, <1>9 DEF RiskInv

-----------------------------------------------------------------------------
(* The theorems *)

LEMMA RiskInit == Init => RiskInv
<1> SUFFICES ASSUME Init PROVE RiskInv
  OBVIOUS
<1>1. TaskIdle \in Coroutine /\ TaskIdle.pc = "idle"
  BY DEF TaskIdle, Coroutine, Stage
<1>2. NoLogs \in OtpLogs
  BY DEF NoLogs, OtpLogs
<1>3. TypeOK
  BY <1>1, <1>2 DEF Init, TypeOK
<1>4. \A t \in Task : task[t].pc = "idle"
  BY <1>1 DEF Init
<1>5. \A e \in Events : Api(e).pc = "idle" /\ Mq(e).pc = "idle"
  BY <1>4 DEF Api, Mq, Task, Source
<1>6. FlowInv
  BY <1>5 DEF Init, FlowInv, Announced
<1>7. StoredInv /\ OtpInv /\ UnverifiedHasOtp
  BY DEF Init, StoredInv, OtpInv, UnverifiedHasOtp
<1>8. StartedInv
  <2>1. {x \in Events : login[x] # None} = {}
    BY DEF Init
  <2>2. QED
    BY <2>1, FS_EmptySet DEF StartedInv
<1>9. \A t \in Task : TaskSound(task[t])
  BY <1>4 DEF TaskSound, Running, Waiting
<1>10. \A e \in Events : ApiSound(e, Api(e), tot_verified)
  BY <1>5 DEF ApiSound, Running, Waiting
<1>11. QED
  BY <1>3, <1>6, <1>7, <1>8, <1>9, <1>10 DEF RiskInv

LEMMA RiskStays ==
    ASSUME RiskInv, UNCHANGED vars
    PROVE  RiskInv'
<1>1. UNCHANGED <<login, stamp, flow, mq, otp, otpLogs, attempts, lists, task, faults>>
  BY DEF vars, auth
<1>2. TypeOK' /\ FlowInv' /\ StartedInv' /\ OtpInv' /\ OtpKept
  BY <1>1
  DEF RiskInv, TypeOK, lists, FlowInv, Announced, Api, Mq, StartedInv, OtpInv, OtpKept
<1>3. QED
  BY <1>1, <1>2, OutsideStep

LEMMA RiskInvariant == Spec => []RiskInv
<1>1. RiskInv /\ [Next]_vars => RiskInv'
  <2>1. SUFFICES ASSUME RiskInv, [Next]_vars PROVE RiskInv'
    OBVIOUS
  <2>2. ASSUME NEW e \in Events, AuthNext(e) PROVE RiskInv'
    BY <2>1, <2>2, LoginWrongKeeps, LoginRightKeeps, LoginGivesUpKeeps,
       LoginCheckedKeeps, OtpVerifiedKeeps, MqDeliverKeeps
    DEF AuthNext
  <2>3. QED
    BY <2>1, <2>2, TaskNextKeeps, AttemptsDeletedKeeps, LogsDeletedKeeps, RestartKeeps,
       RiskStays
    DEF Next
<1>2. QED
  BY <1>1, RiskInit, PTL DEF Spec

(* Every variable keeps its shape, and a score that is stored is at most 100  *)
(* (persist_login_attempt).                                                   *)
THEOREM TypeCorrect == Spec => []TypeOK
<1>1. RiskInv => TypeOK
  BY DEF RiskInv
<1>2. QED
  BY <1>1, RiskInvariant, PTL

(* While the API's coroutine scores a login, no attempt of it is stored and   *)
(* the consumer has not begun with it: its score never counts itself and its  *)
(* row is the first (login_user, predict_risk, persist_login_attempt).        *)
THEOREM PredictFirst == Spec => []PredictComesFirst
<1>1. RiskInv => PredictComesFirst
  <2>1. SUFFICES ASSUME RiskInv, NEW e \in Events,
                        Api(e).pc \in {"query", "rows", "ask", "answer", "commit"}
                 PROVE  /\ \A r \in attempts : r.event # e
                        /\ Mq(e).pc = "idle"
                        /\ Api(e).asked # e
                        /\ e \notin Api(e).listed
    BY DEF PredictComesFirst, Api, Mq
  <2>2. Api(e).pc \in Running \ {"stored"}
    BY <2>1 DEF Running, Waiting
  <2>3. \A r \in attempts : r.event # e
    BY <2>1, <2>2, NoneOfItsOwn
  <2>4. Mq(e).pc = "idle"
    BY <2>1 DEF RiskInv, FlowInv, Announced
  <2>5. AskedSound(e, Api(e)) /\ ListedSound(e, Api(e), tot_verified)
    BY <2>1, <2>2 DEF RiskInv, ApiSound
  <2>6. e # None
    BY NoneAssumption
  <2>7. Api(e).asked # e /\ e \notin Api(e).listed
    BY <2>5, <2>6 DEF AskedSound, ListedSound, Related
  <2>8. QED
    BY <2>3, <2>4, <2>7
<1>2. QED
  BY <1>1, RiskInvariant, PTL

(* No order of answers, restarts, second scorings and deletions of attempts   *)
(* and otp_logs remembers a login as unverified that was never challenged:    *)
(* the API had scored it at the threshold or more, and a password had been    *)
(* logged for it (verify_success).                                            *)
THEOREM UnverifiedChallenged == Spec => []UnverifiedWasChallenged
<1>1. RiskInv => UnverifiedWasChallenged
  <2>1. SUFFICES ASSUME RiskInv, NEW e \in tot_unverified
                 PROVE  otp[e] # "none" /\ Api(e).score >= RISK_THRESHOLD
    BY DEF UnverifiedWasChallenged, Api
  <2>2. e \in Events
    BY <2>1 DEF RiskInv, TypeOK
  <2>3. otp[e] # "none"
    BY <2>1 DEF RiskInv, UnverifiedHasOtp
  <2>4. QED
    BY <2>1, <2>2, <2>3 DEF RiskInv, OtpInv
<1>2. QED
  BY <1>1, RiskInvariant, PTL

(* A login is scored below the threshold of the MFA Handler only if another   *)
(* attempt of its email, remembered as verified, vouches for it, whatever     *)
(* else is scored, answered, deleted or restarted meanwhile                   *)
(* (calculate_risk_score).                                                    *)
THEOREM LowScoreVouched == Spec => []LowScoreIsVouched
<1>1. RiskInv => LowScoreIsVouched
  <2>1. SUFFICES ASSUME RiskInv, NEW e \in Events, Api(e).pc \in Running,
                        Api(e).stage = "seen", Api(e).score < RISK_THRESHOLD
                 PROVE  \E x \in tot_verified :
                           /\ x # e
                           /\ login[x].email = login[e].email
                           /\ \/ \E s \in Source : task[<<x, s>>].score = 100
                              \/ /\ login[x].ok
                                 /\ \/ login[x].ip = login[e].ip
                                    \/ login[x].agent = login[e].agent
    BY DEF LowScoreIsVouched, Api
  <2>2. Api(e).score \in Nat
    BY <2>1 DEF RiskInv, TypeOK, Coroutine, Api, Task, Source
  <2>3. ~ (Api(e).score >= 50)
    BY <2>1, <2>2, BoundAssumption, ThresholdAssumption
  <2>4. \/ Repeated(e, tot_verified)
        \/ Vouched(e, "ip", tot_verified) \/ Vouched(e, "agent", tot_verified)
    BY <2>1, <2>3 DEF RiskInv, ApiSound, Floor
  <2>5. CASE Repeated(e, tot_verified)
    BY <2>5 DEF Repeated, Related, Scored
  <2>6. CASE Vouched(e, "ip", tot_verified)
    BY <2>6 DEF Vouched, Related, Shares, Factors
  <2>7. CASE Vouched(e, "agent", tot_verified)
    BY <2>7 DEF Vouched, Related, Shares, Factors
  <2>8. QED
    BY <2>4, <2>5, <2>6, <2>7
<1>2. QED
  BY <1>1, RiskInvariant, PTL

-----------------------------------------------------------------------------
(* The score and what is remembered *)

\* The table and the clock: one row for an event, and no two logins at the
\* same time.
Started  == {x \in Events : login[x] # None}
StampInv == /\ \A x \in Started : stamp[x] <= Cardinality(Started)
            /\ \A x, y \in Started : stamp[x] = stamp[y] => x = y
TableInv == /\ IsFiniteSet(attempts)
            /\ \A q, r \in attempts : q.event = r.event => q = r

\* The attempts of the email, as RememberedScore sees them: those that came
\* last, and whether one of them is remembered to vouch for factor f.
Newer(e, r)      == {q \in OfEmail(e) : stamp[q.event] > stamp[r.event]}
LastAt100(e)     == \E r \in OfEmail(e) : Newer(e, r) = {} /\ r.score = 100
LastBad(e)       == \E r \in OfEmail(e) : Newer(e, r) = {} /\ r.event \in tot_unverified
Gone(x)          == otpLogs[x].sent = 0 /\ otpLogs[x].failed = 0
Remembered(e, f) == \E r \in Sharing(e, f) : r.event \in tot_verified
BadOnes(e)       == {r \in OfEmail(e) :
                        /\ Cardinality(Newer(e, r)) < 3
                        /\ r.event \in tot_unverified \/ ~ login[r.event].ok}

Loops == Factors \cup {"streak"}

\* what the loop of stage s says of attempt r with the lists as they are
SettledNow(s, r)    == Settled(s, r, tot_verified, tot_unverified)
ListedNow(s, rows)  == {r.event : r \in {q \in rows :
                                   Lists(s, q, tot_verified, tot_unverified)}}

\* what factor f has added by stage s, and the sum of that
Paid(e, s, f) == IF Place[f] < Place[s] /\ Queries(login[e], f) /\ ~ Remembered(e, f)
                 THEN Points(f) ELSE 0
SumBefore(e, s) == StaticRisk(login[e]) + Paid(e, s, "ip") + Paid(e, s, "agent")
                     + Paid(e, s, "country") + Paid(e, s, "region")

\* the score that is due, in these words: RememberedScore, see RememberedIsDue
Due(e) ==
    IF LastAt100(e) THEN IF LastBad(e) THEN 100 ELSE 0
    ELSE IF login[e].known /\ OfEmail(e) = {} THEN 50
    ELSE Capped(SumBefore(e, "streak") + (IF Cardinality(BadOnes(e)) = 3 THEN 100 ELSE 0))

\* every attempt that an earlier stage has gone through is on a list, so what
\* later answers put there changes nothing for that stage
PassedSettled(e, s) ==
    \A f \in Factors : Place[f] < Place[s] /\ Queries(login[e], f) =>
        \A r \in Sharing(e, f) : r.event \in tot_verified \cup tot_unverified

Scoring == {"query", "rows", "ask", "answer"}

\* the stages: what has been ruled out and what has been added up
SumSound(e, k) ==
    /\ k.stage \in Loops \cup {"first"} => ~ LastAt100(e)
    /\ k.stage = "first" => login[e].known
    /\ k.stage \in Loops => /\ Queries(login[e], k.stage)
                            /\ ~ (login[e].known /\ OfEmail(e) = {})
                            /\ k.score = SumBefore(e, k.stage)
                            /\ PassedSettled(e, k.stage)
    /\ k.stage = "seen" /\ k.pc = "query" =>
          k.score = Due(e) \/ (k.score = 0 /\ LastForgotten(e))

\* the loop of a stage: what it has gone through is settled and listed
LoopSound(e, k) ==
    /\ k.pc = "query" => k.listed = {}
    /\ k.pc = "rows" /\ k.stage # "seen" => k.rows = Selected(e, k.stage)
    /\ k.pc # "query" /\ k.stage \in Loops =>
          /\ k.rows \subseteq Selected(e, k.stage)
          /\ \A r \in Selected(e, k.stage) \ k.rows :
                r.event = k.asked \/ SettledNow(k.stage, r)
          /\ k.listed = ListedNow(k.stage, Selected(e, k.stage) \ k.rows)

\* the attempt that the MFA Handler is asked about: it belongs to the email
\* and the loop needs the answer
AskSound(e, k) ==
    k.pc \in {"ask", "answer"} =>
        /\ k.stage \in Loops \cup {"last"}
        /\ \E r \in Selected(e, k.stage) \ k.rows : r.event = k.asked
        /\ k.stage \in Loops =>
              /\ k.asked \notin tot_verified \cup tot_unverified
              /\ k.stage = "streak" => login[k.asked].ok
        /\ k.stage = "last" =>
              /\ \E r \in OfEmail(e) : /\ Newer(e, r) = {} /\ r.score = 100
                                       /\ r.event = k.asked
              /\ k.pc = "answer" /\ k.answer =>
                    k.asked \notin tot_unverified \/ Gone(k.asked)

ScoreSound(e, k) ==
    k.pc \in Scoring => SumSound(e, k) /\ LoopSound(e, k) /\ AskSound(e, k)

ScoreInv ==
    /\ StampInv
    /\ TableInv
    /\ \A t \in Task : ScoreSound(t[1], task[t])

\* no two coroutines score logins of the same email at the same time
Apart ==
    \A t, u \in RunningTasks :
        login[t[1]].email = login[u[1]].email => t = u
\* nobody deletes the attempts of an email that is being scored
KeptWhileScored ==
    \A m \in Emails : AttemptsDeleted(m) =>
        \A t \in RunningTasks : login[t[1]].email # m

-----------------------------------------------------------------------------
(* What the score is made of *)

LEMMA PointsType == \A f : Points(f) \in Nat
BY DEF Points

\* who has an account is asked for the first login
LEMMA KnownAsksFirst ==
    ASSUME NEW l \in LoginEvent(Emails, Values)
    PROVE  StageAfter(l, "last") = "first" <=> l.known
<1> DEFINE q == StageAfter(l, "last")
<1>1. "last" \in Stage /\ "first" \in Stage /\ Place["first"] = 2 /\ Place["last"] = 1
  BY DEF Stage, Place, Factors
<1>2. /\ q \in Stage /\ Place[q] > 1 /\ Queries(l, q)
      /\ Queries(l, "first") => Place[q] <= 2
  BY <1>1, StageAfterLeast
<1> HIDE DEF q
<1>3. Queries(l, "first") <=> l.known
  BY DEF Queries
<1>4. ASSUME Place[q] <= 2, Place[q] > 1, q \in Stage PROVE q = "first"
  BY <1>4 DEF Stage, Place, Factors
<1>5. QED
  BY <1>2, <1>3, <1>4 DEF q

\* the factors that the stages before the streak may have added are all of them
LEMMA PaidType ==
    ASSUME NEW e, NEW s, NEW f
    PROVE  Paid(e, s, f) \in Nat
BY PointsType DEF Paid

LEMMA SumType ==
    ASSUME NEW e, NEW s
    PROVE  SumBefore(e, s) \in Nat
<1> DEFINE a == StaticRisk(login[e])
           b == Paid(e, s, "ip")
           c == Paid(e, s, "agent")
           d == Paid(e, s, "country")
           f == Paid(e, s, "region")
<1>1. a \in Nat /\ b \in Nat /\ c \in Nat /\ d \in Nat /\ f \in Nat
  BY StaticRiskType, PaidType
<1> HIDE DEF a, b, c, d, f
<1>2. a + b + c + d + f \in Nat
  BY <1>1
<1>3. QED
  BY <1>2 DEF a, b, c, d, f, SumBefore

\* the property's words and those of the invariant say the same
LEMMA RememberedIsDue ==
    ASSUME NEW e \in Events, login[e] \in LoginEvent(Emails, Values)
    PROVE  RememberedScore(e) = Due(e)
<1> DEFINE l == login[e]
           past == {r \in attempts : login[r.event].email = l.email}
           newer(r) == {q \in past : stamp[q.event] > stamp[r.event]}
           vouched(f) == \E r \in past : /\ login[r.event].ok
                                         /\ login[r.event][f] = l[f]
                                         /\ r.event \in tot_verified
           bad == {r \in past : /\ Cardinality(newer(r)) < 3
                                /\ r.event \in tot_unverified \/ ~ login[r.event].ok}
           place(f, n) == IF l[f] = "Local" \/ (l[f] # "Unknown" /\ vouched(f))
                          THEN 0 ELSE n
           rest == (IF l.odd THEN 20 ELSE 0) + (IF l.ok THEN 0 ELSE 15)
           sum == (IF vouched("ip") THEN 0 ELSE 30) + (IF vouched("agent") THEN 0 ELSE 20)
                    + place("country", 15) + place("region", 10)
                    + (IF l.odd THEN 20 ELSE 0) + (IF l.ok THEN 0 ELSE 15)
                    + (IF Cardinality(bad) = 3 THEN 100 ELSE 0)
<1>1. past = OfEmail(e) /\ \A r : newer(r) = Newer(e, r)
  BY DEF OfEmail, Newer
<1>2. \A f : vouched(f) <=> Remembered(e, f)
  BY DEF OfEmail, Sharing, Remembered
<1>3. bad = BadOnes(e)
  BY <1>1 DEF BadOnes
<1>4. /\ (\E r \in past : newer(r) = {} /\ r.score = 100) <=> LastAt100(e)
      /\ (\E r \in past : newer(r) = {} /\ r.event \in tot_unverified) <=> LastBad(e)
  <2> HIDE DEF past, newer
  <2>1. (\E r \in past : newer(r) = {} /\ r.score = 100) <=> LastAt100(e)
    BY <1>1 DEF LastAt100
  <2>2. (\E r \in past : newer(r) = {} /\ r.event \in tot_unverified) <=> LastBad(e)
    BY <1>1 DEF LastBad
  <2>3. QED
    BY <2>1, <2>2
<1>5. RememberedScore(e) =
         IF \E r \in past : newer(r) = {} /\ r.score = 100
         THEN IF \E r \in past : newer(r) = {} /\ r.event \in tot_unverified
              THEN 100 ELSE 0
         ELSE IF l.known /\ past = {} THEN 50
         ELSE IF sum > 100 THEN 100 ELSE sum
  BY DEF RememberedScore
<1> DEFINE streak == IF Cardinality(BadOnes(e)) = 3 THEN 100 ELSE 0
<1>6. sum = SumBefore(e, "streak") + streak
  <2>1. /\ Paid(e, "streak", "ip") = IF vouched("ip") THEN 0 ELSE 30
        /\ Paid(e, "streak", "agent") = IF vouched("agent") THEN 0 ELSE 20
    BY <1>2 DEF Paid, Place, Queries, Points
  <2>2. /\ Paid(e, "streak", "country") + (IF l.country = "Unknown" THEN 15 ELSE 0)
             = place("country", 15)
        /\ Paid(e, "streak", "country") \in Nat
    BY <1>2 DEF Paid, Place, Queries, Points
  <2>3. /\ Paid(e, "streak", "region") + (IF l.region = "Unknown" THEN 10 ELSE 0)
             = place("region", 10)
        /\ Paid(e, "streak", "region") \in Nat
    BY <1>2 DEF Paid, Place, Queries, Points
  <2>4. StaticRisk(l) = (IF l.odd THEN 20 ELSE 0)
                          + (IF l.country = "Unknown" THEN 15 ELSE 0)
                          + (IF l.region = "Unknown" THEN 10 ELSE 0)
                          + (IF l.ok THEN 0 ELSE 15)
    BY DEF StaticRisk, Points
  <2>5. sum = (IF vouched("ip") THEN 0 ELSE 30) + (IF vouched("agent") THEN 0 ELSE 20)
                + place("country", 15) + place("region", 10)
                + (IF l.odd THEN 20 ELSE 0) + (IF l.ok THEN 0 ELSE 15) + streak
    <3> HIDE DEF vouched, place, bad
    <3>1. Cardinality(bad) = Cardinality(BadOnes(e))
      BY <1>3
    <3>2. QED
      BY <3>1
  <2>6. streak \in Nat
    OBVIOUS
  <2> HIDE DEF sum, place, vouched, streak
  <2>7. QED
    BY <2>1, <2>2, <2>3, <2>4, <2>5, <2>6 DEF SumBefore
<1> HIDE DEF sum, past, newer, vouched, bad
<1>7. QED
  BY <1>1, <1>4, <1>5, <1>6 DEF Due, Capped

-----------------------------------------------------------------------------
(* What the score depends on *)

\* a step changes nothing of the login and of the attempts of its email
SameView(e) ==
    /\ login'[e] = login[e]
    /\ OfEmail(e)' = OfEmail(e)
    /\ \A r \in OfEmail(e) : /\ login'[r.event] = login[r.event]
                             /\ stamp'[r.event] = stamp[r.event]
\* nor what the lists say of them; the rows of those that are remembered as
\* unverified may be deleted, but not come back
SameLists(e) ==
    \A r \in OfEmail(e) : /\ r.event \in tot_verified' <=> r.event \in tot_verified
                          /\ r.event \in tot_unverified' <=> r.event \in tot_unverified
                          /\ r.event \in tot_unverified /\ Gone(r.event) => Gone(r.event)'
GoneStays == \A x \in tot_unverified : Gone(x) => Gone(x)'

LEMMA NewerStays ==
    ASSUME NEW e, SameView(e), NEW r \in OfEmail(e)
    PROVE  Newer(e, r)' = Newer(e, r)
BY DEF SameView, Newer

LEMMA NewestIs ==
    ASSUME NEW e, NEW n
    PROVE  Newest(OfEmail(e), n) = {r \in OfEmail(e) : Cardinality(Newer(e, r)) < n}
BY DEF Newest, Newer

LEMMA NewestStays ==
    ASSUME NEW e, SameView(e), NEW n
    PROVE  Newest(OfEmail(e), n)' = Newest(OfEmail(e), n)
<1>1. Newest(OfEmail(e), n)' = {r \in OfEmail(e)' : Cardinality(Newer(e, r)') < n}
  BY DEF Newest, Newer
<1>2. OfEmail(e)' = OfEmail(e)
  BY DEF SameView
<1>3. \A r \in OfEmail(e) : Newer(e, r)' = Newer(e, r)
  BY NewerStays
<1>4. Newest(OfEmail(e), n)' = {r \in OfEmail(e) : Cardinality(Newer(e, r)) < n}
  BY <1>1, <1>2, <1>3
<1>5. QED
  BY <1>4, NewestIs

LEMMA SharingStays ==
    ASSUME NEW e, SameView(e), NEW f
    PROVE  Sharing(e, f)' = Sharing(e, f)
<1>1. Sharing(e, f)' = {r \in OfEmail(e)' : /\ login'[r.event][f] = login'[e][f]
                                            /\ login'[r.event].ok}
  BY DEF Sharing
<1>2. /\ OfEmail(e)' = OfEmail(e) /\ login'[e] = login[e]
      /\ \A r \in OfEmail(e) : login'[r.event] = login[r.event]
  BY DEF SameView
<1>3. QED
  BY <1>1, <1>2 DEF Sharing

LEMMA SelectedStays ==
    ASSUME NEW e, SameView(e), NEW s \in Stage, s # "seen"
    PROVE  Selected(e, s)' = Selected(e, s)
<1>1. CASE s = "last"
  BY <1>1, NewestStays DEF Selected
<1>2. CASE s = "first"
  BY <1>2 DEF Selected, SameView
<1>3. CASE s = "streak"
  <2>1. OfEmail(e)' = OfEmail(e)
    BY DEF SameView
  <2>2. Newest(OfEmail(e), 3)' = Newest(OfEmail(e), 3)
    BY NewestStays
  <2>3. LastThree(e)' = LastThree(e)
    BY <2>1, <2>2 DEF LastThree
  <2>4. Selected(e, s)' = LastThree(e)' /\ Selected(e, s) = LastThree(e)
    BY <1>3 DEF Selected
  <2>5. QED
    BY <2>3, <2>4
<1>4. CASE s \in Factors
  <2>1. Selected(e, s)' = Sharing(e, s)' /\ Selected(e, s) = Sharing(e, s)
    BY <1>4 DEF Selected, Factors
  <2>2. QED
    BY <2>1, SharingStays
<1>5. QED
  BY <1>1, <1>2, <1>3, <1>4 DEF Stage

\* the attempts that a stage goes through are attempts of the email
LEMMA SelectedOfEmail ==
    ASSUME NEW e, NEW s \in Stage, s # "seen"
    PROVE  Selected(e, s) \subseteq OfEmail(e)
<1>1. CASE s \in {"last", "first", "streak"}
  BY <1>1 DEF Selected, LastThree, Newest
<1>2. CASE s \in Factors
  <2>1. Selected(e, s) = Sharing(e, s)
    BY <1>2 DEF Selected, Factors
  <2>2. QED
    BY <2>1 DEF Sharing
<1>3. QED
  BY <1>1, <1>2 DEF Stage

LEMMA LastStays ==
    ASSUME NEW e, SameView(e)
    PROVE  LastAt100(e)' <=> LastAt100(e)
<1>1. OfEmail(e)' = OfEmail(e) /\ \A r \in OfEmail(e) : Newer(e, r)' = Newer(e, r)
  BY NewerStays DEF SameView
<1>2. QED
  BY <1>1 DEF LastAt100

LEMMA LastBadStays ==
    ASSUME NEW e, SameView(e), SameLists(e)
    PROVE  LastBad(e)' <=> LastBad(e)
<1>1. OfEmail(e)' = OfEmail(e) /\ \A r \in OfEmail(e) : Newer(e, r)' = Newer(e, r)
  BY NewerStays DEF SameView
<1>2. QED
  BY <1>1 DEF LastBad, SameLists

LEMMA ForgottenIs ==
    ASSUME NEW e
    PROVE  LastForgotten(e) <=>
              \E r \in OfEmail(e) : /\ Newer(e, r) = {} /\ r.score = 100
                                    /\ r.event \in tot_verified /\ r.event \in tot_unverified
                                    /\ Gone(r.event)
BY DEF LastForgotten, Newer, Gone

LEMMA ForgottenStays ==
    ASSUME NEW e, SameView(e), SameLists(e), LastForgotten(e)
    PROVE  LastForgotten(e)'
<1>1. PICK r \in OfEmail(e) : /\ Newer(e, r) = {} /\ r.score = 100
                              /\ r.event \in tot_verified /\ r.event \in tot_unverified
                              /\ Gone(r.event)
  BY ForgottenIs
<1>2. /\ r \in OfEmail(e)' /\ Newer(e, r)' = {}
      /\ r.event \in tot_verified' /\ r.event \in tot_unverified' /\ Gone(r.event)'
  BY <1>1, NewerStays DEF SameView, SameLists
<1>3. /\ {q \in OfEmail(e)' : stamp'[q.event] > stamp'[r.event]} = {}
      /\ otpLogs'[r.event].sent = 0 /\ otpLogs'[r.event].failed = 0
  BY <1>2 DEF Newer, Gone
<1>4. QED
  BY <1>1, <1>2, <1>3 DEF LastForgotten

LEMMA BadOnesStay ==
    ASSUME NEW e, SameView(e), SameLists(e)
    PROVE  BadOnes(e)' = BadOnes(e)
<1>1. /\ OfEmail(e)' = OfEmail(e)
      /\ \A r \in OfEmail(e) : /\ Newer(e, r)' = Newer(e, r)
                               /\ login'[r.event] = login[r.event]
                               /\ r.event \in tot_unverified' <=> r.event \in tot_unverified
  BY NewerStays DEF SameView, SameLists
<1>2. BadOnes(e)' = {r \in OfEmail(e)' :
                        /\ Cardinality(Newer(e, r)') < 3
                        /\ r.event \in tot_unverified' \/ ~ login'[r.event].ok}
  BY DEF BadOnes
<1>3. QED
  BY <1>1, <1>2 DEF BadOnes

LEMMA RememberedStays ==
    ASSUME NEW e, SameView(e), SameLists(e), NEW f
    PROVE  Remembered(e, f)' <=> Remembered(e, f)
<1>1. Sharing(e, f)' = Sharing(e, f) /\ Sharing(e, f) \subseteq OfEmail(e)
  BY SharingStays DEF Sharing
<1>2. QED
  BY <1>1 DEF Remembered, SameLists

\* a sum stays if every factor in it is remembered as before
LEMMA SumStays ==
    ASSUME NEW e, NEW s \in Stage, login'[e] = login[e],
           \A f \in Factors : Place[f] < Place[s] /\ Queries(login[e], f) =>
                                 (Remembered(e, f)' <=> Remembered(e, f))
    PROVE  SumBefore(e, s)' = SumBefore(e, s)
<1>1. \A f \in Factors : Paid(e, s, f)' = Paid(e, s, f)
  BY DEF Paid
<1>2. /\ Paid(e, s, "ip")' = Paid(e, s, "ip")
      /\ Paid(e, s, "agent")' = Paid(e, s, "agent")
      /\ Paid(e, s, "country")' = Paid(e, s, "country")
      /\ Paid(e, s, "region")' = Paid(e, s, "region")
  BY <1>1 DEF Factors
<1>3. StaticRisk(login[e])' = StaticRisk(login[e])
  BY DEF StaticRisk
<1>4. QED
  BY <1>2, <1>3 DEF SumBefore

LEMMA DueStays ==
    ASSUME NEW e, SameView(e), SameLists(e)
    PROVE  Due(e)' = Due(e)
<1>1. login'[e] = login[e] /\ OfEmail(e)' = OfEmail(e)
  BY DEF SameView
<1>2. (LastAt100(e)' <=> LastAt100(e)) /\ (LastBad(e)' <=> LastBad(e))
  BY LastStays, LastBadStays
<1>3. BadOnes(e)' = BadOnes(e)
  BY BadOnesStay
<1>4. SumBefore(e, "streak")' = SumBefore(e, "streak")
  BY <1>1, RememberedStays, SumStays DEF Stage
<1> DEFINE total == SumBefore(e, "streak") + (IF Cardinality(BadOnes(e)) = 3 THEN 100 ELSE 0)
<1>5. total' = total
  BY <1>3, <1>4
<1>6. Due(e) = IF LastAt100(e) THEN IF LastBad(e) THEN 100 ELSE 0
               ELSE IF login[e].known /\ OfEmail(e) = {} THEN 50 ELSE Capped(total)
  BY DEF Due
<1>7. Due(e)' = IF LastAt100(e)' THEN IF LastBad(e)' THEN 100 ELSE 0
                ELSE IF login'[e].known /\ OfEmail(e)' = {} THEN 50 ELSE Capped(total')
  BY DEF Due
<1> HIDE DEF total
<1>8. QED
  BY <1>1, <1>2, <1>5, <1>6, <1>7

\* A step that leaves the email alone leaves what is due and what was done.
LEMMA ScoreSoundStays ==
    ASSUME NEW e \in Events, SameView(e), SameLists(e), NEW k \in Coroutine,
           ScoreSound(e, k)
    PROVE  ScoreSound(e, k)'
<1> SUFFICES ASSUME k.pc \in Scoring
             PROVE  SumSound(e, k)' /\ LoopSound(e, k)' /\ AskSound(e, k)'
  BY DEF ScoreSound
<1>1. SumSound(e, k) /\ LoopSound(e, k) /\ AskSound(e, k) /\ k.stage \in Stage
  BY DEF ScoreSound, Coroutine
<1>2. /\ login'[e] = login[e] /\ OfEmail(e)' = OfEmail(e)
      /\ LastAt100(e)' <=> LastAt100(e)
      /\ \A f : Sharing(e, f)' = Sharing(e, f) /\ Sharing(e, f) \subseteq OfEmail(e)
      /\ \A f : Remembered(e, f)' <=> Remembered(e, f)
      /\ Due(e)' = Due(e)
      /\ LastForgotten(e) => LastForgotten(e)'
  BY LastStays, SharingStays, RememberedStays, DueStays, ForgottenStays
  DEF SameView, Sharing
<1>3. \A r \in OfEmail(e) : /\ Newer(e, r)' = Newer(e, r)
                            /\ login'[r.event] = login[r.event]
                            /\ r.event \in tot_verified' <=> r.event \in tot_verified
                            /\ r.event \in tot_unverified' <=> r.event \in tot_unverified
  BY NewerStays DEF SameView, SameLists
<1>4. SumSound(e, k)'
  <2>1. SumBefore(e, k.stage)' = SumBefore(e, k.stage)
    BY <1>1, <1>2, SumStays
  <2>2. PassedSettled(e, k.stage) => PassedSettled(e, k.stage)'
    BY <1>2, <1>3 DEF PassedSettled
  <2>3. QED
    BY <1>1, <1>2, <2>1, <2>2 DEF SumSound
<1>5. k.stage # "seen" => /\ Selected(e, k.stage)' = Selected(e, k.stage)
                          /\ Selected(e, k.stage) \subseteq OfEmail(e)
  BY <1>1, SelectedStays, SelectedOfEmail
<1>6. k.stage \in Loops => k.stage # "seen"
  BY DEF Loops, Factors
<1>7. ASSUME NEW r \in OfEmail(e), NEW s
      PROVE  /\ SettledNow(s, r)' <=> SettledNow(s, r)
             /\ Lists(s, r, tot_verified, tot_unverified)'
                  <=> Lists(s, r, tot_verified, tot_unverified)
  BY <1>3 DEF SettledNow, Settled, Lists
<1>8. LoopSound(e, k)'
  <2>1. ASSUME k.stage \in Loops, k.pc # "query"
        PROVE  /\ k.rows \subseteq Selected(e, k.stage)'
               /\ \A r \in Selected(e, k.stage)' \ k.rows :
                     r.event = k.asked \/ SettledNow(k.stage, r)'
               /\ k.listed = ListedNow(k.stage, Selected(e, k.stage) \ k.rows)'
    <3>1. PICK S : S = Selected(e, k.stage) /\ S = Selected(e, k.stage)' /\ S \subseteq OfEmail(e)
      BY <1>5, <1>6, <2>1
    <3>2. /\ k.rows \subseteq S
          /\ \A r \in S \ k.rows : r.event = k.asked \/ SettledNow(k.stage, r)
          /\ k.listed = ListedNow(k.stage, S \ k.rows)
      BY <1>1, <2>1, <3>1 DEF LoopSound
    <3>3. \A r \in S \ k.rows : r.event = k.asked \/ SettledNow(k.stage, r)'
      BY <1>7, <3>1, <3>2
    <3>4. ListedNow(k.stage, S \ k.rows)' = ListedNow(k.stage, S \ k.rows)
      BY <1>7, <3>1 DEF ListedNow
    <3>5. ListedNow(k.stage, Selected(e, k.stage) \ k.rows)'
             = {r.event : r \in {q \in Selected(e, k.stage)' \ k.rows :
                                   Lists(k.stage, q, tot_verified, tot_unverified)'}}
      BY DEF ListedNow
    <3>6. ListedNow(k.stage, S \ k.rows)'
             = {r.event : r \in {q \in S \ k.rows :
                                   Lists(k.stage, q, tot_verified, tot_unverified)'}}
      BY DEF ListedNow
    <3>7. QED
      BY <3>1, <3>2, <3>3, <3>4, <3>5, <3>6
  <2>2. QED
    BY <1>1, <1>5, <2>1 DEF LoopSound
<1>9. AskSound(e, k)'
  <2>1. SUFFICES ASSUME k.pc \in {"ask", "answer"}, k.stage # "seen",
                        k.stage \in Loops \cup {"last"}
                 PROVE  AskSound(e, k)'
    BY <1>1, <1>6 DEF AskSound
  <2>2. PICK r \in Selected(e, k.stage) \ k.rows : r.event = k.asked
    BY <1>1, <2>1 DEF AskSound
  <2>3. r \in OfEmail(e) /\ r \in Selected(e, k.stage)' \ k.rows
    BY <1>5, <2>1, <2>2
  <2>4. /\ login'[k.asked] = login[k.asked]
        /\ k.asked \in tot_verified' <=> k.asked \in tot_verified
        /\ k.asked \in tot_unverified' <=> k.asked \in tot_unverified
        /\ k.asked \in tot_unverified /\ Gone(k.asked) => Gone(k.asked)'
    BY <1>3, <2>2, <2>3 DEF SameLists
  <2>5. k.stage = "last" =>
           \E q \in OfEmail(e)' : Newer(e, q)' = {} /\ q.score = 100 /\ q.event = k.asked
    BY <1>1, <1>2, <1>3, <2>1 DEF AskSound
  <2>6. QED
    BY <1>1, <2>1, <2>2, <2>3, <2>4, <2>5 DEF AskSound
<1>10. QED
  BY <1>4, <1>8, <1>9

-----------------------------------------------------------------------------
(* The table and the clock *)

LEMMA StampsStay ==
    ASSUME StampInv, UNCHANGED <<login, stamp>>
    PROVE  StampInv'
<1>1. Started' = Started
  BY DEF Started
<1>2. QED
  BY <1>1 DEF StampInv

\* a login that starts is later than all the others
LEMMA ArrivesStamp ==
    ASSUME RiskInv, StampInv, NEW e \in Events, NEW l \in Logins, Arrives(e, l)
    PROVE  StampInv'
<1> DEFINE n == Cardinality(Started)
<1>1. IsFiniteSet(Started) /\ e \notin Started
  BY DEF RiskInv, StartedInv, Started, Arrives
<1>2. n \in Nat /\ Cardinality(Started \cup {e}) = n + 1
  BY <1>1, FS_CardinalityType, FS_AddElement
<1>3. /\ login' = [login EXCEPT ![e] = l] /\ l # None
      /\ stamp' = [stamp EXCEPT ![e] = 1 + n]
  BY NoneAssumption DEF Arrives, Started
<1>4. Started' = Started \cup {e}
  BY <1>3 DEF Started, RiskInv, TypeOK
<1>5. /\ stamp'[e] = n + 1
      /\ \A x \in Started : stamp'[x] = stamp[x] /\ stamp[x] \in Nat /\ stamp[x] <= n
  <2>1. stamp \in [Events -> Nat] /\ Started \subseteq Events
    BY DEF RiskInv, TypeOK, Started
  <2>2. \A x \in Started : stamp[x] <= n
    BY DEF StampInv
  <2> HIDE DEF n
  <2>3. QED
    BY <1>1, <1>2, <1>3, <2>1, <2>2
<1> HIDE DEF n
<1>6. Cardinality(Started') = n + 1
  BY <1>2, <1>4
<1>7. \A x \in Started' : stamp'[x] <= n + 1
  BY <1>2, <1>4, <1>5
<1>8. \A x, y \in Started' : stamp'[x] = stamp'[y] => x = y
  <2>1. SUFFICES ASSUME NEW x \in Started \cup {e}, NEW y \in Started \cup {e},
                        stamp'[x] = stamp'[y], x # y
                 PROVE  FALSE
    BY <1>4
  <2>2. CASE x \in Started /\ y \in Started
    BY <1>5, <2>1, <2>2 DEF StampInv
  <2>3. CASE x = e \/ y = e
    BY <1>2, <1>5, <2>1, <2>3
  <2>4. QED
    BY <2>1, <2>2, <2>3
<1>9. QED
  BY <1>6, <1>7, <1>8 DEF StampInv

\* an older row of the event, or none, when the table only loses rows
LEMMA TableShrinks ==
    ASSUME TableInv, attempts' \subseteq attempts
    PROVE  TableInv'
BY FS_Subset DEF TableInv

LEMMA TableGrows ==
    ASSUME TableInv, NEW e, NEW n, \A r \in attempts : r.event # e,
           attempts' = attempts \cup {[event |-> e, score |-> n]}
    PROVE  TableInv'
<1> DEFINE row == [event |-> e, score |-> n]
<1>1. IsFiniteSet(attempts')
  BY FS_AddElement DEF TableInv
<1>2. row.event = e
  OBVIOUS
<1> HIDE DEF row
<1>3. attempts' = attempts \cup {row}
  BY DEF row
<1>4. QED
  BY <1>1, <1>2, <1>3 DEF TableInv

\* the attempts of an email are finitely many, and one of them at most is newest
LEMMA NewestOne ==
    ASSUME RiskInv, TableInv, NEW e
    PROVE  /\ IsFiniteSet(OfEmail(e))
           /\ \A r \in OfEmail(e) : IsFiniteSet(Newer(e, r))
           /\ Newest(OfEmail(e), 1) = {r \in OfEmail(e) : Newer(e, r) = {}}
<1>1. IsFiniteSet(OfEmail(e))
  BY FS_Subset DEF TableInv, OfEmail
<1>2. \A r \in OfEmail(e) : IsFiniteSet(Newer(e, r))
  <2>1. \A r : Newer(e, r) \in SUBSET OfEmail(e)
    BY DEF Newer
  <2>2. QED
    BY <1>1, <2>1, FS_Subset
<1>3. \A S : IsFiniteSet(S) => (Cardinality(S) < 1 <=> S = {})
  BY FS_CardinalityType, FS_EmptySet
<1>4. QED
  BY <1>1, <1>2, <1>3, NewestIs

LEMMA NewestUnique ==
    ASSUME RiskInv, TableInv, StampInv, NEW e,
           NEW q \in OfEmail(e), NEW r \in OfEmail(e),
           Newer(e, q) = {}, Newer(e, r) = {}
    PROVE  q = r
<1>1. /\ q \in attempts /\ r \in attempts
      /\ ~ (stamp[q.event] > stamp[r.event])
      /\ ~ (stamp[r.event] > stamp[q.event])
  BY DEF Newer, OfEmail
<1>2. q.event \in Started /\ r.event \in Started
  BY <1>1, StoredStarted DEF Started
<1>3. stamp[q.event] \in Nat /\ stamp[r.event] \in Nat
  BY <1>2 DEF Started, RiskInv, TypeOK
<1>4. stamp[q.event] = stamp[r.event]
  BY <1>1, <1>3
<1>5. QED
  BY <1>1, <1>2, <1>4 DEF StampInv, TableInv

-----------------------------------------------------------------------------
(* What a step is to the coroutines that do not take it *)

\* what a step of coroutine t does beside moving t
StepOf(t) ==
    /\ task[t].pc \in Running
    /\ \E k : Moves(t, k)
    /\ UNCHANGED <<login, stamp, otpLogs>>
    /\ \/ attempts' = attempts
       \/ /\ \A r \in attempts : r.event # t[1]
          /\ attempts' = attempts \cup {[event |-> t[1], score |-> task[t].score]}
    /\ \/ UNCHANGED lists
       \/ /\ tot_verified' = VerifiedWith(task[t])
          /\ tot_unverified' = UnverifiedWith(task[t])

LEMMA TaskNextIsStep ==
    ASSUME NEW t \in Task, TaskNext(t)
    PROVE  StepOf(t)
<1>1. ASSUME Select(t) PROVE StepOf(t)
  BY <1>1 DEF Select, StepOf, auth, Running, Waiting
<1>2. ASSUME Answer(t) PROVE StepOf(t)
  BY <1>2 DEF Answer, StepOf, auth, Running, Waiting
<1>3. ASSUME LastPasses(t) PROVE StepOf(t)
  BY <1>3 DEF LastPasses, FromLast, StepOf, auth, Running
<1>4. ASSUME LastUnverified(t) PROVE StepOf(t)
  BY <1>4 DEF LastUnverified, StepOf, auth, Running
<1>5. ASSUME LastAsks(t) PROVE StepOf(t)
  BY <1>5 DEF LastAsks, StepOf, auth, Running
<1>6. ASSUME LastAnswered(t) PROVE StepOf(t)
  BY <1>6 DEF LastAnswered, StepOf, auth, Running
<1>7. ASSUME FirstLogin(t) PROVE StepOf(t)
  BY <1>7 DEF FirstLogin, FromLast, StepOf, auth, Running
<1>8. ASSUME LoopAsks(t) PROVE StepOf(t)
  BY <1>8 DEF LoopAsks, StepOf, auth, Running
<1>9. ASSUME LoopEnds(t) PROVE StepOf(t)
  BY <1>9 DEF LoopEnds, StepOf, auth, Running
<1>10. ASSUME PersistNew(t) PROVE StepOf(t)
  BY <1>10 DEF PersistNew, StepOf, auth, Running
<1>11. ASSUME PersistCommits(t) PROVE StepOf(t)
  BY <1>11 DEF PersistCommits, StepOf, auth, Running, Waiting
<1>12. ASSUME PersistFails(t) PROVE StepOf(t)
  BY <1>12 DEF PersistFails, StepOf, auth, Running, Waiting
<1>13. ASSUME Publishes(t) PROVE StepOf(t)
  BY <1>13 DEF Publishes, StepOf, Running
<1>14. ASSUME TaskFails(t) PROVE StepOf(t)
  BY <1>14 DEF TaskFails, StepOf, Running, Waiting
<1>15. QED
  BY <1>1, <1>2, <1>3, <1>4, <1>5, <1>6, <1>7, <1>8, <1>9, <1>10, <1>11, <1>12,
     <1>13, <1>14
  DEF TaskNext

\* where nothing of the email changes, a coroutine that did not move is as
\* right as before
LEMMA BystanderSound ==
    ASSUME RiskInv, NEW u \in Task, task'[u] = task[u],
           ScoreSound(u[1], task[u]),
           task[u].pc \in Scoring => SameView(u[1]) /\ SameLists(u[1])
    PROVE  ScoreSound(u[1], task[u])'
<1>1. PICK k \in Coroutine : k = task[u]
  BY TaskState
<1>2. PICK e \in Events : e = u[1]
  BY TaskState
<1>3. ScoreSound(e, k)'
  <2>1. CASE k.pc \notin Scoring
    BY <2>1 DEF ScoreSound
  <2>2. CASE k.pc \in Scoring
    BY <1>1, <1>2, <2>2, ScoreSoundStays
  <2>3. QED
    BY <2>1, <2>2
<1>4. QED
  BY <1>1, <1>2, <1>3

\* the row that a coroutine adds, and the attempt that it notes the answer of,
\* belong to the email that it scores
LEMMA OtherEmail ==
    ASSUME RiskInv, Apart, NEW t \in Task, StepOf(t), ScoreSound(t[1], task[t]),
           NEW u \in Task, u # t, task[u].pc \in Scoring
    PROVE  SameView(u[1]) /\ SameLists(u[1])
<1> DEFINE e == u[1]
           m == login[t[1]].email
<1>1. t \in RunningTasks /\ u \in RunningTasks
  BY DEF StepOf, RunningTasks, Scoring, Running, Waiting
<1>2. login[e].email # m
  BY <1>1 DEF Apart
<1>3. login' = login /\ stamp' = stamp /\ otpLogs' = otpLogs
  BY DEF StepOf
<1>4. attempts \subseteq attempts' /\ \A r \in attempts' : r \in attempts \/ r.event = t[1]
  BY DEF StepOf
<1>5. OfEmail(e)' = OfEmail(e)
  BY <1>2, <1>3, <1>4 DEF OfEmail
<1>6. SameView(e)
  BY <1>3, <1>5 DEF SameView
<1>7. task[t].pc = "answer" => login[task[t].asked].email = m
  <2>1. SUFFICES ASSUME task[t].pc = "answer" PROVE login[task[t].asked].email = m
    OBVIOUS
  <2>2. AskSound(t[1], task[t])
    BY <2>1 DEF ScoreSound, Scoring
  <2>3. /\ task[t].stage \in Stage /\ task[t].stage # "seen"
        /\ \E r \in Selected(t[1], task[t].stage) : r.event = task[t].asked
    BY <2>1, <2>2 DEF AskSound, Loops, Stage, Factors
  <2>4. \E r \in OfEmail(t[1]) : r.event = task[t].asked
    BY <2>3, SelectedOfEmail
  <2>5. QED
    BY <2>4 DEF OfEmail
<1>8. SameLists(e)
  <2>1. CASE UNCHANGED lists
    BY <1>3, <2>1 DEF lists, SameLists, Gone
  <2>2. CASE /\ tot_verified' = VerifiedWith(task[t])
             /\ tot_unverified' = UnverifiedWith(task[t])
    <3>1. \A r \in OfEmail(e) : task[t].pc = "answer" => r.event # task[t].asked
      BY <1>2, <1>7 DEF OfEmail
    <3>2. QED
      BY <1>3, <2>2, <3>1 DEF SameLists, Gone, VerifiedWith, UnverifiedWith
  <2>3. QED
    BY <2>1, <2>2 DEF StepOf
<1>9. QED
  BY <1>6, <1>8

\* A step of coroutine t keeps the invariant if it keeps it for t.
LEMMA StepKeepsScores ==
    ASSUME RiskInv, Apart, ScoreInv, NEW t \in Task, StepOf(t), NEW k, Moves(t, k),
           ScoreSound(t[1], k)'
    PROVE  ScoreInv'
<1>1. task'[t] = k /\ \A u \in Task : u # t => task'[u] = task[u]
  BY DEF Moves, RiskInv, TypeOK
<1>2. StampInv'
  BY StampsStay DEF StepOf, ScoreInv
<1>3. TableInv'
  BY TableShrinks, TableGrows DEF StepOf, ScoreInv
<1>4. ASSUME NEW u \in Task, u # t PROVE ScoreSound(u[1], task[u])'
  BY <1>1, <1>4, OtherEmail, BystanderSound DEF ScoreInv
<1>5. ScoreSound(t[1], task[t])'
  BY <1>1
<1>6. QED
  BY <1>2, <1>3, <1>4, <1>5 DEF ScoreInv

-----------------------------------------------------------------------------
(* The steps of Auth Service, of the broker and of the process *)

LEMMA NewTaskScore ==
    ASSUME NEW e
    PROVE  ScoreSound(e, NewTask)'
<1>1. NewTask.pc = "query" /\ NewTask.stage = "last" /\ NewTask.listed = {}
  BY DEF NewTask, TaskIdle
<1>2. SumSound(e, NewTask)'
  BY <1>1 DEF SumSound, Loops, Factors
<1>3. LoopSound(e, NewTask)' /\ AskSound(e, NewTask)'
  BY <1>1 DEF LoopSound, AskSound
<1>4. QED
  BY <1>2, <1>3 DEF ScoreSound

LEMMA OutsideScores ==
    ASSUME RiskInv, ScoreInv, StampInv', UNCHANGED lists, GoneStays,
           \A x \in Events : login[x] # None => /\ login'[x] = login[x]
                                                /\ stamp'[x] = stamp[x],
           attempts' \subseteq attempts,
           \A u \in Task : task[u].pc \in Scoring =>
              \A r \in attempts : \/ r \in attempts'
                                  \/ login[r.event].email # login[u[1]].email,
           \A u \in Task : \/ task'[u] = task[u]
                           \/ task[u].pc = "idle" /\ task'[u] = NewTask
    PROVE  ScoreInv'
<1>1. TableInv'
  BY TableShrinks DEF ScoreInv
<1>2. ASSUME NEW u \in Task, task[u].pc \in Scoring
      PROVE  SameView(u[1]) /\ SameLists(u[1])
  <2> DEFINE e == u[1]
  <2>1. /\ e \in Events /\ login[e] # None
    <3>1. task[u].pc # "idle" /\ u[1] \in Events /\ u[2] \in Source /\ u = <<u[1], u[2]>>
      BY <1>2, TaskState DEF Scoring
    <3>2. QED
      BY <3>1, StartedTask
  <2>2. \A r \in attempts : /\ login'[r.event] = login[r.event]
                            /\ stamp'[r.event] = stamp[r.event]
    BY StoredStarted
  <2>3. login'[e] = login[e]
    BY <2>1
  <2>4. OfEmail(e)' = OfEmail(e)
    BY <1>2, <2>2, <2>3 DEF OfEmail
  <2>5. SameView(e)
    BY <2>2, <2>3, <2>4 DEF SameView, OfEmail
  <2>6. SameLists(e)
    BY DEF lists, SameLists, GoneStays
  <2>7. QED
    BY <2>5, <2>6
<1>3. ASSUME NEW u \in Task PROVE ScoreSound(u[1], task[u])'
  <2>1. CASE task'[u] = task[u]
    BY <1>2, <2>1, BystanderSound DEF ScoreInv
  <2>2. CASE task'[u] = NewTask
    <3>1. ScoreSound(u[1], NewTask)'
      BY NewTaskScore
    <3>2. QED
      BY <2>2, <3>1
  <2>3. QED
    BY <2>1, <2>2
<1>4. QED
  BY <1>1, <1>3 DEF ScoreInv

LEMMA AuthNextScores ==
    ASSUME RiskInv, ScoreInv, NEW e \in Events, AuthNext(e)
    PROVE  ScoreInv'
<1>1. attempts' = attempts /\ UNCHANGED lists
  BY DEF AuthNext, LoginWrong, LoginRight, LoginGivesUp, LoginChecked, OtpVerified,
         MqDeliver
<1>2. \/ UNCHANGED <<login, stamp>>
      \/ \E l \in Logins : Arrives(e, l)
  BY DEF AuthNext, LoginWrong, LoginRight, LoginGivesUp, LoginChecked, OtpVerified,
         MqDeliver
<1>3. StampInv'
  BY <1>2, StampsStay, ArrivesStamp DEF ScoreInv
<1>4. \A x \in Events : login[x] # None => login'[x] = login[x] /\ stamp'[x] = stamp[x]
  <2>1. CASE UNCHANGED <<login, stamp>>
    BY <2>1
  <2>2. CASE \E l \in Logins : Arrives(e, l)
    BY <2>2 DEF Arrives, RiskInv, TypeOK
  <2>3. QED
    BY <1>2, <2>1, <2>2
<1>5. \A u \in Task : task'[u] = task[u] \/ (task[u].pc = "idle" /\ task'[u] = NewTask)
  <2>1. CASE task' = task
    BY <2>1
  <2>2. CASE \E l \in Logins : LoginRight(e, l)
    <3>1. task[<<e, "api">>].pc = "idle" /\ <<e, "api">> \in Task
      BY <2>2, ArrivesTypes DEF LoginRight, Api, Task, Source
    <3>2. task' = [task EXCEPT ![<<e, "api">>] = NewTask]
      BY <2>2 DEF LoginRight
    <3>3. QED
      BY <3>1, <3>2 DEF RiskInv, TypeOK
  <2>3. CASE MqDeliver(e)
    <3>1. task[<<e, "mq">>].pc = "idle" /\ <<e, "mq">> \in Task
      BY <2>3 DEF MqDeliver, RiskInv, FlowInv, Mq, Task, Source
    <3>2. task' = [task EXCEPT ![<<e, "mq">>] = NewTask]
      BY <2>3 DEF MqDeliver
    <3>3. QED
      BY <3>1, <3>2 DEF RiskInv, TypeOK
  <2>4. QED
    BY <2>1, <2>2, <2>3
    DEF AuthNext, LoginWrong, LoginGivesUp, LoginChecked, OtpVerified
<1>6. GoneStays
  <2>1. SUFFICES ASSUME NEW x \in tot_unverified, otpLogs'[x] # otpLogs[x], Gone(x)
                 PROVE  Gone(x)'
    BY DEF GoneStays, Gone
  <2>2. x \in Events /\ flow[x] = "over" /\ otpLogs[x] \in OtpLogs
    BY <2>1 DEF RiskInv, TypeOK, UnverifiedHasOtp, OtpInv
  <2>3. ~ LoginChecked(e)
    BY <2>1, <2>2 DEF LoginChecked, RiskInv, TypeOK
  <2>4. otpLogs' = [otpLogs EXCEPT ![e]["verified"] = 1]
    BY <2>1, <2>3
    DEF AuthNext, LoginWrong, LoginRight, LoginGivesUp, OtpVerified, MqDeliver
  <2>5. otpLogs'[x] = [otpLogs[x] EXCEPT !["verified"] = 1]
    BY <2>1, <2>2, <2>4 DEF RiskInv, TypeOK
  <2>6. QED
    BY <2>1, <2>2, <2>5 DEF Gone, OtpLogs
<1>7. QED
  BY <1>1, <1>3, <1>4, <1>5, <1>6, OutsideScores

\* deleting the attempts of one email disturbs no scoring of another one
LEMMA DeletedScores ==
    ASSUME RiskInv, ScoreInv, KeptWhileScored, NEW m \in Emails, AttemptsDeleted(m)
    PROVE  ScoreInv'
<1>1. /\ UNCHANGED <<auth, lists, task>>
      /\ attempts' = {r \in attempts : login[r.event].email # m}
  BY DEF AttemptsDeleted
<1>2. StampInv'
  BY <1>1, StampsStay DEF ScoreInv, auth
<1>3. ASSUME NEW u \in Task, task[u].pc \in Scoring, NEW r \in attempts
      PROVE  r \in attempts' \/ login[r.event].email # login[u[1]].email
  <2>1. login[u[1]].email # m
    BY <1>3 DEF KeptWhileScored, RunningTasks, Running, Waiting, Scoring
  <2>2. QED
    BY <1>1, <2>1
<1>4. GoneStays
  BY <1>1 DEF GoneStays, Gone, auth
<1>5. QED
  BY <1>1, <1>2, <1>3, <1>4, OutsideScores DEF auth, lists

\* a deletion of log rows brings none back
LEMMA LogsDeletedScores ==
    ASSUME RiskInv, ScoreInv, NEW m \in Emails, LogsDeleted(m)
    PROVE  ScoreInv'
<1>1. /\ UNCHANGED <<login, stamp, attempts, lists, task>>
      /\ \A x \in Events : otpLogs'[x] \in {NoLogs, otpLogs[x]}
  BY DEF LogsDeleted
<1>2. StampInv'
  BY <1>1, StampsStay DEF ScoreInv
<1>3. GoneStays
  BY <1>1 DEF GoneStays, Gone, NoLogs, RiskInv, TypeOK
<1>4. QED
  BY <1>1, <1>2, <1>3, OutsideScores

\* after a restart nothing is being scored
LEMMA RestartScores ==
    ASSUME RiskInv, ScoreInv, Restart
    PROVE  ScoreInv'
<1>1. StampInv'
  BY StampsStay DEF Restart, ScoreInv
<1>2. TableInv'
  BY TableShrinks DEF Restart, ScoreInv
<1>3. ASSUME NEW u \in Task PROVE task'[u].pc \notin Scoring
  <2>1. task[u] \in Coroutine
    BY TaskState
  <2>2. task'[u] = IF u \in RunningTasks THEN WithPc(task[u], "failed") ELSE task[u]
    BY DEF Restart
  <2>3. WithPc(task[u], "failed").pc = "failed"
    BY <2>1, WithPcState
  <2>4. QED
    BY <2>2, <2>3 DEF RunningTasks, Scoring, Running, Waiting
<1>4. \A u \in Task : ScoreSound(u[1], task[u])'
  BY <1>3 DEF ScoreSound
<1>5. QED
  BY <1>1, <1>2, <1>4 DEF ScoreInv

LEMMA StutterScores ==
    ASSUME RiskInv, ScoreInv, UNCHANGED vars
    PROVE  ScoreInv'
<1>1. UNCHANGED <<login, stamp, otpLogs, attempts, lists, task>>
  BY DEF vars, auth
<1>2. StampInv'
  BY <1>1, StampsStay DEF ScoreInv
<1>3. GoneStays
  BY <1>1 DEF GoneStays, Gone
<1>4. QED
  BY <1>1, <1>2, <1>3, OutsideScores

-----------------------------------------------------------------------------
(* The steps up to the factors *)

LEMMA ScoreState ==
    ASSUME RiskInv, ScoreInv, NEW t \in Task, task[t].pc \in Scoring
    PROVE  /\ t[1] \in Events /\ task[t] \in Coroutine
           /\ task[t].stage \in Stage /\ task[t].score \in Nat
           /\ login[t[1]] \in LoginEvent(Emails, Values)
           /\ SumSound(t[1], task[t]) /\ LoopSound(t[1], task[t])
           /\ AskSound(t[1], task[t])
           /\ t \in RunningTasks
<1>1. /\ t[1] \in Events /\ task[t] \in Coroutine
      /\ login[t[1]] \in LoginEvent(Emails, Values)
  BY TaskState DEF Scoring
<1>2. ScoreSound(t[1], task[t])
  BY DEF ScoreInv
<1>3. task[t].stage \in Stage /\ task[t].score \in Nat
  BY <1>1 DEF Coroutine
<1>4. t \in RunningTasks
  BY DEF RunningTasks, Scoring, Running, Waiting
<1>5. QED
  BY <1>1, <1>2, <1>3, <1>4 DEF ScoreSound

\* a step that only moves the coroutine
LEMMA QuietScores ==
    ASSUME RiskInv, Apart, ScoreInv, NEW t \in Task, TaskNext(t),
           NEW k \in Coroutine, Moves(t, k), UNCHANGED <<auth, attempts, lists>>,
           ScoreSound(t[1], k)
    PROVE  ScoreInv'
<1>1. PICK e \in Events : e = t[1]
  BY TaskState
<1>2. login' = login /\ stamp' = stamp /\ attempts' = attempts
  BY DEF auth
<1>3. OfEmail(e)' = OfEmail(e)
  BY <1>2 DEF OfEmail
<1>4. SameView(e) /\ SameLists(e)
  BY <1>2, <1>3 DEF SameView, SameLists, Gone, lists, auth
<1>5. ScoreSound(e, k)'
  BY <1>1, <1>4, ScoreSoundStays
<1>6. QED
  BY <1>1, <1>5, TaskNextIsStep, StepKeepsScores

\* a step on to the query of a stage
LEMMA OnToScores ==
    ASSUME RiskInv, Apart, ScoreInv, NEW t \in Task, TaskNext(t),
           NEW s \in Stage, NEW n \in Nat,
           Moves(t, OnTo(task[t], s, n)), UNCHANGED <<auth, attempts, lists>>,
           \A k \in Coroutine : k.pc = "query" /\ k.stage = s /\ k.score = n =>
                                   SumSound(t[1], k)
    PROVE  ScoreInv'
<1>1. PICK k0 \in Coroutine : k0 = task[t]
  BY TaskState
<1>2. PICK k \in Coroutine : k = OnTo(k0, s, n)
  BY OnToState
<1>3. k.pc = "query" /\ k.stage = s /\ k.score = n /\ k.listed = {}
  BY <1>2, OnToState
<1>4. SumSound(t[1], k)
  BY <1>3
<1>5. LoopSound(t[1], k) /\ AskSound(t[1], k)
  BY <1>3 DEF LoopSound, AskSound
<1>6. ScoreSound(t[1], k)
  BY <1>4, <1>5 DEF ScoreSound
<1>7. Moves(t, k)
  BY <1>1, <1>2
<1>8. QED
  BY <1>6, <1>7, QuietScores

LEMMA SelectScores ==
    ASSUME RiskInv, Apart, ScoreInv, NEW t \in Task, Select(t)
    PROVE  ScoreInv'
<1> DEFINE e == t[1]
           rows == Selected(e, task[t].stage)
<1>1. task[t].pc = "query" /\ task[t].pc \in Scoring
  BY DEF Select, Scoring
<1>2. /\ e \in Events /\ task[t] \in Coroutine /\ task[t].stage \in Stage
      /\ SumSound(e, task[t]) /\ LoopSound(e, task[t])
  BY <1>1, ScoreState
<1>3. rows \in SUBSET Attempt
  <2>1. attempts \subseteq Attempt
    BY DEF RiskInv, TypeOK
  <2>2. CASE task[t].stage = "seen"
    BY <2>1, <2>2 DEF Selected
  <2>3. CASE task[t].stage # "seen"
    BY <1>2, <2>1, <2>3, SelectedOfEmail DEF OfEmail
  <2>4. QED
    BY <2>2, <2>3
<1>4. /\ Moves(t, WithRows(task[t], rows))
      /\ UNCHANGED <<auth, attempts, lists>>
  BY DEF Select
<1> HIDE DEF rows
<1>5. PICK k \in Coroutine : k = WithRows(task[t], rows)
  BY <1>2, <1>3 DEF Coroutine, WithRows, Running
<1>6. /\ k.pc = "rows" /\ k.rows = rows /\ k.stage = task[t].stage
      /\ k.listed = task[t].listed /\ k.score = task[t].score
  BY <1>2, <1>5 DEF Coroutine, WithRows
<1>7. SumSound(e, k)
  BY <1>2, <1>6 DEF SumSound
<1>8. LoopSound(e, k)
  <2>1. k.rows = Selected(e, k.stage)
    BY <1>6 DEF rows
  <2>2. k.listed = {} /\ ListedNow(k.stage, {}) = {}
    BY <1>1, <1>2, <1>6 DEF LoopSound, ListedNow
  <2>3. Selected(e, k.stage) \ k.rows = {}
    BY <2>1
  <2>4. k.listed = ListedNow(k.stage, Selected(e, k.stage) \ k.rows)
    BY <2>2, <2>3
  <2>5. QED
    BY <1>6, <2>1, <2>3, <2>4 DEF LoopSound
<1>9. AskSound(e, k)
  BY <1>6 DEF AskSound
<1>10. TaskNext(t)
  BY DEF TaskNext
<1>11. ScoreSound(e, k) /\ Moves(t, k)
  BY <1>4, <1>5, <1>7, <1>8, <1>9 DEF ScoreSound
<1>12. QED
  BY <1>4, <1>10, <1>11, QuietScores

\* a success is an attempt without logs: the body has no counts at its top level
LEMMA SuccessHasNoLogs ==
    ASSUME NEW x, VerifySuccess(OtpLogsAnswer(x))
    PROVE  otpLogs[x] = NoLogs
<1> SUFFICES ASSUME otpLogs[x] # NoLogs PROVE FALSE
  OBVIOUS
<1> DEFINE body == [data |-> [sent_logs_count |-> otpLogs[x].sent,
                              verified_logs_count |-> otpLogs[x].verified]]
<1>1. OtpLogsAnswer(x) = [status |-> 200, body |-> body]
  BY DEF OtpLogsAnswer
<1>2. "sent_logs_count" \notin DOMAIN body
  OBVIOUS
<1> HIDE DEF body
<1>3. Get(body, "sent_logs_count") # 1
  BY <1>2, NoneAssumption DEF Get
<1>4. OtpLogsAnswer(x).status = 200 /\ OtpLogsAnswer(x).body = body
  BY <1>1
<1>5. QED
  BY <1>3, <1>4 DEF VerifySuccess

LEMMA AnswerScores ==
    ASSUME RiskInv, Apart, ScoreInv, NEW t \in Task, Answer(t)
    PROVE  ScoreInv'
<1> DEFINE e == t[1]
           b == VerifySuccess(OtpLogsAnswer(task[t].asked))
<1>1. task[t].pc = "ask" /\ task[t].pc \in Scoring
  BY DEF Answer, Scoring
<1>2. /\ e \in Events /\ task[t] \in Coroutine /\ task[t].stage \in Stage
      /\ SumSound(e, task[t]) /\ LoopSound(e, task[t]) /\ AskSound(e, task[t])
  BY <1>1, ScoreState
<1>3. /\ Moves(t, WithAnswer(task[t], b))
      /\ UNCHANGED <<auth, attempts, lists>>
  BY DEF Answer
<1>4. b \in BOOLEAN
  BY DEF VerifySuccess
<1>5. b => Gone(task[t].asked)
  BY SuccessHasNoLogs DEF Gone, NoLogs
<1> HIDE DEF b
<1>6. PICK k \in Coroutine : k = WithAnswer(task[t], b)
  BY <1>2, <1>4 DEF Coroutine, WithAnswer, Running
<1>7. /\ k.pc = "answer" /\ k.answer = b /\ k.rows = task[t].rows
      /\ k.stage = task[t].stage /\ k.score = task[t].score
      /\ k.asked = task[t].asked /\ k.listed = task[t].listed
  BY <1>2, <1>6 DEF Coroutine, WithAnswer
<1>8. SumSound(e, k)
  BY <1>2, <1>7 DEF SumSound
<1>9. LoopSound(e, k)
  BY <1>1, <1>2, <1>7 DEF LoopSound
<1>10. AskSound(e, k)
  BY <1>1, <1>2, <1>5, <1>7 DEF AskSound
<1>11. TaskNext(t)
  BY DEF TaskNext
<1>12. ScoreSound(e, k) /\ Moves(t, k)
  BY <1>3, <1>6, <1>8, <1>9, <1>10 DEF ScoreSound
<1>13. QED
  BY <1>3, <1>11, <1>12, QuietScores

\* the first factor: nothing is added yet but what needs no query
LEMMA FromLastScores ==
    ASSUME RiskInv, Apart, ScoreInv, NEW t \in Task, TaskNext(t),
           NEW s \in {"last", "first"}, task[t].pc \in Scoring, FromLast(t, s),
           UNCHANGED <<auth, attempts, lists>>, ~ LastAt100(t[1]),
           s = "first" => OfEmail(t[1]) # {}
    PROVE  ScoreInv'
<1> DEFINE e == t[1]
           l == login[e]
           next == StageAfter(l, s)
           n == IF next = "first" THEN 0 ELSE StaticRisk(l)
<1>1. l \in LoginEvent(Emails, Values)
  BY ScoreState
<1>2. next \in {"first", "ip"} /\ next \in Stage /\ (s = "first" => next = "ip")
  BY <1>1, NextStage DEF Stage
<1>3. s = "last" => (next = "first" <=> l.known)
  BY <1>1, KnownAsksFirst
<1>4. n \in Nat
  BY StaticRiskType
<1>5. Moves(t, OnTo(task[t], next, n))
  BY DEF FromLast
<1>6. SumBefore(e, "ip") = StaticRisk(l)
  <2>1. /\ Paid(e, "ip", "ip") = 0 /\ Paid(e, "ip", "agent") = 0
        /\ Paid(e, "ip", "country") = 0 /\ Paid(e, "ip", "region") = 0
    BY DEF Paid, Place
  <2>2. StaticRisk(l) \in Nat
    BY StaticRiskType
  <2>3. QED
    BY <2>1, <2>2 DEF SumBefore
<1>7. PassedSettled(e, "ip")
  BY DEF PassedSettled, Factors, Place
<1>8. next = "ip" => n = SumBefore(e, "ip") /\ ~ (l.known /\ OfEmail(e) = {})
  BY <1>2, <1>3, <1>6
<1>9. next = "first" => l.known
  BY <1>2, <1>3
<1>10. Queries(l, "ip")
  BY DEF Queries
<1> HIDE DEF n, next
<1>11. ASSUME NEW k \in Coroutine, k.pc = "query", k.stage = next, k.score = n
       PROVE  SumSound(e, k)
  <2>1. CASE next = "first"
    BY <1>9, <1>11, <2>1 DEF SumSound, Loops, Factors
  <2>2. CASE next = "ip"
    BY <1>7, <1>8, <1>10, <1>11, <2>2 DEF SumSound, Loops, Factors
  <2>3. QED
    BY <1>2, <2>1, <2>2
<1>12. QED
  BY <1>2, <1>4, <1>5, <1>11, OnToScores

\* the result of the first query: the attempts that came last
LEMMA LastRows ==
    ASSUME RiskInv, ScoreInv, NEW t \in Task, task[t].pc = "rows", task[t].stage = "last"
    PROVE  task[t].rows = {r \in OfEmail(t[1]) : Newer(t[1], r) = {}}
<1>1. task[t].rows = Selected(t[1], "last")
  BY ScoreState DEF LoopSound, Scoring
<1>2. Selected(t[1], "last") = Newest(OfEmail(t[1]), 1)
  BY DEF Selected
<1>3. QED
  BY <1>1, <1>2, NewestOne DEF ScoreInv

LEMMA LastPassesScores ==
    ASSUME RiskInv, Apart, ScoreInv, NEW t \in Task, LastPasses(t)
    PROVE  ScoreInv'
<1>1. ~ LastAt100(t[1])
  BY LastRows DEF LastPasses, LastAt100
<1>2. TaskNext(t) /\ task[t].pc \in Scoring
  BY DEF TaskNext, LastPasses, Scoring
<1>3. QED
  BY <1>1, <1>2, FromLastScores DEF LastPasses

LEMMA LastUnverifiedScores ==
    ASSUME RiskInv, Apart, ScoreInv, NEW t \in Task, LastUnverified(t)
    PROVE  ScoreInv'
<1>1. LastAt100(t[1]) /\ LastBad(t[1])
  BY LastRows DEF LastUnverified, LastAt100, LastBad
<1>2. Due(t[1]) = 100
  BY <1>1 DEF Due
<1>3. \A k \in Coroutine : k.pc = "query" /\ k.stage = "seen" /\ k.score = 100 =>
                              SumSound(t[1], k)
  BY <1>2 DEF SumSound, Loops, Factors
<1>4. TaskNext(t) /\ "seen" \in Stage /\ 100 \in Nat
  BY DEF TaskNext, Stage
<1>5. QED
  BY <1>3, <1>4, OnToScores DEF LastUnverified

LEMMA LastAsksScores ==
    ASSUME RiskInv, Apart, ScoreInv, NEW t \in Task, LastAsks(t)
    PROVE  ScoreInv'
<1> DEFINE e == t[1]
<1>1. /\ task[t].pc = "rows" /\ task[t].stage = "last"
      /\ task[t].pc \in Scoring
      /\ UNCHANGED <<auth, attempts, lists>>
  BY DEF LastAsks, Scoring
<1>2. PICK r \in task[t].rows : r.score = 100 /\ Moves(t, Asks(task[t], r.event, {}, {}))
  BY DEF LastAsks
<1>3. e \in Events /\ task[t] \in Coroutine /\ LoopSound(e, task[t])
  BY <1>1, ScoreState
<1>4. r \in Attempt /\ r.event \in Events
  BY <1>2, <1>3 DEF Coroutine, Attempt
<1>5. PICK k \in Coroutine : k = Asks(task[t], r.event, {}, {})
  BY <1>3, <1>4 DEF Coroutine, Asks, Running, Waiting
<1>6. /\ k.pc = "ask" /\ k.asked = r.event /\ k.rows = {} /\ k.stage = "last"
  BY <1>1, <1>3, <1>5 DEF Coroutine, Asks
<1>7. r \in OfEmail(e) /\ Newer(e, r) = {}
  BY <1>1, <1>2, LastRows
<1>8. r \in Selected(e, "last")
  BY <1>1, <1>2, <1>3 DEF LoopSound
<1>9. ScoreSound(e, k)
  <2>1. SumSound(e, k) /\ LoopSound(e, k)
    BY <1>6 DEF SumSound, LoopSound, Loops, Factors
  <2>2. AskSound(e, k)
    BY <1>2, <1>6, <1>7, <1>8 DEF AskSound, Loops, Factors
  <2>3. QED
    BY <2>1, <2>2 DEF ScoreSound
<1>10. TaskNext(t) /\ Moves(t, k)
  BY <1>2, <1>5 DEF TaskNext
<1>11. QED
  BY <1>1, <1>9, <1>10, QuietScores

\* The answer about the last attempt decides: it is the only one that came
\* last, so 0 means that no unverified one did.
LEMMA LastAnsweredScores ==
    ASSUME RiskInv, Apart, ScoreInv, NEW t \in Task, LastAnswered(t)
    PROVE  ScoreInv'
<1>1. PICK e \in Events : e = t[1]
  BY TaskState
<1>2. PICK k0 \in Coroutine : k0 = task[t]
  BY TaskState
<1> DEFINE n == IF k0.answer THEN 0 ELSE 100
<1>3. /\ k0.pc = "answer" /\ k0.stage = "last" /\ task[t].pc \in Scoring
      /\ tot_verified' = VerifiedWith(k0)
      /\ tot_unverified' = UnverifiedWith(k0)
      /\ Moves(t, OnTo(k0, "seen", n))
      /\ UNCHANGED <<auth, attempts>>
  BY <1>2 DEF LastAnswered, Scoring
<1>4. AskSound(e, k0)
  BY <1>1, <1>2, <1>3, ScoreState
<1>5. PICK r \in OfEmail(e) : Newer(e, r) = {} /\ r.score = 100 /\ r.event = k0.asked
  BY <1>3, <1>4 DEF AskSound
<1>6. k0.answer => k0.asked \notin tot_unverified \/ Gone(k0.asked)
  BY <1>3, <1>4 DEF AskSound
<1>7. login' = login /\ stamp' = stamp /\ attempts' = attempts
  BY <1>3 DEF auth
<1>8. SameView(e)
  <2>1. OfEmail(e)' = OfEmail(e)
    BY <1>7 DEF OfEmail
  <2>2. QED
    BY <1>7, <2>1 DEF SameView
<1>9. OfEmail(e)' = OfEmail(e) /\ \A q \in OfEmail(e) : Newer(e, q)' = Newer(e, q)
  BY <1>8, NewerStays DEF SameView
<1>10. LastAt100(e)'
  BY <1>5, <1>9 DEF LastAt100
<1>11. Due(e)' = n \/ (n = 0 /\ LastForgotten(e)')
  <2>1. CASE ~ k0.answer
    <3>1. r.event \in tot_unverified'
      BY <1>3, <1>5, <2>1 DEF UnverifiedWith
    <3>2. LastBad(e)'
      BY <1>5, <1>9, <2>1, <3>1 DEF LastBad
    <3>3. QED
      BY <1>10, <2>1, <3>2 DEF Due
  <2>2. CASE k0.answer /\ k0.asked \notin tot_unverified
    <3>1. tot_unverified' = tot_unverified
      BY <1>3, <2>2 DEF UnverifiedWith
    <3>2. \A q \in OfEmail(e) : Newer(e, q) = {} => q = r
      BY <1>5, NewestUnique DEF ScoreInv
    <3>3. \A q \in OfEmail(e) : Newer(e, q) = {} => q.event \notin tot_unverified'
      BY <1>5, <2>2, <3>1, <3>2
    <3>4. ~ LastBad(e)'
      BY <1>9, <2>2, <3>3 DEF LastBad
    <3>5. QED
      BY <1>10, <2>2, <3>4 DEF Due
  <2>3. CASE k0.answer /\ k0.asked \in tot_unverified
    <3>1. Gone(k0.asked)
      BY <1>6, <2>3
    <3>2. k0.asked \in tot_verified' /\ k0.asked \in tot_unverified'
      BY <1>3, <2>3 DEF VerifiedWith, UnverifiedWith
    <3>3. /\ r \in OfEmail(e)'
          /\ {q \in OfEmail(e)' : stamp'[q.event] > stamp'[r.event]} = {}
      BY <1>5, <1>9 DEF Newer
    <3>4. otpLogs'[r.event].sent = 0 /\ otpLogs'[r.event].failed = 0
      BY <1>3, <1>5, <3>1 DEF Gone, auth
    <3>5. LastForgotten(e)'
      BY <1>5, <3>2, <3>3, <3>4 DEF LastForgotten
    <3>6. QED
      BY <2>3, <3>5
  <2>4. QED
    BY <2>1, <2>2, <2>3
<1>12. n \in Nat /\ "seen" \in Stage
  BY DEF Stage
<1> HIDE DEF n
<1>13. PICK m \in Nat : m = n
  BY <1>12
<1>14. PICK k \in Coroutine : k = OnTo(k0, "seen", m)
  BY <1>12, OnToState
<1>15. k.pc = "query" /\ k.stage = "seen" /\ k.score = m /\ k.listed = {}
  BY <1>12, <1>14, OnToState
<1>16. SumSound(e, k)'
  BY <1>11, <1>13, <1>15 DEF SumSound, Loops, Factors
<1>17. LoopSound(e, k)' /\ AskSound(e, k)'
  BY <1>15 DEF LoopSound, AskSound
<1>18. ScoreSound(e, k)'
  BY <1>16, <1>17 DEF ScoreSound
<1>19. StepOf(t) /\ Moves(t, k)
  BY <1>3, <1>13, <1>14, TaskNextIsStep DEF TaskNext
<1>20. QED
  BY <1>1, <1>18, <1>19, StepKeepsScores

LEMMA FirstLoginScores ==
    ASSUME RiskInv, Apart, ScoreInv, NEW t \in Task, FirstLogin(t)
    PROVE  ScoreInv'
<1> DEFINE e == t[1]
<1>1. /\ task[t].pc = "rows" /\ task[t].stage = "first" /\ task[t].pc \in Scoring
      /\ UNCHANGED <<auth, attempts, lists>>
  BY DEF FirstLogin, Scoring
<1>2. SumSound(e, task[t]) /\ LoopSound(e, task[t])
  BY <1>1, ScoreState
<1>3. task[t].rows = OfEmail(e)
  BY <1>1, <1>2 DEF LoopSound, Selected
<1>4. ~ LastAt100(e) /\ login[e].known
  BY <1>1, <1>2 DEF SumSound
<1>5. TaskNext(t)
  BY DEF TaskNext
<1>6. CASE task[t].rows = {}
  <2>1. Due(e) = 50
    BY <1>3, <1>4, <1>6 DEF Due
  <2>2. \A k \in Coroutine : k.pc = "query" /\ k.stage = "seen" /\ k.score = 50 =>
                                SumSound(e, k)
    BY <2>1 DEF SumSound, Loops, Factors
  <2>3. Moves(t, OnTo(task[t], "seen", 50)) /\ "seen" \in Stage /\ 50 \in Nat
    BY <1>6 DEF FirstLogin, Stage
  <2>4. QED
    BY <1>1, <1>5, <2>2, <2>3, OnToScores
<1>7. CASE task[t].rows # {}
  <2>1. FromLast(t, "first")
    BY <1>7 DEF FirstLogin
  <2>2. QED
    BY <1>1, <1>3, <1>4, <1>5, <1>7, <2>1, FromLastScores
<1>8. QED
  BY <1>6, <1>7

-----------------------------------------------------------------------------
(* The loops *)

\* What the loop of k knows once it has noted the answer in hand: the attempts
\* that it has gone through are settled, and listed if the lists say so; the
\* factors before it are as they were.
LoopNoted(e, k) ==
    /\ SameView(e)
    /\ k.rows \subseteq Selected(e, k.stage)
    /\ Selected(e, k.stage) \subseteq OfEmail(e)
    /\ \A q \in Selected(e, k.stage) \ k.rows : SettledNow(k.stage, q)'
    /\ \A x : x \in ListedWith(k) <=>
          \E q \in Selected(e, k.stage) \ k.rows :
             q.event = x /\ Lists(k.stage, q, tot_verified, tot_unverified)'
    /\ \A f \in Factors : Place[f] < Place[k.stage] /\ Queries(login[e], f) =>
          /\ Remembered(e, f)' <=> Remembered(e, f)
          /\ \A r \in Sharing(e, f) : r.event \in tot_verified' \cup tot_unverified'

LEMMA LoopNotes ==
    ASSUME RiskInv, ScoreInv, NEW t \in Task, NEW e, e = t[1], NEW k, k = task[t],
           k.pc \in {"rows", "answer"}, k.stage \in Loops,
           tot_verified' = VerifiedWith(k), tot_unverified' = UnverifiedWith(k),
           UNCHANGED <<auth, attempts>>
    PROVE  LoopNoted(e, k)
<1> DEFINE S == Selected(e, k.stage)
<1>1. /\ k \in Coroutine /\ k.stage \in Stage
      /\ SumSound(e, k) /\ LoopSound(e, k) /\ AskSound(e, k)
  BY ScoreState DEF Scoring
<1>2. login' = login /\ stamp' = stamp /\ attempts' = attempts
  BY DEF auth
<1>3. SameView(e)
  <2>1. OfEmail(e)' = OfEmail(e)
    BY <1>2 DEF OfEmail
  <2>2. QED
    BY <1>2, <2>1 DEF SameView
<1>4. S \subseteq OfEmail(e)
  BY <1>1, SelectedOfEmail DEF Loops, Factors
<1>5. /\ k.rows \subseteq S
      /\ \A r \in S \ k.rows : r.event = k.asked \/ SettledNow(k.stage, r)
      /\ k.listed = ListedNow(k.stage, S \ k.rows)
      /\ k.pc = "rows" => k.rows = S
  BY <1>1 DEF LoopSound, Loops, Factors
<1>6. k.pc = "answer" =>
         /\ \E r \in S \ k.rows : r.event = k.asked
         /\ k.asked \notin tot_verified \cup tot_unverified
         /\ k.stage = "streak" => login[k.asked].ok
  BY <1>1 DEF AskSound
<1> HIDE DEF S
<1>7. /\ tot_verified' = tot_verified \cup (IF k.pc = "answer" /\ k.answer THEN {k.asked} ELSE {})
      /\ tot_unverified' = tot_unverified
                             \cup (IF k.pc = "answer" /\ ~ k.answer THEN {k.asked} ELSE {})
  BY DEF VerifiedWith, UnverifiedWith
<1>8. \A q \in S \ k.rows : SettledNow(k.stage, q)'
  <2>1. SUFFICES ASSUME NEW q \in S \ k.rows PROVE SettledNow(k.stage, q)'
    OBVIOUS
  <2>2. k.pc = "answer"
    BY <1>5, <2>1
  <2>3. CASE q.event = k.asked
    BY <1>7, <2>2, <2>3 DEF SettledNow, Settled
  <2>4. CASE SettledNow(k.stage, q)
    BY <1>2, <1>7, <2>4 DEF SettledNow, Settled
  <2>5. QED
    BY <1>5, <2>1, <2>3, <2>4
<1>9. k.stage # "streak" <=> k.stage \in Factors
  BY DEF Loops, Factors
<1>10. ASSUME NEW x
       PROVE  x \in ListedWith(k) <=>
                 \E q \in S \ k.rows :
                    q.event = x /\ Lists(k.stage, q, tot_verified, tot_unverified)'
  <2>1. x \in k.listed <=>
           \E q \in S \ k.rows :
              q.event = x /\ Lists(k.stage, q, tot_verified, tot_unverified)
    BY <1>5 DEF ListedNow
  <2>2. CASE k.pc = "rows"
    BY <1>2, <1>5, <2>1, <2>2 DEF ListedWith
  <2>3. CASE k.pc = "answer"
    <3>1. ASSUME NEW q \in S \ k.rows
          PROVE  Lists(k.stage, q, tot_verified, tot_unverified)' <=>
                    \/ Lists(k.stage, q, tot_verified, tot_unverified)
                    \/ q.event = k.asked /\ k.answer = (k.stage # "streak")
      <4>1. CASE k.stage = "streak"
        BY <1>1, <1>2, <1>6, <1>7, <2>3, <4>1 DEF Lists, Coroutine
      <4>2. CASE k.stage # "streak"
        BY <1>1, <1>2, <1>7, <2>3, <4>2 DEF Lists, Coroutine
      <4>3. QED
        BY <4>1, <4>2
    <3>2. x \in ListedWith(k) <=>
             x \in k.listed \/ (x = k.asked /\ k.answer = (k.stage # "streak"))
      BY <2>3 DEF ListedWith
    <3>3. QED
      BY <1>6, <2>1, <2>3, <3>1, <3>2
  <2>4. QED
    BY <2>2, <2>3
<1>11. ASSUME NEW f \in Factors, Place[f] < Place[k.stage], Queries(login[e], f)
       PROVE  /\ Remembered(e, f)' <=> Remembered(e, f)
              /\ \A r \in Sharing(e, f) : r.event \in tot_verified' \cup tot_unverified'
  <2>1. \A r \in Sharing(e, f) : r.event \in tot_verified \cup tot_unverified
    BY <1>1, <1>11 DEF SumSound, PassedSettled
  <2>2. \A r \in Sharing(e, f) : k.pc = "answer" => r.event # k.asked
    BY <1>6, <2>1
  <2>3. \A r \in Sharing(e, f) : r.event \in tot_verified' <=> r.event \in tot_verified
    BY <1>7, <2>2
  <2>4. Sharing(e, f)' = Sharing(e, f)
    BY <1>3, SharingStays
  <2>5. Remembered(e, f)' <=> Remembered(e, f)
    BY <2>3, <2>4 DEF Remembered
  <2>6. QED
    BY <1>7, <2>1, <2>5
<1>12. QED
  BY <1>3, <1>4, <1>5, <1>8, <1>10, <1>11 DEF S, LoopNoted

\* the loop goes on to ask about attempt r
LEMMA LoopAsksScores ==
    ASSUME RiskInv, Apart, ScoreInv, NEW t \in Task, LoopAsks(t)
    PROVE  ScoreInv'
<1>1. PICK e \in Events : e = t[1]
  BY TaskState
<1>2. PICK k0 \in Coroutine : k0 = task[t]
  BY TaskState
<1> DEFINE s == k0.stage
<1>3. /\ k0.pc \in {"rows", "answer"} /\ k0.pc \in Scoring /\ s \in Loops /\ s \in Stage
      /\ tot_verified' = VerifiedWith(k0)
      /\ tot_unverified' = UnverifiedWith(k0)
      /\ UNCHANGED <<auth, attempts>>
  BY <1>2 DEF LoopAsks, Scoring, Loops, Coroutine
<1>4. PICK r \in k0.rows, left \in SUBSET k0.rows :
         LET done == k0.rows \ (left \cup {r})
         IN /\ r \notin left
            /\ ~ Settled(s, r, tot_verified', tot_unverified')
            /\ \A q \in done : Settled(s, q, tot_verified', tot_unverified')
            /\ Moves(t, Asks(k0, r.event, left, ListedAfter(k0, done)))
  BY <1>2 DEF LoopAsks
<1>0. login' = login
  BY <1>3 DEF auth
<1> DEFINE done == k0.rows \ (left \cup {r})
<1>5. /\ SameView(e)
      /\ k0.rows \subseteq Selected(e, s) /\ Selected(e, s) \subseteq OfEmail(e)
      /\ \A q \in Selected(e, s) \ k0.rows : SettledNow(s, q)'
      /\ \A x : x \in ListedWith(k0) <=>
            \E q \in Selected(e, s) \ k0.rows :
               q.event = x /\ Lists(s, q, tot_verified, tot_unverified)'
      /\ \A f \in Factors : Place[f] < Place[s] /\ Queries(login[e], f) =>
            /\ Remembered(e, f)' <=> Remembered(e, f)
            /\ \A q \in Sharing(e, f) : q.event \in tot_verified' \cup tot_unverified'
  <2>1. LoopNoted(e, k0)
    BY <1>1, <1>2, <1>3, LoopNotes
  <2>2. QED
    BY <2>1 DEF LoopNoted
<1>6. PICK S : S = Selected(e, s)
  OBVIOUS
<1>7. S = Selected(e, s)'
  BY <1>3, <1>5, <1>6, SelectedStays DEF Loops, Factors
<1>8. PICK listed : listed = ListedAfter(k0, done)
  OBVIOUS
<1>9. \A q \in S \ left : q # r => SettledNow(s, q)'
  <2>1. \A q \in done : SettledNow(s, q)'
    BY <1>4, <1>0 DEF SettledNow, Settled
  <2>2. QED
    BY <1>5, <1>6, <2>1
<1>11. ~ Lists(s, r, tot_verified, tot_unverified)'
  BY <1>4, <1>0 DEF Settled, Lists
<1>12. listed = ListedNow(s, S \ left)'
  <2>1. \A x : x \in listed <=>
           \/ x \in ListedWith(k0)
           \/ \E q \in done : q.event = x /\ Lists(s, q, tot_verified, tot_unverified)'
    BY <1>3, <1>8, <1>0 DEF ListedAfter, Lists
  <2>2. \A x : x \in ListedNow(s, S \ left)' <=>
           \E q \in S \ left : q.event = x /\ Lists(s, q, tot_verified, tot_unverified)'
    BY DEF ListedNow
  <2>3. \A q : q \in S \ left <=> q \in S \ k0.rows \/ q \in done \/ q = r
    BY <1>4, <1>5, <1>6
  <2>4. ASSUME NEW x PROVE x \in listed <=> x \in ListedNow(s, S \ left)'
    <3> DEFINE P(q) == q.event = x /\ Lists(s, q, tot_verified, tot_unverified)'
    <3>1. x \in listed <=> (\E q \in S \ k0.rows : P(q)) \/ (\E q \in done : P(q))
      BY <1>5, <1>6, <2>1
    <3>2. x \in ListedNow(s, S \ left)' <=> \E q \in S \ left : P(q)
      BY <2>2
    <3>3. ~ P(r)
      BY <1>11
    <3> HIDE DEF P
    <3>4. QED
      BY <2>3, <3>1, <3>2, <3>3
  <2>5. listed \subseteq Events
    BY <1>2, <1>8, ListedAfterType
  <2>6. ListedNow(s, S \ left)' \subseteq Events
    BY <2>4, <2>5
  <2>7. QED
    BY <2>4, <2>5, <2>6
<1>13. k0.rows \subseteq Attempt /\ r.event \in Events /\ listed \subseteq Events
  BY <1>2, <1>4, <1>8, ListedAfterType DEF Coroutine, Attempt
<1>14. PICK k \in Coroutine : k = Asks(k0, r.event, left, listed)
  BY <1>13 DEF Coroutine, Asks, Running, Waiting
<1>15. /\ k.pc = "ask" /\ k.asked = r.event /\ k.rows = left /\ k.listed = listed
       /\ k.stage = s /\ k.score = k0.score
  BY <1>14 DEF Coroutine, Asks
<1>16. SumSound(e, k0)
  BY <1>1, <1>2, <1>3, ScoreState
<1>17. SumSound(e, k)'
  <2>1. /\ ~ LastAt100(e) /\ Queries(login[e], s)
        /\ ~ (login[e].known /\ OfEmail(e) = {})
        /\ k0.score = SumBefore(e, s)
    BY <1>3, <1>16 DEF SumSound
  <2>2. ~ LastAt100(e)' /\ OfEmail(e)' = OfEmail(e)
    BY <1>5, <2>1, LastStays DEF SameView
  <2>3. SumBefore(e, s)' = SumBefore(e, s)
    BY <1>3, <1>5, <1>0, SumStays
  <2>4. \A f : Sharing(e, f)' = Sharing(e, f)
    BY <1>5, SharingStays
  <2>5. PassedSettled(e, s)'
    BY <1>5, <1>0, <2>4 DEF PassedSettled
  <2>6. s # "first" /\ s # "seen"
    BY <1>3 DEF Loops, Factors
  <2>7. /\ k.stage = s /\ k.score = SumBefore(e, s)'
    BY <1>15, <2>1, <2>3
  <2>8. QED
    BY <1>0, <2>1, <2>2, <2>5, <2>6, <2>7 DEF SumSound
<1>18. LoopSound(e, k)'
  <2>1. left \subseteq S
    BY <1>5, <1>6
  <2>2. \A q \in S \ left : q.event = k.asked \/ SettledNow(s, q)'
    BY <1>9, <1>15
  <2>3. ListedNow(s, Selected(e, s) \ left)' = ListedNow(s, S \ left)'
    BY <1>7 DEF ListedNow
  <2>4. QED
    BY <1>7, <1>12, <1>15, <2>1, <2>2, <2>3 DEF LoopSound
<1>19. AskSound(e, k)'
  <2>1. r \in S \ left
    BY <1>4, <1>5, <1>6
  <2>2. /\ r.event \notin tot_verified' \cup tot_unverified'
        /\ s = "streak" => login'[r.event].ok
    BY <1>4, <1>0 DEF Settled
  <2>3. s # "last"
    BY <1>3 DEF Loops, Factors
  <2>4. QED
    BY <1>3, <1>7, <1>15, <2>1, <2>2, <2>3 DEF AskSound
<1>20. ScoreSound(e, k)'
  BY <1>17, <1>18, <1>19 DEF ScoreSound
<1>21. StepOf(t) /\ Moves(t, k)
  BY <1>4, <1>8, <1>14, TaskNextIsStep DEF TaskNext
<1>22. QED
  BY <1>1, <1>20, <1>21, StepKeepsScores

\* the attempts that make the streak with the lists V and U, and the events that
\* its loop lists
BadWith(e, U) == {r \in OfEmail(e) : /\ Cardinality(Newer(e, r)) < 3
                                     /\ r.event \in U \/ ~ login[r.event].ok}
ListedWhen(e, V, U) == {r.event : r \in {q \in LastThree(e) : Lists("streak", q, V, U)}}

\* three bad attempts are three events: an event has one row
LEMMA StreakCounts ==
    ASSUME RiskInv, ScoreInv, NEW e, NEW V, NEW U
    PROVE  Cardinality(ListedWhen(e, V, U)) = 3 <=> Cardinality(BadWith(e, U)) = 3
<1> DEFINE bad == BadWith(e, U)
           listed == ListedWhen(e, V, U)
<1>0. /\ bad = {r \in OfEmail(e) : /\ Cardinality(Newer(e, r)) < 3
                                   /\ r.event \in U \/ ~ login[r.event].ok}
      /\ \A x : x \in listed <=>
            \E q \in LastThree(e) : q.event = x /\ Lists("streak", q, V, U)
  BY DEF BadWith, ListedWhen
<1> SUFFICES Cardinality(listed) = 3 <=> Cardinality(bad) = 3
  OBVIOUS
<1> HIDE DEF bad, listed
<1>1. IsFiniteSet(OfEmail(e)) /\ bad \in SUBSET OfEmail(e)
  BY <1>0, NewestOne DEF ScoreInv
<1>2. IsFiniteSet(bad) /\ Cardinality(bad) <= Cardinality(OfEmail(e))
  BY <1>1, FS_Subset
<1>3. Cardinality(bad) \in Nat /\ Cardinality(OfEmail(e)) \in Nat
  BY <1>1, <1>2, FS_CardinalityType
<1>4. CASE Cardinality(OfEmail(e)) < 3
  <2>1. LastThree(e) = {}
    BY <1>4 DEF LastThree
  <2>2. listed = {}
    BY <1>0, <2>1
  <2>3. Cardinality(listed) = 0
    BY <2>2, FS_EmptySet
  <2>4. QED
    BY <1>2, <1>3, <1>4, <2>3
<1>5. CASE ~ (Cardinality(OfEmail(e)) < 3)
  <2>1. LastThree(e) = {r \in OfEmail(e) : Cardinality(Newer(e, r)) < 3}
    BY <1>5, NewestIs DEF LastThree
  <2>2. \A r : r \in bad <=> r \in LastThree(e) /\ Lists("streak", r, V, U)
    BY <1>0, <2>1 DEF Lists
  <2> DEFINE f == [r \in bad |-> r.event]
  <2>3. f \in [bad -> listed]
    BY <1>0, <2>2
  <2>4. \A q, r \in bad : f[q] = f[r] => q = r
    BY <1>1 DEF ScoreInv, TableInv, OfEmail
  <2>5. \A x \in listed : \E r \in bad : f[r] = x
    BY <1>0, <2>2
  <2> HIDE DEF f
  <2>6. f \in Bijection(bad, listed)
    BY <2>3, <2>4, <2>5, Fun_IsBij
  <2>7. ExistsBijection(bad, listed)
    BY <2>6 DEF ExistsBijection
  <2>8. Cardinality(listed) = Cardinality(bad)
    BY <1>2, <2>7, FS_Bijection
  <2>9. QED
    BY <2>8
<1>6. QED
  BY <1>4, <1>5

LEMMA PlacesDiffer ==
    ASSUME NEW f \in Factors, NEW g \in Loops
    PROVE  /\ f \in Stage /\ g \in Stage
           /\ Place[f] \in Nat /\ Place[g] \in Nat
           /\ Place[f] = Place[g] <=> f = g
BY DEF Factors, Loops, Stage, Place

\* what the sum gains from one stage to the next is what stage s adds
LEMMA SumGrows ==
    ASSUME NEW e, login[e] \in LoginEvent(Emails, Values),
           NEW s \in Factors, Queries(login[e], s)
    PROVE  LET next == StageAfter(login[e], s)
           IN /\ next \in Loops
              /\ Queries(login[e], next)
              /\ \A f \in Factors : Place[f] < Place[next] /\ Queries(login[e], f) <=>
                    (Place[f] < Place[s] /\ Queries(login[e], f)) \/ f = s
<1> DEFINE l == login[e]
           next == StageAfter(l, s)
<1>1. s \in Stage /\ s # "seen"
  BY DEF Stage, Factors
<1>2. /\ next \in Stage /\ Place[next] > Place[s] /\ Queries(l, next)
      /\ \A p \in Stage : Place[p] > Place[s] /\ Queries(l, p) => Place[next] <= Place[p]
  BY <1>1, StageAfterLeast
<1>3. next \in Loops
  <2>1. /\ s = "ip" => next = "agent"
        /\ s \in {"agent", "country", "region"} => next \in {"country", "region", "streak"}
    BY <1>1, NextStage
  <2>2. QED
    BY <2>1 DEF Loops, Factors
<1> HIDE DEF next, l
<1>4. ASSUME NEW f \in Factors
      PROVE  Place[f] < Place[next] /\ Queries(l, f) <=>
                (Place[f] < Place[s] /\ Queries(l, f)) \/ f = s
  <2>1. /\ f \in Stage /\ Place[f] \in Nat /\ Place[s] \in Nat /\ Place[next] \in Nat
        /\ Place[f] = Place[s] <=> f = s
    BY <1>3, PlacesDiffer DEF Loops
  <2>2. Queries(l, f) /\ Place[f] > Place[s] => Place[next] <= Place[f]
    BY <1>2, <2>1
  <2>3. Queries(l, s)
    BY DEF l
  <2>4. QED
    BY <1>2, <2>1, <2>2, <2>3
<1>5. QED
  BY <1>2, <1>3, <1>4 DEF next, l

\* the sum after a step that has decided factor s
LEMMA SumOfNext ==
    ASSUME NEW e, NEW s \in Factors, NEW next, Queries(login[e], s),
           login'[e] = login[e],
           \A f \in Factors : Place[f] < Place[next] /\ Queries(login[e], f) <=>
                    (Place[f] < Place[s] /\ Queries(login[e], f)) \/ f = s
    PROVE  SumBefore(e, next)' =
              SumBefore(e, s)' + (IF Remembered(e, s)' THEN 0 ELSE Points(s))
<1> DEFINE gain == IF Remembered(e, s)' THEN 0 ELSE Points(s)
<1>1. ASSUME NEW f \in Factors
      PROVE  Paid(e, next, f)' = IF f = s THEN gain ELSE Paid(e, s, f)'
  BY <1>1 DEF Paid
<1>2. Paid(e, s, s)' = 0
  BY PlacesDiffer DEF Paid, Loops
<1>3. gain \in Nat
  BY PointsType
<1>4. \A f : Paid(e, s, f)' \in Nat
  BY PointsType DEF Paid
<1>5. StaticRisk(login[e])' \in Nat
  <2>1. StaticRisk(login[e])' = StaticRisk(login[e])
    BY DEF StaticRisk
  <2>2. QED
    BY <2>1, StaticRiskType
<1> HIDE DEF gain
<1>6. /\ Paid(e, next, "ip")' = IF "ip" = s THEN gain ELSE Paid(e, s, "ip")'
      /\ Paid(e, next, "agent")' = IF "agent" = s THEN gain ELSE Paid(e, s, "agent")'
      /\ Paid(e, next, "country")' = IF "country" = s THEN gain ELSE Paid(e, s, "country")'
      /\ Paid(e, next, "region")' = IF "region" = s THEN gain ELSE Paid(e, s, "region")'
  BY <1>1 DEF Factors
<1> DEFINE a == StaticRisk(login[e])'
           b == Paid(e, s, "ip")'
           c == Paid(e, s, "agent")'
           d == Paid(e, s, "country")'
           g == Paid(e, s, "region")'
<1>7. a \in Nat /\ b \in Nat /\ c \in Nat /\ d \in Nat /\ g \in Nat
  BY <1>4, <1>5
<1>8. /\ s = "ip" => b = 0
      /\ s = "agent" => c = 0
      /\ s = "country" => d = 0
      /\ s = "region" => g = 0
  BY <1>2
<1>9. /\ SumBefore(e, s)' = a + b + c + d + g
      /\ SumBefore(e, next)' = a + (IF "ip" = s THEN gain ELSE b)
                                + (IF "agent" = s THEN gain ELSE c)
                                + (IF "country" = s THEN gain ELSE d)
                                + (IF "region" = s THEN gain ELSE g)
  BY <1>6 DEF SumBefore
<1> HIDE DEF a, b, c, d, g
<1>10. SumBefore(e, next)' = SumBefore(e, s)' + gain
  BY <1>3, <1>7, <1>8, <1>9 DEF Factors
<1>11. QED
  BY <1>10 DEF gain

\* The loop is over: a factor is remembered if the loop has listed somebody, and
\* the streak is bad if it has listed three.
LEMMA LoopEndsScores ==
    ASSUME RiskInv, Apart, ScoreInv, NEW t \in Task, LoopEnds(t)
    PROVE  ScoreInv'
<1>1. PICK e \in Events : e = t[1]
  BY TaskState
<1>2. PICK k0 \in Coroutine : k0 = task[t]
  BY TaskState
<1> DEFINE s == k0.stage
<1>3. /\ k0.pc \in {"rows", "answer"} /\ k0.pc \in Scoring /\ s \in Loops /\ s \in Stage
      /\ tot_verified' = VerifiedWith(k0)
      /\ tot_unverified' = UnverifiedWith(k0)
      /\ UNCHANGED <<auth, attempts>>
  BY <1>2 DEF LoopEnds, Scoring, Loops, Coroutine
<1>4. login' = login
  BY <1>3 DEF auth
<1>5. PICK listed : listed = ListedAfter(k0, k0.rows)
  OBVIOUS
<1>6. PICK next : next = StageAfter(login[e], s)
  OBVIOUS
<1> DEFINE sum == k0.score + Gain(s, listed)
           n == IF s = "streak" THEN Capped(sum) ELSE sum
<1>7. /\ Moves(t, OnTo(k0, next, n))
      /\ \A q \in k0.rows : SettledNow(s, q)'
  BY <1>1, <1>2, <1>4, <1>5, <1>6 DEF LoopEnds, SettledNow, Settled
<1>8. /\ SameView(e)
      /\ k0.rows \subseteq Selected(e, s) /\ Selected(e, s) \subseteq OfEmail(e)
      /\ \A q \in Selected(e, s) \ k0.rows : SettledNow(s, q)'
      /\ \A x : x \in ListedWith(k0) <=>
            \E q \in Selected(e, s) \ k0.rows :
               q.event = x /\ Lists(s, q, tot_verified, tot_unverified)'
      /\ \A f \in Factors : Place[f] < Place[s] /\ Queries(login[e], f) =>
            /\ Remembered(e, f)' <=> Remembered(e, f)
            /\ \A q \in Sharing(e, f) : q.event \in tot_verified' \cup tot_unverified'
  <2>1. LoopNoted(e, k0)
    BY <1>1, <1>2, <1>3, LoopNotes
  <2>2. QED
    BY <2>1 DEF LoopNoted
<1>9. \A q \in Selected(e, s) : SettledNow(s, q)'
  BY <1>7, <1>8
<1>10. ASSUME NEW x
       PROVE  x \in listed <=> \E q \in Selected(e, s) :
                 q.event = x /\ Lists(s, q, tot_verified, tot_unverified)'
  <2>1. x \in listed <=>
           \/ x \in ListedWith(k0)
           \/ \E q \in k0.rows : q.event = x /\ Lists(s, q, tot_verified, tot_unverified)'
    BY <1>3, <1>4, <1>5 DEF ListedAfter, Lists
  <2> DEFINE P(q) == q.event = x /\ Lists(s, q, tot_verified, tot_unverified)'
  <2>2. x \in listed <=> (\E q \in Selected(e, s) \ k0.rows : P(q)) \/ (\E q \in k0.rows : P(q))
    BY <1>8, <2>1
  <2> HIDE DEF P
  <2>3. x \in listed <=> \E q \in Selected(e, s) : P(q)
    BY <1>8, <2>2
  <2>4. QED
    BY <2>3 DEF P
<1>11. SumSound(e, k0) /\ login[e] \in LoginEvent(Emails, Values) /\ k0.score \in Nat
  BY <1>1, <1>2, <1>3, ScoreState
<1>12. /\ ~ LastAt100(e)' /\ OfEmail(e)' = OfEmail(e)
       /\ Queries(login[e], s)
       /\ ~ (login[e].known /\ OfEmail(e) = {})
       /\ k0.score = SumBefore(e, s)'
  <2>1. /\ ~ LastAt100(e) /\ Queries(login[e], s)
        /\ ~ (login[e].known /\ OfEmail(e) = {})
        /\ k0.score = SumBefore(e, s)
    BY <1>3, <1>11 DEF SumSound
  <2>2. ~ LastAt100(e)' /\ OfEmail(e)' = OfEmail(e)
    BY <1>8, <2>1, LastStays DEF SameView
  <2>3. SumBefore(e, s)' = SumBefore(e, s)
    BY <1>3, <1>4, <1>8, SumStays
  <2>4. QED
    BY <2>1, <2>2, <2>3
<1>13. Gain(s, listed) \in Nat
  BY <1>3, Risks
<1>14. sum \in Nat /\ n \in Nat
  BY <1>11, <1>13, Cap
<1>15. next \in Stage
  BY <1>3, <1>6, <1>11, NextStage DEF Loops, Factors
<1>16. PICK m \in Nat : m = n
  BY <1>14
<1>17. PICK k \in Coroutine : k = OnTo(k0, next, m)
  BY <1>15, OnToState
<1>18. k.pc = "query" /\ k.stage = next /\ k.score = n /\ k.listed = {}
  BY <1>15, <1>16, <1>17, OnToState
<1> HIDE DEF n, sum
<1>19. CASE s \in Factors
  <2>1. s # "streak"
    BY <1>19 DEF Factors
  <2>2. Selected(e, s) = Sharing(e, s) /\ \A f : Sharing(e, f)' = Sharing(e, f)
    BY <1>8, <1>19, SharingStays DEF Selected, Factors
  <2>3. Remembered(e, s)' <=> listed # {}
    BY <1>10, <2>1, <2>2 DEF Remembered, Lists
  <2>4. Gain(s, listed) = IF Remembered(e, s)' THEN 0 ELSE Points(s)
    BY <2>1, <2>3 DEF Gain
  <2>5. /\ next \in Loops /\ Queries(login[e], next)
        /\ \A f \in Factors : Place[f] < Place[next] /\ Queries(login[e], f) <=>
              (Place[f] < Place[s] /\ Queries(login[e], f)) \/ f = s
    BY <1>6, <1>11, <1>12, <1>19, SumGrows
  <2>6. n = SumBefore(e, next)'
    <3>1. SumBefore(e, next)' = SumBefore(e, s)' + (IF Remembered(e, s)' THEN 0 ELSE Points(s))
      BY <1>4, <1>12, <1>19, <2>5, SumOfNext
    <3>2. n = k0.score + Gain(s, listed)
      BY <2>1 DEF n, sum
    <3>3. QED
      BY <1>12, <2>4, <3>1, <3>2
  <2>7. PassedSettled(e, next)'
    <3>1. SUFFICES ASSUME NEW f \in Factors, Place[f] < Place[next], Queries(login[e], f),
                          NEW r \in Sharing(e, f)
                   PROVE  r.event \in tot_verified' \cup tot_unverified'
      BY <1>4, <2>2 DEF PassedSettled
    <3>2. CASE f = s
      BY <1>9, <2>1, <2>2, <3>1, <3>2 DEF SettledNow, Settled
    <3>3. CASE Place[f] < Place[s]
      BY <1>8, <3>1, <3>3
    <3>4. QED
      BY <2>5, <3>1, <3>2, <3>3
  <2>8. next # "seen" /\ next # "first"
    BY <2>5 DEF Loops, Factors
  <2>9. QED
    <3>1. /\ ~ LastAt100(e)' /\ ~ (login'[e].known /\ OfEmail(e)' = {})
          /\ Queries(login'[e], next)
      BY <1>4, <1>12, <2>5
    <3>2. SumSound(e, k)'
      BY <1>18, <2>6, <2>7, <2>8, <3>1 DEF SumSound
    <3>3. LoopSound(e, k)' /\ AskSound(e, k)'
      BY <1>18 DEF LoopSound, AskSound
    <3>4. ScoreSound(e, k)'
      BY <3>2, <3>3 DEF ScoreSound
    <3>5. StepOf(t) /\ Moves(t, k)
      BY <1>7, <1>16, <1>17, TaskNextIsStep DEF TaskNext
    <3>6. QED
      BY <1>1, <3>4, <3>5, StepKeepsScores
<1>20. CASE s = "streak"
  <2>1. next = "seen"
    BY <1>3, <1>6, <1>11, <1>20, NextStage
  <2>2. Selected(e, s) = LastThree(e)
    BY <1>20 DEF Selected
  <2>3. PICK V : V = tot_verified'
    OBVIOUS
  <2>4. PICK U : U = tot_unverified'
    OBVIOUS
  <2>6. listed = ListedWhen(e, V, U)
    <3>1. \A x : x \in listed <=> x \in ListedWhen(e, V, U)
      BY <1>4, <1>10, <1>20, <2>2, <2>3, <2>4 DEF Lists, ListedWhen
    <3>2. listed \subseteq Events
      BY <1>2, <1>5, ListedAfterType
    <3>3. QED
      BY <3>1, <3>2
  <2>7. Cardinality(listed) = 3 <=> Cardinality(BadWith(e, U)) = 3
    BY <2>6, StreakCounts
  <2>8. BadWith(e, U) = BadOnes(e)'
    <3>1. \A r \in OfEmail(e) : Newer(e, r)' = Newer(e, r)
      BY <1>8, NewerStays
    <3>2. BadOnes(e)' = {r \in OfEmail(e)' :
                            /\ Cardinality(Newer(e, r)') < 3
                            /\ r.event \in tot_unverified' \/ ~ login'[r.event].ok}
      BY DEF BadOnes
    <3>3. QED
      BY <1>4, <1>12, <2>4, <3>1, <3>2 DEF BadWith
  <2>9. Gain(s, listed) = IF Cardinality(BadOnes(e)') = 3 THEN 100 ELSE 0
    BY <1>20, <2>7, <2>8 DEF Gain
  <2>10. n = Capped(SumBefore(e, "streak")'
                      + (IF Cardinality(BadOnes(e)') = 3 THEN 100 ELSE 0))
    BY <1>12, <1>20, <2>9 DEF n, sum
  <2>11. Due(e)' = n
    BY <1>4, <1>12, <2>10 DEF Due
  <2>12. QED
    <3>1. SumSound(e, k)'
      BY <1>18, <2>1, <2>11 DEF SumSound, Loops, Factors
    <3>2. LoopSound(e, k)' /\ AskSound(e, k)'
      BY <1>18 DEF LoopSound, AskSound
    <3>3. ScoreSound(e, k)'
      BY <3>1, <3>2 DEF ScoreSound
    <3>4. StepOf(t) /\ Moves(t, k)
      BY <1>7, <1>16, <1>17, TaskNextIsStep DEF TaskNext
    <3>5. QED
      BY <1>1, <3>3, <3>4, StepKeepsScores
<1>21. QED
  BY <1>3, <1>19, <1>20 DEF Loops

-----------------------------------------------------------------------------
(* The end of the calculation, and the theorem *)

\* from the storing of the row on, the scoring is over
LEMMA StoredScores ==
    ASSUME RiskInv, Apart, ScoreInv, NEW t \in Task,
           \/ PersistNew(t) \/ PersistCommits(t) \/ PersistFails(t)
           \/ Publishes(t) \/ TaskFails(t)
    PROVE  ScoreInv'
<1>1. PICK pc \in {"commit", "stored", "done", "failed"} : Moves(t, WithPc(task[t], pc))
  BY DEF PersistNew, PersistCommits, PersistFails, Publishes, TaskFails
<1>2. PICK k0 \in Coroutine : k0 = task[t]
  BY TaskState
<1>3. PICK k : k = WithPc(k0, pc)
  OBVIOUS
<1>4. k.pc = pc
  BY <1>3, WithPcState
<1>5. ScoreSound(t[1], k)'
  BY <1>4 DEF ScoreSound, Scoring
<1>6. StepOf(t) /\ Moves(t, k)
  BY <1>1, <1>2, <1>3, TaskNextIsStep DEF TaskNext
<1>7. QED
  BY <1>5, <1>6, StepKeepsScores

LEMMA ScoreStep ==
    ASSUME RiskInv, Apart, ScoreInv, [Next]_vars, [KeptWhileScored]_vars
    PROVE  ScoreInv'
<1>1. CASE UNCHANGED vars
  BY <1>1, StutterScores
<1>2. CASE Next /\ KeptWhileScored
  <2>1. ASSUME NEW t \in Task, TaskNext(t) PROVE ScoreInv'
    BY <2>1, SelectScores, AnswerScores, LastPassesScores, LastUnverifiedScores,
       LastAsksScores, LastAnsweredScores, FirstLoginScores, LoopAsksScores,
       LoopEndsScores, StoredScores
    DEF TaskNext
  <2>2. QED
    BY <1>2, <2>1, AuthNextScores, DeletedScores, LogsDeletedScores, RestartScores
    DEF Next
<1>3. QED
  BY <1>1, <1>2

LEMMA ScoreInit == Init => ScoreInv
<1> SUFFICES ASSUME Init PROVE ScoreInv
  OBVIOUS
<1>1. Started = {} /\ attempts = {}
  BY DEF Init, Started
<1>2. StampInv /\ TableInv
  BY <1>1, FS_EmptySet DEF StampInv, TableInv
<1>3. \A t \in Task : task[t].pc = "idle"
  BY DEF Init, TaskIdle
<1>4. \A t \in Task : ScoreSound(t[1], task[t])
  BY <1>3 DEF ScoreSound, Scoring
<1>5. QED
  BY <1>2, <1>4 DEF ScoreInv

LEMMA DueIsRemembered ==
    ASSUME RiskInv, ScoreInv
    PROVE  ScoreMatchesMemory
<1> SUFFICES ASSUME NEW t \in Task, task[t].pc = "query", task[t].stage = "seen"
             PROVE  \/ task[t].score = RememberedScore(t[1])
                    \/ task[t].score = 0 /\ LastForgotten(t[1])
  BY DEF ScoreMatchesMemory
<1>1. /\ t[1] \in Events /\ login[t[1]] \in LoginEvent(Emails, Values)
      /\ SumSound(t[1], task[t])
  BY ScoreState DEF Scoring
<1>2. task[t].score = Due(t[1]) \/ (task[t].score = 0 /\ LastForgotten(t[1]))
  BY <1>1 DEF SumSound
<1>3. QED
  BY <1>1, <1>2, RememberedIsDue

(* Where no two scorings of the same email overlap and nobody deletes the     *)
(* attempts of an email that is being scored, the score that the stages add   *)
(* up, one query and one answer at a time, is what the rules say of the       *)
(* attempts and of what is remembered of them when it is finished; scorings   *)
(* of other emails, failed calls, deletions of otp_logs and restarts do no    *)
(* harm, but that a deletion of otp_logs lets a login score 0 although the    *)
(* last attempt, at 100, is remembered as unverified                          *)
(* (calculate_risk_score, verify_success).                                    *)
THEOREM ScoreRemembered ==
    Spec /\ []Apart /\ [][KeptWhileScored]_vars => []ScoreMatchesMemory
<1>1. RiskInv /\ Apart /\ ScoreInv /\ [Next]_vars /\ [KeptWhileScored]_vars => ScoreInv'
  BY ScoreStep
<1>2. RiskInv /\ ScoreInv => ScoreMatchesMemory
  BY DueIsRemembered
<1>3. QED
  BY <1>1, <1>2, ScoreInit, RiskInvariant, PTL DEF Spec

\* With a bound of one, the coroutines take turns.
Alone == \A t, u \in RunningTasks : t = u

LEMMA AloneStep ==
    ASSUME MaxRunning <= 1, RiskInv, Alone, [Next]_vars
    PROVE  Alone'
<1>1. ASSUME \A u \in Task : task'[u].pc \in Running => task[u].pc \in Running
      PROVE  Alone'
  BY <1>1 DEF Alone, RunningTasks
<1>2. ASSUME NEW t \in Task, TaskNext(t) PROVE Alone'
  <2>1. task[t].pc \in Running /\ \E k : Moves(t, k)
    BY <1>2, TaskNextIsStep DEF StepOf
  <2>2. \A u \in Task : u # t => task'[u] = task[u]
    BY <2>1 DEF Moves, RiskInv, TypeOK
  <2>3. QED
    BY <1>1, <2>1, <2>2
<1>3. ASSUME NEW t \in Task, Cardinality(RunningTasks) < MaxRunning,
             task' = [task EXCEPT ![t] = NewTask]
      PROVE  Alone'
  <2>1. RunningTasks = {}
    <3>1. SUFFICES ASSUME NEW u \in RunningTasks PROVE FALSE
      OBVIOUS
    <3>2. RunningTasks = {u}
      BY <3>1 DEF Alone
    <3>3. Cardinality(RunningTasks) = 1
      BY <3>2, FS_Singleton
    <3>4. QED
      BY <1>3, <3>3, BoundAssumption
  <2>2. \A u \in Task : u # t => task'[u] = task[u]
    BY <1>3 DEF RiskInv, TypeOK
  <2>3. QED
    BY <2>1, <2>2 DEF Alone, RunningTasks
<1>4. ASSUME NEW e \in Events, AuthNext(e) PROVE Alone'
  <2>1. <<e, "api">> \in Task /\ <<e, "mq">> \in Task
    BY DEF Task, Source
  <2>2. CASE task' = task
    BY <1>1, <2>2
  <2>3. CASE \E l \in Logins : LoginRight(e, l)
    BY <1>3, <2>1, <2>3 DEF LoginRight
  <2>4. CASE MqDeliver(e)
    BY <1>3, <2>1, <2>4 DEF MqDeliver
  <2>5. QED
    BY <1>4, <2>2, <2>3, <2>4
    DEF AuthNext, LoginWrong, LoginGivesUp, LoginChecked, OtpVerified
<1>5. ASSUME NEW m \in Emails, AttemptsDeleted(m) \/ LogsDeleted(m) PROVE Alone'
  BY <1>1, <1>5 DEF AttemptsDeleted, LogsDeleted
<1>6. ASSUME Restart PROVE Alone'
  <2>1. ASSUME NEW u \in Task PROVE task'[u].pc \notin Running
    <3>1. task'[u] = IF u \in RunningTasks THEN WithPc(task[u], "failed") ELSE task[u]
      BY <1>6 DEF Restart
    <3>2. WithPc(task[u], "failed").pc = "failed"
      BY TaskState, WithPcState
    <3>3. QED
      BY <3>1, <3>2 DEF RunningTasks, Running, Waiting
  <2>2. QED
    BY <1>1, <2>1
<1>7. CASE UNCHANGED vars
  BY <1>1, <1>7 DEF vars
<1>8. QED
  BY <1>2, <1>4, <1>5, <1>6, <1>7 DEF Next

(* One coroutine at a time, as the run that checks the rules has it: then the *)
(* condition on overlaps is met by itself, and the score is what the rules    *)
(* say as long as nobody deletes the attempts of an email that is being       *)
(* scored (calculate_risk_score).                                             *)
THEOREM ScoreAlone ==
    ASSUME MaxRunning <= 1
    PROVE  Spec /\ [][KeptWhileScored]_vars => []ScoreMatchesMemory
<1>1. Init => Alone
  BY DEF Init, Alone, RunningTasks, TaskIdle, Running, Waiting
<1>2. RiskInv /\ Alone /\ [Next]_vars => Alone'
  BY AloneStep
<1>3. Alone => Apart
  BY DEF Alone, Apart
<1>4. QED
  BY <1>1, <1>2, <1>3, RiskInvariant, ScoreRemembered, PTL DEF Spec
===============================================================================
