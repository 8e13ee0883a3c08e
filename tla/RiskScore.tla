------------------------------- MODULE RiskScore --------------------------------
(***************************************************************************)
(* The scoring rules of the Risk Engine (dumb_risk.py,                     *)
(* calculate_risk_score), without the database and the calls they wait     *)
(* for: which stages a login goes through, in which order, and what each   *)
(* of them adds.  RiskEngine runs the stages one by one, among other       *)
(* requests.                                                               *)
(***************************************************************************)
EXTENDS Naturals, FiniteSets

(* Each operator named ...Bug is a plausible slip in the definition that     *)
(* follows it; nothing refers to them.                                       *)

\* The stages that query the attempts of the email, and the two that store
\* the result: "seen" is the SELECT of persist_login_attempt.
Factors == {"ip", "agent", "country", "region"}
Stage   == {"last", "first", "streak", "seen"} \cup Factors

Place == [last |-> 1, first |-> 2, ip |-> 3, agent |-> 4, country |-> 5,
          region |-> 6, streak |-> 7, seen |-> 8]

\* what a factor costs that no verified attempt of the email shares
Points(f) == CASE f = "ip" -> 30 [] f = "agent" -> 20 [] f = "country" -> 15
               [] OTHER -> 10

\* What the service knows of a login: whether the email has an account
\* (user_id), where it comes from, whether its hour is odd and its password
\* was right.  "Local" is a docker address, "Unknown" a failed geolocation.
LoginEvent(emails, values) ==
    [email : emails, known : BOOLEAN, ip : values, agent : values,
     country : values \cup {"Local", "Unknown"},
     region : values \cup {"Local", "Unknown"}, odd : BOOLEAN, ok : BOOLEAN]

\* the stages of login l that need a query
Queries(l, s) ==
    CASE s = "first"               -> l.known
      [] s \in {"country", "region"} -> l[s] \notin {"Local", "Unknown"}
      [] OTHER                     -> TRUE

StageAfter(l, s) ==
    CHOOSE q \in Stage :
        /\ Place[q] > Place[s] /\ Queries(l, q)
        /\ \A p \in Stage : Place[p] > Place[s] /\ Queries(l, p) => Place[q] <= Place[p]

\* the risks that need no query: the hour, a country or region that could not
\* be fetched, a wrong password
StaticRisk(l) ==
      (IF l.odd THEN 20 ELSE 0)
    + (IF l.country = "Unknown" THEN Points("country") ELSE 0)
    + (IF l.region = "Unknown" THEN Points("region") ELSE 0)
    + (IF l.ok THEN 0 ELSE 15)

GainBug(s, listed) ==       \* two bad attempts are enough
    IF s = "streak" THEN (IF Cardinality(listed) >= 2 THEN 100 ELSE 0)
    ELSE IF listed = {} THEN Points(s) ELSE 0
\* what a stage adds once its loop is over: a factor, when the loop has listed
\* no verified attempt, the streak, when it has listed three bad ones
Gain(s, listed) ==
    IF s = "streak" THEN (IF Cardinality(listed) = 3 THEN 100 ELSE 0)
    ELSE IF listed = {} THEN Points(s) ELSE 0

CappedBug(n) == n   \* the cap is forgotten
\* min(score, 100)
Capped(n) == IF n > 100 THEN 100 ELSE n
===============================================================================
