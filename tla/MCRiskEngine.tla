----------------------------- MODULE MCRiskEngine -----------------------------
(* Small instances of RiskEngine for TLC. *)
EXTENDS RiskEngine, TLC

CONSTANTS e1, e2, e3, e4

\* a login with email "a@x" from place p
From(p, ok) == [email |-> "a@x", known |-> TRUE, ip |-> p, agent |-> p,
                country |-> "Local", region |-> "Local", odd |-> FALSE, ok |-> ok]

Home      == From("home", TRUE)
HomeWrong == From("home", FALSE)

\* at home with the right or a wrong password
MCHome == {Home, HomeWrong}

\* abroad, with the user agent of home, at night, from a country that the
\* geolocation does not know
Abroad == [Home EXCEPT !.ip = "road", !.country = "Unknown", !.region = "road",
                       !.odd = TRUE]

\* a wrong password from far away at night: 100 unless it is the first attempt
AwayWrong == [From("road", FALSE) EXCEPT !.odd = TRUE, !.country = "Unknown",
                                         !.region = "Unknown"]

\* the email has no account yet
Stranger == [AwayWrong EXCEPT !.known = FALSE]

MCAway == {Home, HomeWrong, Abroad, AwayWrong, Stranger}

\* the bound for the rules: two right passwords, one login from abroad
OneAway == /\ Cardinality({e \in Events : login[e] \in {Home, Abroad}}) <= 2
           /\ Cardinality({e \in Events : login[e] \in {Abroad, AwayWrong, Stranger}}) <= 1

EventSymmetry == Permutations(Events)
===============================================================================
