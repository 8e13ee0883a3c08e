---------------------------- MODULE AdaptiveLogin -----------------------------
(***************************************************************************)
(* What the adaptive login promises, without services, caches or clocks: a *)
(* login that is not found safe gets a token only for a device that has    *)
(* proved, with a password sent to the account's address, that it belongs  *)
(* to the account.  AdaptiveMfa implements this specification.             *)
(***************************************************************************)

CONSTANTS
    Logins, Verifications,   \* requests
    Accounts,
    Addresses,
    AddressOf,               \* the address of each account
    Devices,
    None

VARIABLES
    login,         \* login[l]: account, device and answer; None before it starts
    verification,  \* verification[v]: likewise
    safe,          \* logins that the Risk Engine found safe
    challenged,    \* <<address, device>>: a password for the device was sent
    proved         \* <<account, device>>: the password came back

vars == <<login, verification, safe, challenged, proved>>

Answers == {"none", "token", "challenge", "refused"}

Request == [account : Accounts, device : Devices, answer : Answers]

Init ==
    /\ login = [l \in Logins |-> None]
    /\ verification = [v \in Verifications |-> None]
    /\ safe = {}
    /\ challenged = {}
    /\ proved = {}

\* a password was right, or an address known; the answer may come at once
Open(request) == request # None /\ request.answer = "none"

StartLogin(l, a, d) ==
    /\ login[l] = None
    /\ login' = [login EXCEPT ![l] = [account |-> a, device |-> d, answer |-> "none"]]
    /\ UNCHANGED <<verification, safe, challenged, proved>>

StartVerification(v, a, d) ==
    /\ verification[v] = None
    /\ verification' = [verification EXCEPT ![v] =
           [account |-> a, device |-> d, answer |-> "none"]]
    /\ UNCHANGED <<login, safe, challenged, proved>>

FindSafe(l) ==
    /\ Open(login[l])
    /\ safe' = safe \cup {l}
    /\ UNCHANGED <<login, verification, challenged, proved>>

\* also after the login was refused, when its request arrives late
Challenge(l) ==
    /\ login[l] # None
    /\ l \notin safe
    /\ challenged' = challenged \cup {<<AddressOf[login[l].account], login[l].device>>}
    /\ UNCHANGED <<login, verification, safe, proved>>

\* also after the verification was refused, for the same reason
Prove(v) ==
    /\ verification[v] # None
    /\ LET a == verification[v].account
           d == verification[v].device
       IN /\ <<AddressOf[a], d>> \in challenged
          /\ proved' = proved \cup {<<a, d>>}
    /\ UNCHANGED <<login, verification, safe, challenged>>

AnswerLogin(l, answer) ==
    /\ Open(login[l])
    /\ answer = "token" => \/ l \in safe
                           \/ <<login[l].account, login[l].device>> \in proved
    /\ answer = "challenge" =>
          /\ l \notin safe
          /\ <<AddressOf[login[l].account], login[l].device>> \in challenged
    /\ login' = [login EXCEPT ![l].answer = answer]
    /\ UNCHANGED <<verification, safe, challenged, proved>>

AnswerVerification(v, answer) ==
    /\ Open(verification[v])
    /\ answer = "token" =>
          <<verification[v].account, verification[v].device>> \in proved
    /\ verification' = [verification EXCEPT ![v].answer = answer]
    /\ UNCHANGED <<login, safe, challenged, proved>>

Next ==
    \/ \E l \in Logins :
          \/ \E a \in Accounts, d \in Devices : StartLogin(l, a, d)
          \/ FindSafe(l)
          \/ Challenge(l)
          \/ \E answer \in {"token", "challenge", "refused"} : AnswerLogin(l, answer)
    \/ \E v \in Verifications :
          \/ \E a \in Accounts, d \in Devices : StartVerification(v, a, d)
          \/ Prove(v)
          \/ \E answer \in {"token", "refused"} : AnswerVerification(v, answer)

Spec == Init /\ [][Next]_vars
===============================================================================
