---------------------------- MODULE MCAdaptiveMfa -----------------------------
(* AdaptiveMfa on small instances *)
EXTENDS AdaptiveMfa, TLC

CONSTANTS c1, c2, v1, v2, u1, u2, u3, e1, e2, d1, d2, o1, o2, p1, p2, x1, x2, h1

\* one account per address
OneAccount == u1 :> e1

\* two accounts, and the address of the first registered again after a deletion
TwoAccounts == u1 :> e1 @@ u2 :> e1 @@ u3 :> e2

\* the bound on a second deletion: it runs beside a login, or beside changes and
\* registrations, not beside both, nor beside a verification
SecondDeletion ==
    \/ del[x2].pc = "idle"
    \/ /\ \A v \in VerifyReq : ver[v].pc = "idle"
       /\ \/ \A l \in CheckReq : login[l].pc = "idle"
          \/ /\ \A c \in ChangeReq : change[c].pc = "idle"
             /\ \A u \in Users : reg[u] # "new" => u \in Registered

Symmetry == Permutations(CheckReq) \cup Permutations(VerifyReq)
              \cup Permutations(Devices) \cup Permutations(Otps)
===============================================================================
