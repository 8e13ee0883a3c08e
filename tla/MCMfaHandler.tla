----------------------------- MODULE MCMfaHandler -----------------------------
(* MfaHandler on small instances *)
EXTENDS MfaHandler, TLC

CONSTANTS c1, c2, v1, v2, u1, u2, e1, d1, d2, o1, o2

\* one account per address
OneAccount == u1 :> e1

\* an address that was deleted and registered again
TwoAccounts == u1 :> e1 @@ u2 :> e1

\* requests, devices and passwords are only compared with each other
Symmetry == Permutations(CheckReq) \cup Permutations(VerifyReq)
              \cup Permutations(Devices) \cup Permutations(Otps)
===============================================================================
