---------------------------- MODULE MCSessionTokens ----------------------------
(* SessionTokens on small instances *)
EXTENDS SessionTokens, TLC

CONSTANTS r1, r2, s1, s2, l1, l2, q1, q2, d1, a, b

\* requests of a kind are only compared with each other
Symmetry == Permutations(RegisterReq) \cup Permutations(SignInReq)
              \cup Permutations(LogoutReq) \cup Permutations(CurrentReq)
===============================================================================
