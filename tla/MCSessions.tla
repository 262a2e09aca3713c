------------------------------ MODULE MCSessions ------------------------------
(* Sessions on a small instance, for TLC.                                  *)
EXTENDS Sessions, TLC

Symmetry == Permutations(Refresh) \cup Permutations(Logout)

(* The decoders, for every token made and looked at in the time they need  *)
(* to expire.                                                              *)
ASSUME TokensCompared ==
    \A made, now \in 0..3 * REGISTRATION_TOKEN_TTL_SECONDS
                          + JWT_ACCESS_TOKEN_TTL_SECONDS :
        KindsApart(User, made, now)
=============================================================================
