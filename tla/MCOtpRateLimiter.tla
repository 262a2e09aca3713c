--------------------------- MODULE MCOtpRateLimiter ---------------------------
(* Small instances of OtpRateLimiter: two keys, one a short window of one  *)
(* request, the other a longer window of two, as cooldown and hour.        *)
EXTENDS OtpRateLimiter, TLC

TwoWindows == <<"cooldown", "hour">>
TwoLimits == [w \in {"cooldown", "hour"} |-> IF w = "cooldown" THEN 1 ELSE 2]
TwoLengths == [w \in {"cooldown", "hour"} |-> IF w = "cooldown" THEN 1 ELSE 2]

Symmetry == Permutations(Call)
=============================================================================
