--------------------- MODULE MC_ConnectionRateLimiter ---------------------
(* Small instances of the per-IP rate limiter.                             *)
EXTENDS ConnectionRateLimiter

CONSTANTS i1, i2

MCIP == {i1, i2}
MCSingleIP == {i1}
=============================================================================
