---------------------------- MODULE MCRateLimiter ---------------------------
\* Model-checking instance of RateLimiter: one limited endpoint with a tenant
\* override, and one unlimited endpoint.
EXTENDS RateLimiter, TLC

CONSTANTS t1, t2, chat, models

TwoTenants == {t1, t2}
TwoEndpoints == {chat, models}
MCDefaults == [e \in Endpoints |-> IF e = models THEN Unlimited ELSE 1]
MCOverrides == (<<t1, chat>> :> 2)
Symmetry == Permutations(Requests)

ASSUME RetryAssumption == RetryReachesNextWindow(0..(10 * Window))
=============================================================================
