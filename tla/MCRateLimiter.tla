---------------------------- MODULE MCRateLimiter ---------------------------
\* RateLimiter for TLC: keys and callers are interchangeable.
EXTENDS RateLimiter, TLC

Symmetry == Permutations(Keys) \cup Permutations(Callers)

=============================================================================
