---------------------------- MODULE MCAuthTokens ----------------------------
\* AuthTokens for TLC: requests and passwords are interchangeable.
EXTENDS AuthTokens, TLC

RequestSymmetry == Permutations(Requests)

=============================================================================
