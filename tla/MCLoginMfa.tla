----------------------------- MODULE MCLoginMfa -----------------------------
\* Two requests at a time.
EXTENDS LoginMfa, TLC

RequestSymmetry == Permutations(Requests)
=============================================================================
