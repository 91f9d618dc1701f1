--------------------------- MODULE MCSessionStore ---------------------------
\* Two goroutines race every pair of methods; with two credentials one of them can
\* change the store away and back (A, B, A) between two calls of the other.
EXTENDS SessionStore, TLC

CONSTANTS g1, g2, alice, bob
=============================================================================
