--------------------------- MODULE MCJiraMutation ----------------------------
EXTENDS JiraMutation, TLC

CONSTANTS c1, c2, i1, i2, i3, close, start

\* Two transitions share a name, so that a name can be ambiguous.
MCNameOf == [i \in TransitionIds |-> IF i = i3 THEN start ELSE close]

Symmetry == Permutations(Calls)
=============================================================================
