-------------------------- MODULE MCInstallerRelease --------------------------
EXTENDS InstallerRelease, TLC

CONSTANTS r1, r2, genuine, corrupt

\* Two overlapping runs and two contents of a file, all interchangeable.
MCSymmetry == Permutations({r1, r2}) \cup Permutations({genuine, corrupt})
=============================================================================
