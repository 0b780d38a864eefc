--------------------------- MODULE MCCertificates ---------------------------
EXTENDS Certificates, TLC

\* Ownership tokens are compared for equality only, and candidates run the
\* same code.
FullPerms == Permutations(Tokens) \cup Permutations(Candidates)
=============================================================================
