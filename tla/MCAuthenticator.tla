--------------------------- MODULE MCAuthenticator --------------------------
\* Model-checking instance of Authenticator.
EXTENDS Authenticator, TLC

KeySymmetry == Permutations(Keys)
Symmetry == Permutations(Keys) \union Permutations(Admins)
=============================================================================
