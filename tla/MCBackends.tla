----------------------------- MODULE MCBackends -----------------------------
\* Model-checking instance of Backends; the cfg gives the constants.
EXTENDS Backends
=============================================================================
