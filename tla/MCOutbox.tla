------------------------------ MODULE MCOutbox ------------------------------
\* Model-checking instance of Outbox: a handful of rows, one of which the sink
\* may refuse.
EXTENDS Outbox
=============================================================================
