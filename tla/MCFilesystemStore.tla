------------------------- MODULE MCFilesystemStore --------------------------
\* Model-checking instance of FilesystemStore alone; calls are named by strings,
\* so that they compare with the markers None and Hole.
EXTENDS FilesystemStore

TwoPuts == {"p1", "p2"}
NoCalls == {}
=============================================================================
