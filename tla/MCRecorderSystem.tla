--------------------------- MODULE MCRecorderSystem ---------------------------
\* Small instances of RecorderSystem.
EXTENDS RecorderSystem, TLC
=============================================================================
