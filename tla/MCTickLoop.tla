----------------------------- MODULE MCTickLoop -----------------------------
\* All four examples, with periods of two to four counts and three ticks.
EXTENDS TickLoop
=============================================================================
