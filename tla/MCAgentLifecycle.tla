------------------------- MODULE MCAgentLifecycle -------------------------
EXTENDS AgentLifecycle

CONSTANTS t1, t2, t3, t4

\* Four parallel tests, two of which may panic: with a buffer of two, a
\* third finished span evicts the oldest.
FourTests == {t1, t2, t3, t4}
TwoPanics == {t1, t2}

=============================================================================
