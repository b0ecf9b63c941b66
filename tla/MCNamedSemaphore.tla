-------------------------- MODULE MCNamedSemaphore --------------------------
\* NamedSemaphore on small instances.
EXTENDS NamedSemaphore

MCGarbage == {-1, 0, 1}
=============================================================================
