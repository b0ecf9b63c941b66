---------------------------- MODULE MCSemaphore ----------------------------
\* Semaphore on small instances.
EXTENDS Semaphore
=============================================================================
