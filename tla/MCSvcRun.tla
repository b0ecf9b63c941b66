------------------------------ MODULE MCSvcRun ------------------------------
\* Model values and bounds are in MCSvcRun.cfg.
EXTENDS SvcRun
=============================================================================
