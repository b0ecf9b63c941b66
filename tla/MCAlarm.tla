------------------------------ MODULE MCAlarm ------------------------------
(* Alarm for TLC; the constants are in MCAlarm.cfg.                       *)
EXTENDS Alarm
============================================================================
