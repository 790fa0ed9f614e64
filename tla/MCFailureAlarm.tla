--------------------------- MODULE MCFailureAlarm ---------------------------
(* One cell, with one cause of failures, beside another source of the alarm. *)
EXTENDS FailureAlarm
=============================================================================
