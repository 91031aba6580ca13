---------------------------- MODULE MCUsagePages ----------------------------
(* A small instance of UsagePages: two Claude sources with one trial each on  *)
(* the local page, a day and a week of the samples.                           *)
EXTENDS UsagePages

MCDays == {1, 7}
=============================================================================
