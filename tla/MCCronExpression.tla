------------------------- MODULE MCCronExpression -------------------------
(* A year of two short months for TLC. *)
EXTENDS CronExpression

TwoMonths == <<2, 3>>
=============================================================================
