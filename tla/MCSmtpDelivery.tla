---------------------------- MODULE MCSmtpDelivery ----------------------------
(* Small instances of SmtpDelivery for TLC. *)
EXTENDS SmtpDelivery

CONSTANTS m1, m2, m3, d1, d2
=============================================================================
