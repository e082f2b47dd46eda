------------------------------- MODULE MCLimits -------------------------------
(* Instances of PaymentLimits for TLC: those of MCPayments.                  *)
EXTENDS PaymentLimits, MCPayments
=============================================================================
