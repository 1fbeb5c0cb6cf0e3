----------------------------- MODULE MCCreditPlans -----------------------------
(* A small instance of CreditPlans for TLC. *)
EXTENDS CreditPlans, TLC

CONSTANTS p1, k1
===============================================================================
