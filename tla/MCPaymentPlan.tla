----------------------------- MODULE MCPaymentPlan -----------------------------
(* A small instance of PaymentPlan for TLC. *)
EXTENDS PaymentPlan, TLC

CONSTANTS f1, f2

MCPlataformas == {"EFECTIVO", "MOTO_CREDITO"}

\* A price of 1 is under the minimum of the first policy and on the second list.
MCPoliticas == {[lista |-> 2, minimo |-> 2], [lista |-> 1, minimo |-> 1]}
MCTipos == {"EFECTIVO", "FINANCIACION", "TOMA_PARTE_PAGO"}

MCSimetria == Permutations({f1, f2})
===============================================================================
