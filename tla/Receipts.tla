------------------------------- MODULE Receipts -------------------------------
(***************************************************************************)
(* The incomes of post-sale charges (a service order, a license plate) and *)
(* the cash movements that collect them, as the charging services and the  *)
(* finance office leave them (src/src/incomes, src/src/cash).  What the    *)
(* accounts do with the money is in Cash.                                  *)
(*                                                                         *)
(* An income is of a plate while its type says so and of the sale it names *)
(* (de.patente), which the finance office may change; that it was charged  *)
(* by the delivery of an order is history (de.orden).                      *)
(***************************************************************************)
EXTENDS Naturals, Sequences, FiniteSets, FiniteSetsExt

CONSTANTS
    Claves,       \* idempotency keys of the clients' requests
    Importes,     \* amounts a request may carry
    MaxIngresos,  \* bound on the number of incomes
    NoHay         \* SQL NULL, nothing

VARIABLES
    ingresos,     \* incomes, in order: what each is for, its amount and status
    movimientos   \* cash movements: key, income, amount, whether it stands

recibosVars == <<ingresos, movimientos>>

\* What an income is charged for.
DeService(o) == [orden |-> o, patente |-> NoHay]
DePatente(v) == [orden |-> NoHay, patente |-> v]

settledAmount(ms, i) ==
    MapThenSumSet(LAMBDA m : m.monto, {m \in ms : m.ingreso = i /\ m.activo})

paymentStatus(cobrado, importe) ==
    IF cobrado = 0 THEN "PENDIENTE"
    ELSE IF cobrado < importe THEN "PAGO_PARCIAL" ELSE "PAGADO"

\* The unique key of the movements.
Usada(clave) == \E m \in movimientos : m.clave = clave

\* Mutant of ConEstado: the movements as they were before the request.
ConEstado_antes(i, importe, ms) ==
    [ingresos[i] EXCEPT !.estado =
        paymentStatus(settledAmount(movimientos, i), importe)]

ConEstado(i, importe, ms) ==
    [ingresos[i] EXCEPT !.estado = paymentStatus(settledAmount(ms, i), importe)]

\* The income, its movement and its status in one transaction.
Cobra(de, importe, clave) ==
    /\ ~ Usada(clave) /\ Len(ingresos) < MaxIngresos
    /\ LET i == Len(ingresos) + 1
           ms == movimientos \cup
                   {[clave |-> clave, ingreso |-> i, monto |-> importe,
                     activo |-> TRUE]}
       IN  /\ movimientos' = ms
           /\ ingresos' = Append(ingresos,
                 [de |-> de, importe |-> importe,
                  estado |-> paymentStatus(settledAmount(ms, i), importe)])

-------------------------------------------------------------------------------
(* The finance office *)

createIncome(de, importe) ==
    /\ Len(ingresos) < MaxIngresos
    /\ ingresos' = Append(ingresos, [de |-> de, importe |-> importe,
                                     estado |-> "PENDIENTE"])
    /\ UNCHANGED movimientos

registerCollection(i, monto, clave) ==
    /\ ~ Usada(clave)
    /\ settledAmount(movimientos, i) + monto <= ingresos[i].importe
    /\ movimientos' = movimientos \cup
          {[clave |-> clave, ingreso |-> i, monto |-> monto, activo |-> TRUE]}
    /\ ingresos' = [ingresos EXCEPT
          ![i] = ConEstado(i, ingresos[i].importe, movimientos')]

\* The finance office edits what an income is for and its amount, which may not
\* be less than what was collected.
updateIncome(i, patente, importe) ==
    /\ settledAmount(movimientos, i) <= importe
    /\ ingresos' = [ingresos EXCEPT
          ![i] = [ConEstado(i, importe, movimientos) EXCEPT
                    !.importe = importe, !.de.patente = patente]]
    /\ UNCHANGED movimientos

\* The movement stays, with the one that reverses it.
reverse(m) ==
    /\ m.activo
    /\ movimientos' = (movimientos \ {m}) \cup {[m EXCEPT !.activo = FALSE]}
    /\ ingresos' = [ingresos EXCEPT
          ![m.ingreso] = ConEstado(m.ingreso, ingresos[m.ingreso].importe,
                                   movimientos')]

-------------------------------------------------------------------------------
IngresosOK ==
    \A i \in DOMAIN ingresos :
        /\ ingresos[i].importe \in Importes \ {0}
        /\ ingresos[i].estado =
              paymentStatus(settledAmount(movimientos, i), ingresos[i].importe)

MovimientosOK ==
    \A m \in movimientos :
        /\ m.clave \in Claves /\ m.ingreso \in DOMAIN ingresos
        /\ \A n \in movimientos : n.clave = m.clave => n = m

RecibosOK == IngresosOK /\ MovimientosOK
===============================================================================
