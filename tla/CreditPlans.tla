------------------------------ MODULE CreditPlans ------------------------------
(***************************************************************************)
(* Own credits of a sale: the plans, the credit taken under one, its        *)
(* instalments, the incomes that pay them and their cash movements          *)
(* (src/src/credit-plans and the reversal of an income in                   *)
(* src/src/incomes/incomes.service.ts).                                     *)
(*                                                                          *)
(* Amounts are integer cents.  As in Cash, a handler that locks rows is two *)
(* steps, the handler and its commit, so that two of them overlap wherever  *)
(* no row lock keeps them apart: payInstallment locks its instalment, not   *)
(* the credit, and reads the other instalments as committed.                *)
(*                                                                          *)
(* Accounts, branches and the handover of cash are in Cash.  A request      *)
(* repeated with its idempotency key changes nothing when it is a payment;  *)
(* what it does when it is a reversal is the action ReplayReverse.          *)
(***************************************************************************)
EXTENDS Integers, FiniteSets, FiniteSetsExt

CONSTANTS
    Planes, Creditos,       \* ids of planes_credito and operacion_creditos
    MaxCuotas,              \* instalments of a plan
    MaxFinanciado,          \* the amount financed, in cents
    MaxIngresos,            \* bound on the collections of instalments
    MaxMovimientos,         \* bound on the cash movements
    MaxEnCurso              \* bound on the transactions in flight

ASSUME CotasPositivas ==
    {MaxCuotas, MaxFinanciado, MaxIngresos, MaxMovimientos, MaxEnCurso}
        \subseteq Nat \ {0}

VARIABLES
    plan,          \* [Planes -> terms, or the plan does not exist]
    credito,       \* [Creditos -> state and terms taken from the plan]
    cuota,         \* [instalments that exist -> amount, paid, status]
    ingreso,       \* incomes created by a payment: instalment and amount
    movimientos,   \* their cash movements
    enCurso,       \* transactions that have not committed
    solapados      \* history: credits two transactions worked on at once

vars == <<plan, credito, cuota, ingreso, movimientos, enCurso, solapados>>

-------------------------------------------------------------------------------
(* Types *)

Tasas == {0, 100}           \* percent: no interest, or as much as financed
Metodos == {"FRANCES", "INTERES_SIMPLE"}
Numeros == 1..MaxCuotas
Filas == Creditos \X Numeros
MaxTotal == 2 * MaxCuotas * MaxFinanciado
Importes == 1..MaxTotal     \* positive, and what the columns hold

Plan == [activo : BOOLEAN, cuotas : Numeros, tasa : Tasas, metodo : Metodos]

Credito == [estado : {"ACTIVO", "FINALIZADO"}, total : Importes]

Ingreso == [id : 1..MaxIngresos, cuota : Filas, importe : Importes]

Movimiento ==
    [id : 1..MaxMovimientos, ingreso : 1..MaxIngresos, importe : Importes,
     revierte : 0..MaxMovimientos]

\* The row of an instalment, with its checks.
CuotaOK(fila) ==
    /\ fila \in [monto : Importes, pagado : Nat,
                 estado : {"PENDIENTE", "PARCIAL", "PAGADA"}]
    /\ fila.pagado <= fila.monto

\* An instalment never says it was paid less than nothing or more than it is.
TypeOK ==
    /\ \A p \in DOMAIN plan : p \in Planes /\ plan[p] \in Plan
    /\ \A k \in DOMAIN credito : k \in Creditos /\ credito[k] \in Credito
    /\ \A q \in DOMAIN cuota : q \in Filas /\ CuotaOK(cuota[q])
    /\ ingreso \subseteq Ingreso
    /\ movimientos \subseteq Movimiento
    /\ solapados \subseteq Creditos

-------------------------------------------------------------------------------
(* The calculator of a credit *)

\* round2: half a cent goes up.
round2(num, den) == (2 * num + den) \div (2 * den)

\* Equal instalments; the last one takes up what rounding left over.
splitEvenly(total, n) ==
    [i \in 1..n |-> IF i < n THEN round2(total, n)
                    ELSE total - round2(total, n) * (n - 1)]

\* The fixed instalment of the French system; with a rate of 100 percent a
\* month the factor (1 + i)^n is a power of two.
simulateFrench(f, n, tasa) ==
    LET c == IF tasa = 0 THEN round2(f, n) ELSE round2(f * 2^n, 2^n - 1)
    IN  [cuota |-> c, total |-> c * n]

simulateFlatRate(f, n, tasa) ==
    LET t == f + round2(f * tasa, 100)
    IN  [cuota |-> splitEvenly(t, n)[1], total |-> t]

simulateCredit(f, p) ==
    IF p.metodo = "FRANCES" THEN simulateFrench(f, p.cuotas, p.tasa)
    ELSE simulateFlatRate(f, p.cuotas, p.tasa)

\* The checks of the tables: no negative interest, no empty instalment, amounts
\* their columns hold.  A credit that fails them is refused by the database.
Admisible(f, p) ==
    LET s == simulateCredit(f, p)
        montos == splitEvenly(s.total, p.cuotas)
    IN  /\ s.total - f >= 0 /\ s.cuota > 0 /\ s.total \in Importes
        /\ \A i \in 1..p.cuotas : montos[i] \in Importes

-------------------------------------------------------------------------------
(* Reading the tables *)

Con(f, x, v) == [y \in DOMAIN f \cup {x} |-> IF y = x THEN v ELSE f[y]]

Vivos(movs) ==
    {m \in movs : m.revierte = 0 /\ \A r \in movs : r.revierte # m.id}

ImporteDe(m) == m.importe

Cobrado(i) ==
    MapThenSumSet(ImporteDe, {m \in Vivos(movimientos) : m.ingreso = i.id})

IngresosDe(q) == {i \in ingreso : i.cuota = q}

\* What the accounts hold of the payments of an instalment.
EnCaja(q) == MapThenSumSet(Cobrado, IngresosDe(q))

SinPagar(k) == {q \in DOMAIN cuota : q[1] = k /\ cuota[q].estado # "PAGADA"}

IngresosTomados == {i.id : i \in ingreso} \cup {t.alta.id : t \in
                       {u \in enCurso : u.tipo = "PAGO"}}

MovimientosTomados == {m.id : m \in movimientos}
                          \cup {t.mov.id : t \in {u \in enCurso : u.mov.id # 0}}

Menor(S) == CHOOSE x \in S : \A y \in S : x <= y

-------------------------------------------------------------------------------
(* Transactions *)

\* Mutant of Libres: payInstallment does not lock the instalment.
Libres_sinBloqueo(q, i) == q \in DOMAIN cuota

\* The instalment and the income a handler locks, free of other transactions.
Libres(q, i) ==
    \A t \in enCurso : t.cuota # q /\ (i = 0 \/ t.ingreso # i)

\* A transaction that wrote instalment q; "final" is what it makes of the
\* credit ("" when it leaves it alone).
Abrir(t) ==
    /\ Cardinality(enCurso) < MaxEnCurso
    /\ enCurso' = enCurso \cup {t}
    /\ solapados' = solapados \cup
           {k \in Creditos : k = t.cuota[1] /\ \E u \in enCurso : u.cuota[1] = k}
    /\ UNCHANGED <<plan, credito, cuota, ingreso, movimientos>>

SinMovimiento == [id |-> 0]

\* The transaction commits.  A credit is put back to ACTIVO only if it is
\* FINALIZADO when the row is written.
Confirmar(t) ==
    /\ t \in enCurso
    /\ enCurso' = enCurso \ {t}
    /\ ingreso' = ingreso \cup (IF t.tipo = "PAGO" THEN {t.alta} ELSE {})
    /\ movimientos' = movimientos \cup
           (IF t.mov.id # 0 THEN {t.mov} ELSE {})
    /\ cuota' = [cuota EXCEPT ![t.cuota] = t.fila]
    /\ credito' = IF t.final = "" THEN credito
                  ELSE [credito EXCEPT ![t.cuota[1]].estado = t.final]
    /\ UNCHANGED <<plan, solapados>>

\* The transaction is lost (timeout, crash, a failed write).
Deshacer(t) ==
    /\ t \in enCurso
    /\ enCurso' = enCurso \ {t}
    /\ UNCHANGED <<plan, credito, cuota, ingreso, movimientos, solapados>>

-------------------------------------------------------------------------------
(* Plans and credits *)

createPlan(p, fila) ==
    /\ p \notin DOMAIN plan
    /\ plan' = Con(plan, p, fila)
    /\ UNCHANGED <<credito, cuota, ingreso, movimientos, enCurso, solapados>>

\* The credits already taken keep the terms they were taken with.
updatePlan(p, fila) ==
    /\ p \in DOMAIN plan
    /\ plan' = [plan EXCEPT ![p] = fila]
    /\ UNCHANGED <<credito, cuota, ingreso, movimientos, enCurso, solapados>>

\* The amounts are within the plan's range when the plan has one (left out).
confirmOperationCredit(k, p, f) ==
    /\ k \notin DOMAIN credito
    /\ p \in DOMAIN plan /\ plan[p].activo
    /\ Admisible(f, plan[p])
    /\ LET s == simulateCredit(f, plan[p])
           montos == splitEvenly(s.total, plan[p].cuotas)
           nuevas == {k} \X (1..plan[p].cuotas)
       IN  /\ credito' = Con(credito, k, [estado |-> "ACTIVO", total |-> s.total])
           /\ cuota' = [q \in DOMAIN cuota \cup nuevas |->
                  IF q \in nuevas
                  THEN [monto |-> montos[q[2]], pagado |-> 0,
                        estado |-> "PENDIENTE"]
                  ELSE cuota[q]]
    /\ UNCHANGED <<plan, ingreso, movimientos, enCurso, solapados>>

-------------------------------------------------------------------------------
(* Payments and reversals *)

EstadoTrasPagar(q, pagado) ==
    IF pagado = cuota[q].monto THEN "PAGADA" ELSE "PARCIAL"

\* Mutant of Cabe: what was paid before is not counted.
Cabe_sinPrevios(q, x) == x <= cuota[q].monto

\* A payment does not exceed what the instalment lacks.
Cabe(q, x) == cuota[q].pagado + x <= cuota[q].monto

\* The payment that completes the last instalment left ends the credit.
creditoTrasPagar(q, estado) ==
    IF estado = "PAGADA" /\ SinPagar(q[1]) \ {q} = {} THEN "FINALIZADO" ELSE ""

\* The row of the instalment after the payment.
cuotaTrasPagar(q, pagado) ==
    [cuota[q] EXCEPT !.pagado = pagado, !.estado = EstadoTrasPagar(q, pagado)]

\* A payment creates an income and its movement.
payInstallment(q, x) ==
    /\ q \in DOMAIN cuota
    /\ Libres(q, 0)
    /\ cuota[q].estado # "PAGADA"
    /\ Cabe(q, x)
    /\ Cardinality(IngresosTomados) < MaxIngresos
    /\ Cardinality(MovimientosTomados) < MaxMovimientos
    /\ LET i == Menor((1..MaxIngresos) \ IngresosTomados)
           m == Menor((1..MaxMovimientos) \ MovimientosTomados)
           fila == cuotaTrasPagar(q, cuota[q].pagado + x)
       IN  Abrir([tipo |-> "PAGO", cuota |-> q, ingreso |-> i,
                  alta |-> [id |-> i, cuota |-> q, importe |-> x],
                  mov |-> [id |-> m, ingreso |-> i, importe |-> x,
                           revierte |-> 0],
                  fila |-> fila, final |-> creditoTrasPagar(q, fila.estado)])

\* Mutant of reopenInstallment: a finished credit stays finished.
reopenInstallment_sinReactivar(q, x) ==
    LET p == IF cuota[q].pagado > x THEN cuota[q].pagado - x ELSE 0
    IN  [fila |-> [cuota[q] EXCEPT !.pagado = p,
                       !.estado = IF p = 0 THEN "PENDIENTE" ELSE "PARCIAL"],
         final |-> ""]

\* The instalment gets the amount back, never below zero, and a finished
\* credit is active again.
reopenInstallment(q, x) ==
    LET p == IF cuota[q].pagado > x THEN cuota[q].pagado - x ELSE 0
    IN  [fila |-> [cuota[q] EXCEPT !.pagado = p,
                       !.estado = IF p = 0 THEN "PENDIENTE" ELSE "PARCIAL"],
         final |-> IF credito[q[1]].estado = "FINALIZADO" THEN "ACTIVO"
                   ELSE ""]

\* reverse of an income, with the movement that takes m back.
Reverse(i, m) ==
    /\ i \in ingreso /\ Libres(i.cuota, i.id)
    /\ m \in Vivos(movimientos) /\ m.ingreso = i.id
    /\ Cardinality(MovimientosTomados) < MaxMovimientos
    /\ LET r == Menor((1..MaxMovimientos) \ MovimientosTomados)
           efecto == reopenInstallment(i.cuota, m.importe)
       IN  Abrir([tipo |-> "REVERSA", cuota |-> i.cuota, ingreso |-> i.id,
                  mov |-> [id |-> r, ingreso |-> i.id, importe |-> m.importe,
                           revierte |-> m.id],
                  fila |-> efecto.fila, final |-> efecto.final])

\* The reversal r is asked for again with its own key: reverseEntityMovement
\* answers with r and reverse goes on as if it had just been made.
ReplayReverse(i, r) ==
    /\ i \in ingreso /\ Libres(i.cuota, i.id)
    /\ r \in movimientos /\ r.ingreso = i.id /\ r.revierte # 0
    /\ LET efecto == reopenInstallment(i.cuota, r.importe)
       IN  Abrir([tipo |-> "REVERSA", cuota |-> i.cuota, ingreso |-> i.id,
                  mov |-> SinMovimiento,
                  fila |-> efecto.fila, final |-> efecto.final])

\* collect of an income a payment created: it moves the money and leaves the
\* instalment as it is.
Collect(i, x) ==
    /\ i \in ingreso /\ Libres(<<>>, i.id)
    /\ Cobrado(i) + x <= i.importe
    /\ Cardinality(MovimientosTomados) < MaxMovimientos
    /\ movimientos' = movimientos \cup
          {[id |-> Menor((1..MaxMovimientos) \ MovimientosTomados),
            ingreso |-> i.id, importe |-> x, revierte |-> 0]}
    /\ UNCHANGED <<plan, credito, cuota, ingreso, enCurso, solapados>>

-------------------------------------------------------------------------------
Init ==
    /\ plan = <<>> /\ credito = <<>> /\ cuota = <<>>
    /\ ingreso = {} /\ movimientos = {} /\ enCurso = {} /\ solapados = {}

PlanNext ==
    \E p \in Planes, fila \in Plan : createPlan(p, fila) \/ updatePlan(p, fila)

Next ==
    \/ PlanNext
    \/ \E k \in Creditos, p \in Planes, f \in 1..MaxFinanciado :
           confirmOperationCredit(k, p, f)
    \/ \E q \in Filas, x \in Importes : payInstallment(q, x)
    \/ \E i \in ingreso, m \in movimientos : Reverse(i, m)
    \/ \E i \in ingreso, r \in movimientos : ReplayReverse(i, r)
    \/ \E i \in ingreso, x \in Importes : Collect(i, x)
    \/ \E t \in enCurso : Confirmar(t)
    \/ \E t \in enCurso : Deshacer(t)

Spec == Init /\ [][Next]_vars

-------------------------------------------------------------------------------
(* Properties *)

\* No instalment says it was paid more than the accounts hold for it, through
\* partial payments, reversals, repeated requests and lost transactions.
PagadoEnCaja == \A q \in DOMAIN cuota : cuota[q].pagado <= EnCaja(q)

\* A credit is over exactly while all its instalments are paid, and each says
\* what it was paid.  It is stated for credits whose requests did not overlap:
\* two payments of the last two instalments, or one of them and a reversal,
\* do not see each other and leave the credit in the wrong state.
FinalizadoSiiPagadas ==
    \A k \in DOMAIN credito \ solapados :
        /\ credito[k].estado = "FINALIZADO" <=> SinPagar(k) = {}
        /\ \A q \in DOMAIN cuota : q[1] = k =>
              cuota[q].estado = IF cuota[q].pagado = cuota[q].monto THEN "PAGADA"
                                ELSE IF cuota[q].pagado = 0 THEN "PENDIENTE"
                                ELSE "PARCIAL"

Monto(q) == cuota[q].monto
SumaDeCuotas(k) == MapThenSumSet(Monto, {q \in DOMAIN cuota : q[1] = k})

\* The instalments of a credit add up to its total, to the cent, whatever
\* rounding did and however the plan changed afterwards.
CuotasSumanTotal == \A k \in DOMAIN credito : SumaDeCuotas(k) = credito[k].total

\* The instalments add up to what is owed, and to no more than what was paid.
CuotasCuadran == CuotasSumanTotal /\ PagadoEnCaja

\* docs/financial-administration-api.md:45, "Repeating the same key and payload
\* returns the existing result": the repetition of a reversal moves no money,
\* and changes neither the instalment nor its credit.
RepeticionSinEfecto ==
    [][\A t \in enCurso \ enCurso' :
          t.mov.id = 0 => UNCHANGED <<cuota, credito>>]_vars
===============================================================================
