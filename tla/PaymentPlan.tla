------------------------------ MODULE PaymentPlan ------------------------------
(***************************************************************************)
(* The price of a sale, its approval, its payment plan and the collections  *)
(* of the plan (src/src/sales/sales.service.ts and src/src/incomes).         *)
(*                                                                          *)
(* One operation: operations share no row of the plan.  The handlers that    *)
(* lock the operation exclude one another.  A collection and a reversal made *)
(* through incomes lock their income only, so the three that move money are  *)
(* two steps, the handler and its commit; the others are one.                *)
(*                                                                          *)
(* The record of a vehicle taken in part payment is left out: a plan may have *)
(* such a component.  The stock of the sale is in SalesStock, the accounts and the idempotency  *)
(* keys in Cash, and the instalments of an own credit in CreditPlans: here   *)
(* the institutions are external ones and no credit is an own one.            *)
(*                                                                          *)
(* Imported rows are left out: those without a platform, whose price correct *)
(* changes without a plan, and those without a list or a minimum price.      *)
(***************************************************************************)
EXTENDS Integers, FiniteSets, FiniteSetsExt, Sequences

CONSTANTS
    Plataformas,        \* payment platforms offered, of those in Reglas
    Precios,            \* agreed prices
    Politicas,          \* effective price policies: list and minimum price
    Financieras,        \* active external financial institutions
    TiposEnviados,      \* kinds of component a user sends in a plan
    MaxEntradas,        \* components of a plan a user sends
    MaxComponentes, MaxIngresos, MaxMovimientos, MaxAprobaciones,
    MaxEnCurso          \* bound on the transactions in flight

Medios == {"EFECTIVO", "TRANSFERENCIA_BANCARIA", "TARJETA", "OTRO"}
Tipos == Medios \cup {"FINANCIACION", "TOMA_PARTE_PAGO"}

Regla(credito, toma, resto) ==
    [credito |-> credito, toma |-> toma, resto |-> resto]

\* What each platform is made of: credits, a trade-in, and how the rest is paid
\* ("" when nothing is left to pay).
Reglas ==
    [EFECTIVO              |-> Regla(0, FALSE, "EFECTIVO"),
     TRANSFERENCIA         |-> Regla(0, FALSE, "TRANSFERENCIA_BANCARIA"),
     TARJETA               |-> Regla(0, FALSE, "TARJETA"),
     CREDITO               |-> Regla(1, FALSE, ""),
     CREDITO_CREDITO       |-> Regla(2, FALSE, ""),
     EFECTIVO_CREDITO      |-> Regla(1, FALSE, "EFECTIVO"),
     TRANSFERENCIA_CREDITO |-> Regla(1, FALSE, "TRANSFERENCIA_BANCARIA"),
     MOTO_EFECTIVO         |-> Regla(0, TRUE, "EFECTIVO"),
     MOTO_CREDITO          |-> Regla(1, TRUE, ""),
     MOTO_EFECTIVO_CREDITO |-> Regla(1, TRUE, "EFECTIVO")]

ASSUME ConstantesValidas ==
    /\ Plataformas \subseteq DOMAIN Reglas /\ TiposEnviados \subseteq Tipos
    /\ Precios \subseteq Nat \ {0}
    /\ Politicas \subseteq [lista : Nat, minimo : Nat]
    /\ \A p \in Politicas : p.minimo <= p.lista
    /\ "" \notin Financieras

ASSUME Cotas ==
    /\ {MaxEntradas, MaxComponentes, MaxIngresos, MaxMovimientos,
        MaxAprobaciones, MaxEnCurso} \subseteq Nat \ {0}
    /\ MaxEntradas <= MaxComponentes

VARIABLES
    operacion,     \* its state, prices, platform and credit amount
    aprobaciones,  \* its approvals
    comp,          \* its payment components, in the order they were created
    ingreso,       \* incomes of its collections, with their component
    movimientos,   \* their cash movements
    enCurso,       \* transactions that have not committed
    solapados      \* history: components two requests worked on at once

vars == <<operacion, aprobaciones, comp, ingreso, movimientos, enCurso,
          solapados>>

-------------------------------------------------------------------------------
(* Types *)

Importes == UNION {1..x : x \in Precios}
Ids == 1..MaxComponentes
Estados == {"BORRADOR", "PENDIENTE_APROBACION", "APROBADA", "RECHAZADA",
            "CERRADA", "CANCELADA"}

Operacion ==
    [estado : Estados, precio : Precios, lista : Nat, minimo : Nat,
     plataforma : Plataformas, credito : {0} \cup Importes]

Componente ==
    [tipo : Tipos, importe : Importes, financiera : Financieras \cup {""},
     estado : {"PENDIENTE", "PAGO_PARCIAL", "PAGADO", "CANCELADA"},
     informado : BOOLEAN]

\* A sale has a credit exactly when its platform has one, and never a larger
\* one than its price; a component is of one kind and paid by one institution.
TypeOK ==
    /\ operacion # <<>> =>
          /\ operacion \in Operacion
          /\ operacion.credito <= operacion.precio
          /\ operacion.credito > 0 <=> Reglas[operacion.plataforma].credito > 0
    /\ aprobaciones \subseteq
          [id : 1..MaxAprobaciones, lista : Nat, minimo : Nat, acordado : Precios,
           decision : {"PENDIENTE", "APROBADA", "RECHAZADA"}]
    /\ \A i \in DOMAIN comp :
          /\ i \in Ids /\ comp[i] \in Componente
          /\ comp[i].tipo = "FINANCIACION" <=> comp[i].financiera # ""
    /\ ingreso \subseteq
          [id : 1..MaxIngresos, comp : {0} \cup Ids, importe : Importes]
    /\ \A i \in ingreso : i.comp # 0 => i.comp \in DOMAIN comp
    /\ movimientos \subseteq
          [id : 1..MaxMovimientos, ingreso : 1..MaxIngresos,
           importe : Importes, revierte : 0..MaxMovimientos]

-------------------------------------------------------------------------------
(* Reading the tables *)

Menor(S) == CHOOSE x \in S : \A y \in S : x <= y
ImporteDe(m) == m.importe
Vivos(movs) ==
    {m \in movs : m.revierte = 0 /\ \A r \in movs : r.revierte # m.id}

Cobrado(movs, i) ==
    MapThenSumSet(ImporteDe, {m \in Vivos(movs) : m.ingreso = i})

\* What is collected of a component: the live movements of its incomes.
componentCollectedAmount(movs, ings, c) ==
    MapThenSumSet(LAMBDA i : Cobrado(movs, i.id), {i \in ings : i.comp = c})

paymentStatus(cobrado, total) ==
    IF cobrado = 0 THEN "PENDIENTE"
    ELSE IF cobrado >= total THEN "PAGADO" ELSE "PAGO_PARCIAL"

\* Mutant of syncComponentPaymentStatus: a financing reported as paid goes back
\* to what was collected of it.
syncComponentPaymentStatus_sinInforme(fila, cobrado) ==
    [fila EXCEPT !.estado = IF @ = "CANCELADA" THEN @
                            ELSE paymentStatus(cobrado, fila.importe)]

\* A financing reported as paid stays PAGADO whatever net amount came in.
syncComponentPaymentStatus(fila, cobrado) ==
    [fila EXCEPT !.estado = IF @ = "CANCELADA" THEN @
                            ELSE IF fila.informado THEN "PAGADO"
                            ELSE paymentStatus(cobrado, fila.importe)]

Vigentes(c) == {i \in DOMAIN c : c[i].estado # "CANCELADA"}
Sumar(c, S) == MapThenSumSet(LAMBDA i : c[i].importe, S)
Planificado(c) == Sumar(c, Vigentes(c))

Existe == operacion # <<>>

\* The operation's row is free: no transaction in flight locked it.
Libre == Existe /\ \A t \in enCurso : t.tipo # "COBRO_PLAN"

\* Components whose row a step changes while a transaction works on them.
Pisados(nuevo) ==
    {i \in DOMAIN comp \cap DOMAIN nuevo :
        comp[i] # nuevo[i] /\ \E t \in enCurso : t.comp = i}

-------------------------------------------------------------------------------
(* Prices and approvals *)

Condicion == [precio : Precios, plataforma : Plataformas, credito : {0} \cup Importes]

\* Mutant of Condiciones: a credit may be larger than the price.
Condiciones_sinTope ==
    {c \in Condicion : Reglas[c.plataforma].credito > 0 <=> c.credito > 0}

\* assertPaymentContract: the terms of a sale, its price, platform and credit.
Condiciones ==
    {c \in Condicion :
        IF Reglas[c.plataforma].credito > 0 THEN c.credito \in 1..c.precio
        ELSE c.credito = 0}

CondicionesDe(o) ==
    [precio |-> o.precio, plataforma |-> o.plataforma, credito |-> o.credito]

ConCondiciones(o, c) ==
    [o EXCEPT !.precio = c.precio, !.plataforma = c.plataforma,
              !.credito = c.credito]

ConPrecios(o, pol) == [o EXCEPT !.lista = pol.lista, !.minimo = pol.minimo]

\* The prices the operation has, of the policy it was quoted with.
PreciosDe(o) == [lista |-> o.lista, minimo |-> o.minimo]

\* Mutant of AprobacionPara: a rejected request at this price will do.
AprobacionPara_sinDecision(o, aps) ==
    \E a \in aps : a.acordado = o.precio /\ a.minimo = o.minimo

\* The operation has been approved at this price, against this minimum.
AprobacionPara(o, aps) ==
    \E a \in aps : /\ a.decision = "APROBADA"
                   /\ a.acordado = o.precio /\ a.minimo = o.minimo

\* The deferred triggers on operations and components, at commit.
PasaDisparadores(o, aps, c) ==
    /\ o.estado \in {"APROBADA", "CERRADA"} /\ o.precio < o.minimo
          => AprobacionPara(o, aps)
    /\ o.estado = "CERRADA" => Planificado(c) = o.precio

\* A submitted operation under the list price waits for an approval.
NecesitaAprobacion(o, pol) == o.precio < pol.lista

submitLockedOperation(o, pol) ==
    [o EXCEPT !.lista = pol.lista, !.minimo = pol.minimo,
              !.estado = IF NecesitaAprobacion(o, pol)
                         THEN "PENDIENTE_APROBACION" ELSE "APROBADA"]

AprobacionesTrasEnviar(o, pol) ==
    aprobaciones \cup
        IF NecesitaAprobacion(o, pol)
        THEN {[id |-> Cardinality(aprobaciones) + 1, lista |-> pol.lista,
               minimo |-> pol.minimo, acordado |-> o.precio,
               decision |-> "PENDIENTE"]}
        ELSE {}

create(c, pol, enviar) ==
    LET o == [estado |-> "BORRADOR", precio |-> c.precio, lista |-> pol.lista,
              minimo |-> pol.minimo, plataforma |-> c.plataforma,
              credito |-> c.credito]
    IN  /\ ~Existe
        /\ operacion' = IF enviar THEN submitLockedOperation(o, pol) ELSE o
        /\ aprobaciones' = IF enviar THEN AprobacionesTrasEnviar(o, pol)
                           ELSE aprobaciones
        /\ PasaDisparadores(operacion', aprobaciones', comp)
        /\ UNCHANGED <<comp, ingreso, movimientos, enCurso, solapados>>

submit(pol) ==
    /\ Libre /\ operacion.estado = "BORRADOR"
    /\ Cardinality(aprobaciones) < MaxAprobaciones
    /\ CondicionesDe(operacion) \in Condiciones
    /\ operacion' = submitLockedOperation(operacion, pol)
    /\ aprobaciones' = AprobacionesTrasEnviar(operacion, pol)
    /\ PasaDisparadores(operacion', aprobaciones', comp)
    /\ UNCHANGED <<comp, ingreso, movimientos, enCurso, solapados>>

\* A draft or rejected sale is edited; the policy is read again when the price
\* (or the branch) is sent.  The components stay as they are.
update(c, pol) ==
    /\ Libre /\ operacion.estado \in {"BORRADOR", "RECHAZADA"}
    /\ pol \in Politicas \/ c.precio = operacion.precio
    /\ operacion' = [ConPrecios(ConCondiciones(operacion, c), pol)
                        EXCEPT !.estado = "BORRADOR"]
    /\ UNCHANGED <<aprobaciones, comp, ingreso, movimientos, enCurso, solapados>>

Pendientes(aps) == {a \in aps : a.decision = "PENDIENTE"}

\* The newest pending approval is decided, when there is one.
Decidida(aps, decision) ==
    LET a == CHOOSE x \in Pendientes(aps) : \A y \in Pendientes(aps) : y.id <= x.id
    IN  IF Pendientes(aps) = {} THEN aps
        ELSE (aps \ {a}) \cup {[a EXCEPT !.decision = decision]}

decide(aprobada) ==
    LET decision == IF aprobada THEN "APROBADA" ELSE "RECHAZADA"
    IN  /\ Libre /\ operacion.estado = "PENDIENTE_APROBACION"
        /\ Pendientes(aprobaciones) # {}
        /\ aprobaciones' = Decidida(aprobaciones, decision)
        /\ operacion' = [operacion EXCEPT !.estado = decision]
        /\ PasaDisparadores(operacion', aprobaciones', comp)
        /\ UNCHANGED <<comp, ingreso, movimientos, enCurso, solapados>>

AlCancelar(aps) == Decidida(aps, "RECHAZADA")

cancel ==
    /\ Libre /\ operacion.estado \notin {"CANCELADA", "CERRADA"}
    /\ aprobaciones' = AlCancelar(aprobaciones)
    /\ operacion' = [operacion EXCEPT !.estado = "CANCELADA"]
    /\ UNCHANGED <<comp, ingreso, movimientos, enCurso, solapados>>

\* The reservation and the unit it needs are in SalesStock.
close ==
    /\ Libre /\ operacion.estado = "APROBADA"
    /\ Planificado(comp) = operacion.precio
    /\ operacion' = [operacion EXCEPT !.estado = "CERRADA"]
    /\ PasaDisparadores(operacion', aprobaciones, comp)
    /\ UNCHANGED <<aprobaciones, comp, ingreso, movimientos, enCurso, solapados>>

-------------------------------------------------------------------------------
(* The payment plan *)

Nuevo(tipo, importe, financiera) ==
    [tipo |-> tipo, importe |-> importe, financiera |-> financiera,
     estado |-> "PENDIENTE", informado |-> FALSE]

\* Components a user can send, and the plans made of them.
Entradas ==
    {c \in [tipo : TiposEnviados, importe : Importes,
            financiera : Financieras \cup {""}, estado : {"PENDIENTE"},
            informado : {FALSE}] :
        c.tipo = "FINANCIACION" <=> c.financiera # ""}

Planes ==
    {plan \in UNION {[1..n -> Entradas] : n \in 1..MaxEntradas} :
        Planificado(plan) \in Precios}

DeTipo(c, S) == {i \in Vigentes(c) : c[i].tipo \in S}

validatePaymentPlanContract(o, plan) ==
    LET regla == Reglas[o.plataforma]
        creditos == DeTipo(plan, {"FINANCIACION"})
    IN  /\ DeTipo(plan, Medios) # {} <=> regla.resto # ""
        /\ creditos # {} <=> regla.credito > 0
        /\ DeTipo(plan, {"TOMA_PARTE_PAGO"}) # {} <=> regla.toma
        /\ regla.credito = 2 =>
              Cardinality({plan[i].financiera : i \in creditos}) >= 2
        /\ creditos # {} => Sumar(plan, creditos) = o.credito

ConCobros == \E i \in ingreso : i.comp # 0

\* The components are deleted and written again; an approved operation stays
\* approved.  A plan with collections is not replaced.
replacePaymentPlan(plan) ==
    /\ Libre /\ operacion.estado \in {"BORRADOR", "RECHAZADA", "APROBADA"}
    /\ Planificado(plan) = operacion.precio
    /\ validatePaymentPlanContract(operacion, plan)
    /\ ~ConCobros
    /\ comp' = plan
    /\ operacion' = [operacion EXCEPT
                        !.estado = IF @ = "APROBADA" THEN @ ELSE "BORRADOR"]
    /\ UNCHANGED <<aprobaciones, ingreso, movimientos, enCurso, solapados>>

-------------------------------------------------------------------------------
(* The correction of an operation *)

\* The financings a corrected operation can be asked to have: two of different
\* institutions, one, or none.
Deseados(o) ==
    LET D == [importe : 1..o.credito, financiera : Financieras]
    IN  CASE Reglas[o.plataforma].credito = 2 ->
                 {d \in [1..2 -> D] : d[1].importe + d[2].importe = o.credito
                                      /\ d[1].financiera # d[2].financiera}
          [] Reglas[o.plataforma].credito = 1 ->
                 {d \in [1..1 -> D] : d[1].importe = o.credito}
          [] OTHER -> {<<>>}

\* The amount that is left to pay in cash, by transfer or by card.
Resto(o) ==
    o.precio - o.credito - Sumar(comp, DeTipo(comp, {"TOMA_PARTE_PAGO"}))

Correccion(o) ==
    /\ Reglas[o.plataforma].toma <=> DeTipo(comp, {"TOMA_PARTE_PAGO"}) # {}
    /\ Resto(o) >= 0
    /\ Resto(o) > 0 <=> Reglas[o.plataforma].resto # ""

Lugar(i, S) == Cardinality({j \in S : j <= i})

\* Mutant of ImporteDelResto: the first takes what the others are for, too.
ImporteDelResto_sinDescontar(o, otros) == Resto(o)

\* What the first cash-like component is for, when the others stay or go.
ImporteDelResto(o, otros) ==
    IF Resto(o) > Sumar(comp, otros) THEN Resto(o) - Sumar(comp, otros)
    ELSE Resto(o)

\* The k-th financing of the plan: updated in its place, or cancelled when the
\* corrected operation has no use for it.
Financiacion(fila, k, deseados) ==
    IF k <= Len(deseados)
    THEN [fila EXCEPT !.importe = deseados[k].importe,
                      !.financiera = deseados[k].financiera]
    ELSE [fila EXCEPT !.estado = "CANCELADA"]

\* Trade-ins stay as they are; the first cash-like component absorbs the
\* difference, and the others stay while they leave it some.
Efectivo(fila, primera, o, otros) ==
    LET tipo == Reglas[o.plataforma].resto
    IN  IF Resto(o) = 0 \/ (~primera /\ Resto(o) <= Sumar(comp, otros))
        THEN [fila EXCEPT !.estado = "CANCELADA"]
        ELSE IF primera
        THEN [fila EXCEPT !.importe = ImporteDelResto(o, otros),
                 !.tipo = IF o.plataforma # operacion.plataforma THEN tipo ELSE @]
        ELSE fila

reconcileCorrectedPaymentPlan(o, deseados) ==
    LET creditos == DeTipo(comp, {"FINANCIACION"})
        efectivo == DeTipo(comp, Medios)
        otros == IF efectivo = {} THEN {} ELSE efectivo \ {Menor(efectivo)}
        faltan == SubSeq(deseados, Cardinality(creditos) + 1, Len(deseados))
    IN  [i \in DOMAIN comp |->
            CASE i \in creditos ->
                    Financiacion(comp[i], Lugar(i, creditos), deseados)
              [] i \in efectivo -> Efectivo(comp[i], i \notin otros, o, otros)
              [] OTHER -> comp[i]]
        \o [k \in DOMAIN faltan |->
               Nuevo("FINANCIACION", faltan[k].importe, faltan[k].financiera)]
        \o (IF Resto(o) > 0 /\ efectivo = {}
            THEN <<Nuevo(Reglas[o.plataforma].resto, Resto(o), "")>> ELSE <<>>)

\* The incomes of a cancelled component stay, without a component.
Desvinculados(plan) ==
    {IF i.comp # 0 /\ plan[i.comp].estado = "CANCELADA"
     THEN [i EXCEPT !.comp = 0] ELSE i : i \in ingreso}

\* An operation is corrected in any state and keeps it.  The model may change
\* with the rest, and brings its prices.
correct(o, deseados) ==
    LET plan == reconcileCorrectedPaymentPlan(o, deseados)
        libres == Desvinculados(plan)
    IN  /\ Correccion(o)
        /\ Len(plan) <= MaxComponentes
        /\ \A t \in enCurso : \A i \in ingreso \ libres : t.ingreso # i.id
        /\ ingreso' = libres
        /\ comp' = [i \in DOMAIN plan |->
               syncComponentPaymentStatus(plan[i],
                   componentCollectedAmount(movimientos, libres, i))]
        /\ operacion' = o
        /\ PasaDisparadores(o, aprobaciones, comp')
        /\ solapados' = solapados \cup Pisados(comp')
        /\ UNCHANGED <<aprobaciones, movimientos, enCurso>>

CorrectPlan(c) ==
    /\ Libre
    /\ \E deseados \in Deseados(c), pol \in Politicas \cup {PreciosDe(operacion)} :
          correct(ConPrecios(ConCondiciones(operacion, c), pol), deseados)

\* correctedVersion alone: the plan is not touched.
CorrectVersion(pol) ==
    /\ Libre
    /\ operacion' = ConPrecios(operacion, pol)
    /\ PasaDisparadores(operacion', aprobaciones, comp)
    /\ UNCHANGED <<aprobaciones, comp, ingreso, movimientos, enCurso, solapados>>

-------------------------------------------------------------------------------
(* Collections of the plan *)

IngresosTomados == {i.id : i \in ingreso} \cup {t.ingreso : t \in enCurso}
MovimientosTomados ==
    {m.id : m \in movimientos} \cup {t.mov.id : t \in enCurso}

\* A transaction with its movement and, when the income has a component, the
\* state it gives the component ("" when it leaves it as it is).
Abrir(tipo, c, i, mov, altas) ==
    LET cobrado == componentCollectedAmount(movimientos \cup {mov},
                                            ingreso \cup altas, c)
        estado == syncComponentPaymentStatus(comp[c], cobrado).estado
    IN  /\ Cardinality(enCurso) < MaxEnCurso
        /\ enCurso' = enCurso \cup
              {[tipo |-> tipo, comp |-> c, ingreso |-> i, mov |-> mov,
                altas |-> altas,
                estado |-> IF c = 0 \/ estado = comp[c].estado THEN "" ELSE estado]}
        /\ solapados' = solapados \cup
              {k \in {c} \ {0} : \E t \in enCurso : t.comp = k}
        /\ UNCHANGED <<operacion, aprobaciones, comp, ingreso, movimientos>>

NuevoMovimiento(i, x, r) ==
    [id |-> Menor((1..MaxMovimientos) \ MovimientosTomados),
     ingreso |-> i, importe |-> x, revierte |-> r]

HayLugar == Cardinality(MovimientosTomados) < MaxMovimientos

\* A component is collected up to its amount, with an income of its own.
collectPaymentComponent(c, x) ==
    /\ Libre /\ operacion.estado # "CANCELADA"
    /\ HayLugar /\ Cardinality(IngresosTomados) < MaxIngresos
    /\ comp[c].tipo # "TOMA_PARTE_PAGO" /\ comp[c].estado # "CANCELADA"
    /\ componentCollectedAmount(movimientos, ingreso, c) + x <= comp[c].importe
    /\ LET i == Menor((1..MaxIngresos) \ IngresosTomados)
       IN  Abrir("COBRO_PLAN", c, i, NuevoMovimiento(i, x, 0),
                 {[id |-> i, comp |-> c, importe |-> x]})

FilaLibre(i) == \A t \in enCurso : t.ingreso # i.id

\* collect of an income: up to the amount of the income.
Collect(i, x) ==
    /\ FilaLibre(i) /\ HayLugar
    /\ Cobrado(movimientos, i.id) + x <= i.importe
    /\ Abrir("COBRO", i.comp, i.id, NuevoMovimiento(i.id, x, 0), {})

\* reverse of a movement of an income.
Reverse(i, m) ==
    /\ FilaLibre(i) /\ HayLugar
    /\ m \in Vivos(movimientos) /\ m.ingreso = i.id
    /\ Abrir("REVERSA", i.comp, i.id, NuevoMovimiento(i.id, m.importe, m.id), {})

Confirmar(t) ==
    /\ enCurso' = enCurso \ {t}
    /\ ingreso' = ingreso \cup t.altas
    /\ movimientos' = movimientos \cup {t.mov}
    /\ comp' = IF t.estado = "" THEN comp
               ELSE [comp EXCEPT ![t.comp].estado = t.estado]
    /\ UNCHANGED <<operacion, aprobaciones, solapados>>

\* The transaction is lost (timeout, crash, a failed write).
Deshacer(t) ==
    /\ enCurso' = enCurso \ {t}
    /\ UNCHANGED <<operacion, aprobaciones, comp, ingreso, movimientos, solapados>>

\* The institution reports that it paid, or the report is taken back.  The
\* operation's version does not change.
Informar(c, informado) ==
    /\ Libre /\ operacion.estado # "CANCELADA"
    /\ comp[c].tipo = "FINANCIACION" /\ comp[c].informado # informado
    /\ comp' = [comp EXCEPT ![c] = syncComponentPaymentStatus(
                   [@ EXCEPT !.informado = informado],
                   componentCollectedAmount(movimientos, ingreso, c))]
    /\ solapados' = solapados \cup Pisados(comp')
    /\ UNCHANGED <<operacion, aprobaciones, ingreso, movimientos, enCurso>>

markFinancingPayment(c) == Informar(c, TRUE)
revertFinancingPayment(c) == Informar(c, FALSE)

-------------------------------------------------------------------------------
Init ==
    /\ operacion = <<>> /\ aprobaciones = {} /\ comp = <<>>
    /\ ingreso = {} /\ movimientos = {} /\ enCurso = {} /\ solapados = {}

VentaNext ==
    \/ \E c \in Condiciones, pol \in Politicas, enviar \in BOOLEAN :
          create(c, pol, enviar)
    \/ Existe /\ \E c \in Condiciones, pol \in Politicas \cup {PreciosDe(operacion)} :
                    update(c, pol)
    \/ \E pol \in Politicas : submit(pol) \/ CorrectVersion(pol)
    \/ \E aprobada \in BOOLEAN : decide(aprobada)
    \/ cancel \/ close
    \/ \E plan \in Planes : replacePaymentPlan(plan)
    \/ \E c \in Condiciones : CorrectPlan(c)

CobroNext ==
    \/ \E c \in DOMAIN comp, x \in Importes : collectPaymentComponent(c, x)
    \/ \E i \in ingreso, x \in Importes : Collect(i, x)
    \/ \E i \in ingreso, m \in movimientos : Reverse(i, m)
    \/ \E c \in DOMAIN comp : markFinancingPayment(c) \/ revertFinancingPayment(c)
    \/ \E t \in enCurso : Confirmar(t)
    \/ \E t \in enCurso : Deshacer(t)

Next == VentaNext \/ CobroNext

Spec == Init /\ [][Next]_vars

-------------------------------------------------------------------------------
(* Properties *)

\* No sale under the minimum price is approved or closed without an approval of
\* that price against that minimum, through submissions, edits, rejections,
\* corrections of the price and corrections of the model.
BajoMinimoAutorizada ==
    Existe /\ operacion.estado \in {"APROBADA", "CERRADA"}
           /\ operacion.precio < operacion.minimo
        => \E a \in aprobaciones :
              /\ a.decision = "APROBADA" /\ a.acordado = operacion.precio
              /\ a.minimo = operacion.minimo

\* A sale waits for an approval exactly while one is pending, and for one only.
EsperaUnaAprobacion ==
    Cardinality(Pendientes(aprobaciones)) =
        IF Existe /\ operacion.estado = "PENDIENTE_APROBACION" THEN 1 ELSE 0

\* The price of a sale is authorised, or waits for one authorisation.
PrecioAutorizado == BajoMinimoAutorizada /\ EsperaUnaAprobacion

\* A component says what the accounts hold of it, or that its institution paid,
\* through partial collections, reversals, corrections that move its amount and
\* lost transactions.  It is stated for components whose requests did not
\* overlap: the status is computed from what the request saw, and the component
\* is not locked.
EstadoDelComponente ==
    \A c \in Vigentes(comp) \ solapados :
        comp[c].estado = IF comp[c].informado THEN "PAGADO"
                         ELSE paymentStatus(componentCollectedAmount(
                                  movimientos, ingreso, c), comp[c].importe)

\* A sale that is no longer a draft changes its price, its platform or its
\* credit only together with its plan, which then adds up to the price and
\* matches the platform.
CorreccionCuadra ==
    [][Existe /\ operacion.estado \notin {"BORRADOR", "RECHAZADA"}
              /\ CondicionesDe(operacion') # CondicionesDe(operacion)
       => /\ Planificado(comp') = operacion'.precio
          /\ validatePaymentPlanContract(operacion', comp')]_vars
===============================================================================
