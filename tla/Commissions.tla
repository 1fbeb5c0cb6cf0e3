------------------------------ MODULE Commissions ------------------------------
(***************************************************************************)
(* The commissions of one seller and one manager of an organization        *)
(* (src/src/commissions), settled by working month: a month ends at its    *)
(* cut, which an administrator may move (src/src/work-months).  Scales are *)
(* versioned policies; a settlement freezes what it counted when it is     *)
(* agreed and is paid once.                                                *)
(*                                                                         *)
(* An agreement holds the advisory lock of its key and a shared lock on    *)
(* the calendar from its first read to its commit, but reads the           *)
(* settlement without locking it; the payment of a manager locks a key of  *)
(* its own.  Those two are several steps here (the first one does every    *)
(* check of the handler on what it reads, Confirmar writes).  The payment  *)
(* of a seller locks the row, a change of the calendar takes the exclusive *)
(* lock and the handlers of policies take the lock of their scope: one     *)
(* step each.  A call answered with an error is an action that is not      *)
(* enabled, except where a client waits for the answer.                    *)
(*                                                                         *)
(* Days are numbers; a month has DiasMes of them and its cut may fall from *)
(* Medio days after its first day.  Left out: notes and meeting dates,     *)
(* vehicle types (one), currencies, cash accounts and versions of          *)
(* policies.                                                               *)
(***************************************************************************)
EXTENDS Integers, Sequences, FiniteSets, FiniteSetsExt

CONSTANTS
    Operaciones, Precio,       \* sales of the seller and their agreed price
    SucursalDe, Principal,     \* their branch, the branch of the manager
    GERENTE,                   \* stands for the branch of a manager's key
    UltimoMes, DiasMes, Medio, MinDias,
    DiasVenta, DiasPolitica,   \* days a sale, a policy may be dated
    Politicas, Escalas,        \* ids of policies, scales a request may carry
    Porcentajes, Importes,     \* inputs of configurations and agreements
    Pedidos,                   \* payment requests (their idempotency keys)
    Siempre,                   \* a later day than any: no validTo, no maximum
    Escenarios,                \* initial policies, configuration and bounds
    NoHay                      \* SQL NULL

ASSUME Calendario ==
    /\ UltimoMes \in Nat \ {0} /\ DiasMes \in Nat \ {0}
    /\ Medio \in 1..(DiasMes - 1) /\ MinDias \in 1..DiasMes
    /\ Siempre \in Nat /\ Siempre > (UltimoMes + 1) * DiasMes

ASSUME Entradas ==
    /\ IsFiniteSet(Operaciones) /\ Precio \in [Operaciones -> Nat]
    /\ UNION {DiasVenta, DiasPolitica, Porcentajes, Importes} \subseteq Nat
    /\ NoHay \notin Int \cup Politicas \cup Pedidos

VARIABLES
    cortes,      \* [Meses -> day of the cut or NoHay]          meses_trabajo
    ventas,      \* [Operaciones -> dia, estado]                  operaciones
    movidas,     \* history: the sales whose date was corrected
    politicas,   \* [Politicas -> row or NoHay]         politicas_comisiones
    config,      \* the manager's row      configuracion_comision_gerente
    liq,         \* [Llaves -> row or NoHay]     liquidaciones_comisiones(_gerente)
    gastos,      \* [Llaves -> amounts of the expenses created, in order]
    acuerdo,     \* [Llaves -> agreement in flight or NoHay]
    pago,        \* [Pedidos -> payment request of a client]
    quedan       \* what each kind of request may still do

vars == <<cortes, ventas, movidas, politicas, config, liq, gastos, acuerdo,
          pago, quedan>>

Meses == 1..UltimoMes

Sucursales == {SucursalDe[o] : o \in Operaciones}

Llaves == (Sucursales \cup {GERENTE}) \X Meses

DeGerente(k) == k[1] = GERENTE

Gasta(q) == quedan[q] > 0 /\ quedan' = [quedan EXCEPT ![q] = @ - 1]

-------------------------------------------------------------------------------
(* The calendar of working months *)

PrimerDia(m) == (m - 1) * DiasMes + 1

periodKeyOf(d) == (d - 1) \div DiasMes + 1

calendarMonthRange(m) == [from |-> PrimerDia(m), to |-> m * DiasMes]

\* The days the cut of a month may fall on.
cutBounds(m) == (PrimerDia(m) + Medio) .. (PrimerDia(m + 1) + Medio - 1)

\* The month of a range already stored.
periodOfRange(to) == periodKeyOf(to - Medio)

endOf(cs, m) ==
    IF m \in Meses /\ cs[m] # NoHay THEN cs[m] ELSE calendarMonthRange(m).to

range(cs, m) == [from |-> endOf(cs, m - 1) + 1, to |-> endOf(cs, m)]

rangeDays(r) == r.to - r.from + 1

\* The working month of a day.
periodOf(cs, d) ==
    LET m == periodKeyOf(d)
        r == range(cs, m)
    IN  IF d < r.from THEN m - 1 ELSE IF d > r.to THEN m + 1 ELSE m

\* Mutant of settledWindows: the month that starts after the cut is forgotten.
settledWindows_unMes(m) ==
    \E k \in Llaves : /\ liq[k] # NoHay
                      /\ liq[k].hasta >= range(cortes, m).from
                      /\ liq[k].desde <= range(cortes, m).to

\* Some settlement, of a seller or of a manager, crosses the month or the next.
settledWindows(m) ==
    \E k \in Llaves : /\ liq[k] # NoHay
                      /\ liq[k].hasta >= range(cortes, m).from
                      /\ liq[k].desde <= range(cortes, m + 1).to

\* The exclusive lock waits for every agreement in flight.
lockWorkCalendar == \A k \in Llaves : acuerdo[k] = NoHay

\* Mutant of Afectados: only the month that is moved is looked at.
Afectados_sinSiguiente(m) == {m}

\* The months whose range changes with the cut of a month.
Afectados(m) == {m, m + 1}

\* Nothing happens if nothing changes; neither month may have settlements nor,
\* if it has a cut, become too short.
change(m, corte) ==
    LET cs == [cortes EXCEPT ![m] = corte]
    IN  /\ Gasta("cortes")
        /\ lockWorkCalendar
        /\ corte # cortes[m]
        /\ ~ settledWindows(m)
        /\ \A a \in Afectados(m) :
              (a \in Meses /\ cs[a] # NoHay)
                  => rangeDays(range(cs, a)) >= MinDias
        /\ cortes' = cs
        /\ UNCHANGED <<ventas, movidas, politicas, config, liq, gastos,
                       acuerdo, pago>>

setCut(m, corte) == corte \in cutBounds(m) /\ change(m, corte)

removeCut(m) == change(m, NoHay)

-------------------------------------------------------------------------------
(* What a commission is worth *)

\* Tiers start at 1, have neither gaps nor overlaps, and only the last is open.
validateCommissionTiers(tiers) ==
    /\ tiers # <<>>
    /\ tiers[1].minUnits = 1
    /\ \A i \in DOMAIN tiers :
          /\ tiers[i].maxUnits >= tiers[i].minUnits
          /\ tiers[i].fixedAmount >= 0
          /\ (tiers[i].maxUnits = Siempre) <=> (i = Len(tiers))
          /\ i > 1 => tiers[i].minUnits = tiers[i - 1].maxUnits + 1

calculateFixedCommission(tiers, n) ==
    LET caben == {i \in DOMAIN tiers :
                    tiers[i].minUnits <= n /\ n <= tiers[i].maxUnits}
    IN  IF caben = {} THEN 0 ELSE tiers[Min(caben)].fixedAmount

PrecioDe(o) == Precio[o]

\* A percentage of the prices agreed, or a scale on the number of sales.
\* The prices of an instance make every percentage whole.
calculateManagerCommission(c, ops) ==
    IF c.modo = "PORCENTAJE"
    THEN (MapThenSumSet(PrecioDe, ops) * c.porcentaje) \div 100
    ELSE calculateFixedCommission(politicas[c.politica].escala, Cardinality(ops))

commissionOperationEligibility(o) == ventas[o].estado = "APROBADA"

EnRango(r) == {o \in Operaciones : /\ ventas[o].dia # NoHay
                                   /\ r.from <= ventas[o].dia
                                   /\ ventas[o].dia <= r.to}

ComputablesEn(sucs, r) ==
    {o \in EnRango(r) : SucursalDe[o] \in sucs /\ commissionOperationEligibility(o)}

\* The active policy of a scope on a day: the one that started last.
activePolicyId(ambito, dia) ==
    LET vigentes == {p \in Politicas :
                       /\ politicas[p] # NoHay
                       /\ politicas[p].ambito = ambito
                       /\ politicas[p].estado = "ACTIVA"
                       /\ politicas[p].desde <= dia /\ dia <= politicas[p].hasta}
    IN  IF vigentes = {} THEN NoHay
        ELSE CHOOSE p \in vigentes :
                \A q \in vigentes : politicas[q].desde <= politicas[p].desde

managerScopeBranchIds ==
    IF config.alcance = "TODAS_LAS_SUCURSALES" THEN Sucursales ELSE {Principal}

\* What the seller's suggestion offers for a key, if a policy covers the month.
suggestionData(k) ==
    LET r == range(cortes, k[2])
        p == activePolicyId("VENDEDOR", r.to)
        ops == ComputablesEn({k[1]}, r)
    IN  [rango |-> r, ops |-> ops, politica |-> p,
         monto |-> IF p = NoHay THEN NoHay
                   ELSE calculateFixedCommission(politicas[p].escala,
                                                 Cardinality(ops))]

\* What a manager has earned, by the configuration in force.  A scale that is
\* not of management is an error.
managerCommissionForActor(k) ==
    LET r == range(cortes, k[2])
        ops == ComputablesEn(managerScopeBranchIds, r)
        vale == /\ config # NoHay /\ config.activo
                /\ config.modo = "ESCALA"
                      => politicas[config.politica].ambito = "GERENCIA"
    IN  [rango |-> r, ops |-> IF vale THEN ops ELSE {},
         politica |-> IF vale THEN config.politica ELSE NoHay,
         monto |-> IF vale THEN calculateManagerCommission(config, ops) ELSE NoHay]

-------------------------------------------------------------------------------
(* Policies *)

Solapan(a, b) == a.desde <= b.hasta /\ b.desde <= a.hasta

Rigen(ambito) == {p \in Politicas : /\ politicas[p] # NoHay
                                   /\ politicas[p].ambito = ambito
                                   /\ politicas[p].estado = "ACTIVA"}

\* Mutant of Previas: a policy that ends the day the new one starts stays.
Previas_sinBorde(id, f) ==
    {p \in Rigen(f.ambito) \ {id} : politicas[p].hasta > f.desde
                                   /\ politicas[p].desde <= f.hasta}

\* The active policies of its scope that a new version crosses.
Previas(id, f) == {p \in Rigen(f.ambito) \ {id} : Solapan(politicas[p], f)}

\* A version that starts with the new one is deactivated, an earlier one ends
\* the day before; one that starts later refuses the request.
closePreviousPolicies(id, f) ==
    [p \in Politicas |->
        IF p \notin Previas(id, f) THEN politicas[p]
        ELSE IF politicas[p].desde = f.desde
             THEN [politicas[p] EXCEPT !.estado = "INACTIVA"]
             ELSE [politicas[p] EXCEPT !.hasta = f.desde - 1]]

\* The deferred trigger sees the row as the statement that fired it left it:
\* with the scope it had before setPolicyAmbito.
PasaVigencia(ps, id, f, ambito) ==
    f.estado = "ACTIVA" =>
        ~ \E p \in Politicas \ {id} :
            /\ ps[p] # NoHay /\ ps[p].estado = "ACTIVA"
            /\ ps[p].ambito = ambito /\ Solapan(ps[p], f)

\* Writes a policy, closing the versions it replaces when it is active.
GuardaPolitica(id, f, ambitoPrevio) ==
    LET ps == IF f.estado = "ACTIVA" THEN closePreviousPolicies(id, f)
              ELSE politicas
    IN  /\ Gasta("politicas")
        /\ f.estado = "ACTIVA" =>
              \A p \in Previas(id, f) : politicas[p].desde <= f.desde
        /\ PasaVigencia(ps, id, f, ambitoPrevio)
        /\ politicas' = [ps EXCEPT ![id] = f]
        /\ UNCHANGED <<cortes, ventas, movidas, config, liq, gastos, acuerdo,
                       pago>>

\* What a request may ask of a policy.
PoliticasPedidas ==
    {f \in [estado : {"BORRADOR", "ACTIVA"}, ambito : {"VENDEDOR", "GERENCIA"},
            desde : DiasPolitica, hasta : DiasPolitica \cup {Siempre},
            escala : Escalas] :
        f.desde <= f.hasta /\ validateCommissionTiers(f.escala)}

createPolicy(id, f) ==
    /\ politicas[id] = NoHay
    /\ \A p \in Politicas : p < id => politicas[p] # NoHay
    /\ GuardaPolitica(id, f, "VENDEDOR")

EsBorrador(id) == politicas[id] # NoHay /\ politicas[id].estado = "BORRADOR"

updatePolicy(id, f) ==
    EsBorrador(id) /\ GuardaPolitica(id, f, politicas[id].ambito)

activatePolicy(id) ==
    /\ EsBorrador(id)
    /\ GuardaPolitica(id, [politicas[id] EXCEPT !.estado = "ACTIVA"],
                      politicas[id].ambito)

deactivatePolicy(id) ==
    /\ politicas[id] # NoHay /\ politicas[id].estado # "INACTIVA"
    /\ Gasta("politicas")
    /\ politicas' = [politicas EXCEPT ![id].estado = "INACTIVA"]
    /\ UNCHANGED <<cortes, ventas, movidas, config, liq, gastos, acuerdo, pago>>

\* A draft that a configuration or a settlement refers to is kept by its
\* foreign key.
deletePolicy(id) ==
    /\ EsBorrador(id)
    /\ config # NoHay => config.politica # id
    /\ \A k \in Llaves : liq[k] # NoHay => liq[k].politica # id
    /\ Gasta("politicas")
    /\ politicas' = [politicas EXCEPT ![id] = NoHay]
    /\ UNCHANGED <<cortes, ventas, movidas, config, liq, gastos, acuerdo, pago>>

\* The configuration of the manager; its scale must be of management when it
\* is saved, whatever its state.
Configuraciones ==
    [modo : {"PORCENTAJE"}, porcentaje : Porcentajes, politica : {NoHay},
     alcance : {"SU_SUCURSAL", "TODAS_LAS_SUCURSALES"}, activo : BOOLEAN]
    \cup
    [modo : {"ESCALA"}, porcentaje : {NoHay},
     politica : {p \in Politicas : /\ politicas[p] # NoHay
                                   /\ politicas[p].ambito = "GERENCIA"},
     alcance : {"SU_SUCURSAL", "TODAS_LAS_SUCURSALES"}, activo : BOOLEAN]

saveManagerCommissionConfig(c) ==
    /\ c # config
    /\ Gasta("config")
    /\ config' = c
    /\ UNCHANGED <<cortes, ventas, movidas, politicas, liq, gastos, acuerdo,
                   pago>>

-------------------------------------------------------------------------------
(* The sales that commissions count *)

\* A sale of the seller is approved.
Vender(o, dia) ==
    /\ ventas[o].dia = NoHay
    /\ Gasta("ventas")
    /\ ventas' = [ventas EXCEPT ![o] = [dia |-> dia, estado |-> "APROBADA"]]
    /\ UNCHANGED <<cortes, movidas, politicas, config, liq, gastos, acuerdo,
                   pago>>

\* It is cancelled: it does not count any more.
CancelarVenta(o) ==
    /\ ventas[o].estado = "APROBADA"
    /\ Gasta("ventas")
    /\ ventas' = [ventas EXCEPT ![o].estado = "CANCELADA"]
    /\ UNCHANGED <<cortes, movidas, politicas, config, liq, gastos, acuerdo,
                   pago>>

\* correct with another operationDate: settled months are not looked at.
CorregirFecha(o, dia) ==
    /\ ventas[o].estado = "APROBADA" /\ dia # ventas[o].dia
    /\ Gasta("ventas")
    /\ ventas' = [ventas EXCEPT ![o].dia = dia]
    /\ movidas' = movidas \cup {o}
    /\ UNCHANGED <<cortes, politicas, config, liq, gastos, acuerdo, pago>>

-------------------------------------------------------------------------------
(* Agreements *)

\* What an agreement that passed its checks will write.
Acordar(k, d, importe) ==
    /\ Gasta(IF DeGerente(k) THEN "acuerdosG" ELSE "acuerdos")
    /\ acuerdo' = [acuerdo EXCEPT ![k] =
          [nueva |-> liq[k] = NoHay, desde |-> d.rango.from,
           hasta |-> d.rango.to, ops |-> d.ops, politica |-> d.politica,
           importe |-> importe]]
    /\ UNCHANGED <<cortes, ventas, movidas, politicas, config, liq, gastos, pago>>

SinPagar(k) == liq[k] # NoHay => liq[k].estado # "PAGADA"

\* The agreement with a seller: it needs a policy on the last day of the
\* month and, to change an earlier one, the version its client read.  The same
\* agreement again changes nothing.
agree(k, importe) ==
    LET d == suggestionData(k)
    IN  /\ ~ DeGerente(k)
        /\ acuerdo[k] = NoHay
        /\ d.politica # NoHay
        /\ SinPagar(k)
        /\ liq[k] # NoHay => liq[k].importe # importe
        /\ Acordar(k, d, importe)

agreeManagerCommission(k) ==
    LET d == managerCommissionForActor(k)
    IN  /\ DeGerente(k)
        /\ acuerdo[k] = NoHay
        /\ d.monto # NoHay
        /\ SinPagar(k)
        /\ liq[k] # NoHay =>
              ~ (/\ liq[k].importe = d.monto
                 /\ Cardinality(liq[k].ops) = Cardinality(d.ops))
        /\ Acordar(k, d, d.monto)

\* The unique index: one settlement of a seller, or of a manager, for a range.
\* It does not look at the branch.
PeriodoUnico(k, a) ==
    \A j \in Llaves \ {k} :
        (liq[j] # NoHay /\ DeGerente(j) = DeGerente(k))
            => <<liq[j].desde, liq[j].hasta>> # <<a.desde, a.hasta>>

\* Mutant of PagoCompleto: the check is missing from the table.
PagoCompleto_sinControl(f) == TRUE

\* The check of both tables: paid, if and only if the payment is there.
PagoCompleto(f) == (f.estado = "PAGADA") <=> (f.clave # NoHay)

\* Mutant of Acordada: the version stays.
Acordada_sinVersion(k, a) ==
    IF a.nueva
    THEN [desde |-> a.desde, hasta |-> a.hasta, ops |-> a.ops,
          politica |-> a.politica, importe |-> a.importe,
          estado |-> "ACORDADA", version |-> 0, clave |-> NoHay]
    ELSE IF DeGerente(k)
    THEN [liq[k] EXCEPT !.ops = a.ops, !.politica = a.politica,
                        !.importe = a.importe]
    ELSE [liq[k] EXCEPT !.importe = a.importe, !.estado = "ACORDADA"]

\* The row an agreement leaves.  What a seller's settlement counted never
\* changes; a manager's is counted again and keeps the state it has.
Acordada(k, a) ==
    IF a.nueva
    THEN [desde |-> a.desde, hasta |-> a.hasta, ops |-> a.ops,
          politica |-> a.politica, importe |-> a.importe,
          estado |-> "ACORDADA", version |-> 0, clave |-> NoHay]
    ELSE IF DeGerente(k)
    THEN [liq[k] EXCEPT !.ops = a.ops, !.politica = a.politica,
                        !.importe = a.importe, !.version = @ + 1]
    ELSE [liq[k] EXCEPT !.importe = a.importe, !.estado = "ACORDADA",
                        !.version = @ + 1]

\* The agreement writes and commits.
Confirmar(k) ==
    /\ acuerdo[k] # NoHay
    /\ acuerdo[k].nueva => PeriodoUnico(k, acuerdo[k])
    /\ PagoCompleto(Acordada(k, acuerdo[k]))
    /\ liq' = [liq EXCEPT ![k] = Acordada(k, acuerdo[k])]
    /\ acuerdo' = [acuerdo EXCEPT ![k] = NoHay]
    /\ UNCHANGED <<cortes, ventas, movidas, politicas, config, gastos, pago,
                   quedan>>

\* The database refuses it, or the transaction is lost.
Deshacer(k) ==
    /\ acuerdo[k] # NoHay
    /\ acuerdo' = [acuerdo EXCEPT ![k] = NoHay]
    /\ UNCHANGED <<cortes, ventas, movidas, politicas, config, liq, gastos,
                   pago, quedan>>

-------------------------------------------------------------------------------
(* Payments *)

\* A client reads the agreed settlements and asks for the payment of one, with
\* the version it read.
PedirPago(p, k) ==
    /\ pago[p].fase = "no"
    /\ liq[k] # NoHay /\ liq[k].estado = "ACORDADA"
    /\ Gasta("pagos")
    /\ pago' = [pago EXCEPT ![p] =
          [fase |-> "pedido", llave |-> k, version |-> liq[k].version,
           importe |-> liq[k].importe]]
    /\ UNCHANGED <<cortes, ventas, movidas, politicas, config, liq, gastos,
                   acuerdo>>

\* The answer reaches the client, or is lost and the client asks again.
Responde(p, fase) ==
    \/ pago' = [pago EXCEPT ![p].fase = fase] /\ UNCHANGED quedan
    \/ Gasta("perdidas") /\ UNCHANGED pago

Pagable(p) == LET f == liq[pago[p].llave]
              IN  f.estado = "ACORDADA" /\ f.version = pago[p].version

Pagada(p) == LET k == pago[p].llave
             IN  [liq EXCEPT ![k].estado = "PAGADA", ![k].clave = p,
                             ![k].version = @ + 1]

\* Mutant of PagoRepetido: a repeated key is a conflict.
PagoRepetido_nunca(p) == FALSE

\* The same idempotency key and payload again.
PagoRepetido(p) == LET f == liq[pago[p].llave]
                   IN  f.estado = "PAGADA" /\ f.clave = p

\* The payment of a seller: an expense, a movement of cash and the state of
\* the settlement, or the answer the first request was owed, or an error.
pay(p) ==
    /\ pago[p].fase = "pedido" /\ ~ DeGerente(pago[p].llave)
    /\ \/ /\ Pagable(p)
          /\ liq' = Pagada(p)
          /\ gastos' = [gastos EXCEPT ![pago[p].llave] =
                            Append(@, liq[pago[p].llave].importe)]
          /\ Responde(p, "si")
       \/ /\ PagoRepetido(p)
          /\ Responde(p, "si")
          /\ UNCHANGED <<liq, gastos>>
       \/ /\ ~ Pagable(p) /\ ~ PagoRepetido(p)
          /\ Responde(p, "rechazado")
          /\ UNCHANGED <<liq, gastos>>
    /\ UNCHANGED <<cortes, ventas, movidas, politicas, config, acuerdo>>

\* The payment of a manager checks what it reads, under a lock that no
\* agreement takes; it has no idempotency key.
payManagerCommission(p) ==
    /\ pago[p].fase = "pedido" /\ DeGerente(pago[p].llave)
    /\ \A q \in Pedidos :
          pago[q].fase = "leido" => pago[q].llave # pago[p].llave
    /\ \/ /\ Pagable(p)
          /\ pago' = [pago EXCEPT ![p].fase = "leido"]
          /\ UNCHANGED quedan
       \/ ~ Pagable(p) /\ Responde(p, "rechazado")
    /\ UNCHANGED <<cortes, ventas, movidas, politicas, config, liq, gastos,
                   acuerdo>>

\* It writes by id and commits; nothing is charged to an account.
ConfirmarPago(p) ==
    /\ pago[p].fase = "leido"
    /\ liq' = Pagada(p)
    /\ \/ pago' = [pago EXCEPT ![p].fase = "si"] /\ UNCHANGED quedan
       \/ pago' = [pago EXCEPT ![p].fase = "pedido"] /\ Gasta("perdidas")
    /\ UNCHANGED <<cortes, ventas, movidas, politicas, config, gastos, acuerdo>>

-------------------------------------------------------------------------------
(* Rows *)

Escalon == [minUnits : Nat, maxUnits : Nat, fixedAmount : Nat]

Politica ==
    [estado : {"BORRADOR", "ACTIVA", "INACTIVA"}, ambito : {"VENDEDOR", "GERENCIA"},
     desde : Nat, hasta : Nat, escala : Seq(Escalon)]

Configuracion ==
    [modo : {"PORCENTAJE", "ESCALA"}, porcentaje : Nat \cup {NoHay},
     politica : Politicas \cup {NoHay},
     alcance : {"SU_SUCURSAL", "TODAS_LAS_SUCURSALES"}, activo : BOOLEAN]

Fila == [desde : Nat, hasta : Nat, ops : SUBSET Operaciones,
         politica : Politicas \cup {NoHay}, importe : Nat,
         estado : {"ACORDADA", "PAGADA"}, version : Nat,
         clave : Pedidos \cup {NoHay}]

\* A configuration has the percentage, or the scale, it is paid by.
ConMonto(c, ps) ==
    IF c.modo = "PORCENTAJE" THEN c.porcentaje \in Nat
    ELSE c.politica \in Politicas /\ ps[c.politica] # NoHay

\* No two active policies of a scope share a day.
SinSolape(ps) ==
    \A p, q \in Politicas :
        (/\ p # q /\ ps[p] # NoHay /\ ps[q] # NoHay
         /\ ps[p].estado = "ACTIVA" /\ ps[q].estado = "ACTIVA"
         /\ ps[p].ambito = ps[q].ambito)
            => ~ Solapan(ps[p], ps[q])

ASSUME FilasPosibles ==
    /\ NoHay \notin Politica \cup Fila
    /\ \A e \in Escalas : validateCommissionTiers(e) => e \in Seq(Escalon)

\* Policies and configuration an organization may start with.
ASSUME EscenariosPosibles ==
    \A e \in Escenarios :
        /\ e.politicas \in [Politicas -> Politica \cup {NoHay}]
        /\ SinSolape(e.politicas)
        /\ e.config # NoHay =>
              e.config \in Configuracion /\ ConMonto(e.config, e.politicas)

-------------------------------------------------------------------------------
Init ==
    \E e \in Escenarios :
        /\ cortes = [m \in Meses |-> NoHay]
        /\ ventas = [o \in Operaciones |-> [dia |-> NoHay, estado |-> "BORRADOR"]]
        /\ movidas = {}
        /\ politicas = e.politicas
        /\ config = e.config
        /\ liq = [k \in Llaves |-> NoHay]
        /\ gastos = [k \in Llaves |-> <<>>]
        /\ acuerdo = [k \in Llaves |-> NoHay]
        /\ pago = [p \in Pedidos |->
                     [fase |-> "no", llave |-> NoHay, version |-> 0, importe |-> 0]]
        /\ quedan = e.quedan

Next ==
    \/ \E m \in Meses : removeCut(m) \/ \E d \in cutBounds(m) : setCut(m, d)
    \/ \E id \in Politicas :
          \/ activatePolicy(id) \/ deactivatePolicy(id) \/ deletePolicy(id)
          \/ \E f \in PoliticasPedidas : createPolicy(id, f) \/ updatePolicy(id, f)
    \/ \E c \in Configuraciones : saveManagerCommissionConfig(c)
    \/ \E o \in Operaciones :
          \/ \E d \in DiasVenta : Vender(o, d) \/ CorregirFecha(o, d)
          \/ CancelarVenta(o)
    \/ \E k \in Llaves :
          \/ \E i \in Importes : agree(k, i)
          \/ agreeManagerCommission(k) \/ Confirmar(k) \/ Deshacer(k)
          \/ \E p \in Pedidos : PedirPago(p, k)
    \/ \E p \in Pedidos :
          pay(p) \/ payManagerCommission(p) \/ ConfirmarPago(p)

\* A client repeats its request until it is answered.
Spec == Init /\ [][Next]_vars /\ \A p \in Pedidos : WF_vars(pay(p))

-------------------------------------------------------------------------------
(* Properties *)

\* Every row has its shape; a cut falls where its month allows, no month with a
\* cut is too short, and a paid settlement of a seller has one expense.
TypeOK ==
    /\ \A m \in Meses : cortes[m] # NoHay =>
          cortes[m] \in cutBounds(m) /\ rangeDays(range(cortes, m)) >= MinDias
    /\ \A k \in Llaves :
          /\ liq[k] # NoHay => liq[k] \in Fila
          /\ Len(gastos[k]) =
                IF liq[k] # NoHay /\ ~ DeGerente(k) /\ liq[k].estado = "PAGADA"
                THEN 1 ELSE 0
    /\ \A p \in Pedidos :
          /\ pago[p].fase \in {"no", "pedido", "leido", "si", "rechazado"}
          /\ pago[p].fase # "no" => pago[p].llave \in Llaves
    /\ movidas \subseteq Operaciones

\* However cuts move, a settlement is of exactly one working month, with the
\* days that month has today; a sale is counted in its month, and once.  A
\* sale whose date was corrected is excepted: correct does not look at the
\* settlements.
CadaVentaEnSuMes ==
    \A k \in Llaves : liq[k] # NoHay =>
        /\ [from |-> liq[k].desde, to |-> liq[k].hasta] = range(cortes, k[2])
        /\ periodOfRange(liq[k].hasta) = k[2]
        /\ \A o \in liq[k].ops \ movidas : periodOf(cortes, ventas[o].dia) = k[2]
        /\ \A j \in Llaves \ {k} :
              (liq[j] # NoHay /\ DeGerente(j) = DeGerente(k))
                  => liq[j].ops \cap liq[k].ops \subseteq movidas

\* At most one policy of a scope is active on a day, so that what a settlement
\* is worth does not depend on which one is read.
UnaPoliticaPorDia == SinSolape(politicas)

\* What was paid does not change, even by an agreement that was in flight.
\* Only such an agreement changes the settlement of a manager: its update is
\* by id and nothing stops it.
PagadaNoCambia ==
    [][\A k \in Llaves :
         (liq[k] # NoHay /\ liq[k].estado = "PAGADA") =>
             \/ liq'[k] = liq[k]
             \/ DeGerente(k) /\ acuerdo[k] # NoHay]_vars

\* A payment is of the amount its client read: any agreement in between makes
\* it stale.  Only a manager's settlement can change after the check.
SePagaLoVisto ==
    [][\A k \in Llaves :
         (/\ liq[k] # NoHay /\ liq[k].estado = "ACORDADA"
          /\ liq'[k].estado = "PAGADA") =>
             \E p \in Pedidos :
                 /\ pago[p].llave = k /\ liq'[k].clave = p
                 /\ \/ liq'[k].importe = pago[p].importe
                    \/ pago[p].fase = "leido" /\ liq[k].version # pago[p].version]_vars

\* A client whose payment was registered is told so in the end, whatever
\* answers are lost.
PagoConfirmado ==
    \A p \in Pedidos :
        (\E k \in Llaves : /\ ~ DeGerente(k) /\ liq[k] # NoHay
                           /\ liq[k].clave = p)
            ~> (pago[p].fase = "si")
===============================================================================
