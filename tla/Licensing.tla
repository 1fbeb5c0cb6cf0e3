------------------------------- MODULE Licensing -------------------------------
(***************************************************************************)
(* The license plate of a sale (src/src/sales, licensing): who pays for    *)
(* it, the days it is expected, its arrival, what the client paid, and the *)
(* two alerts of the dashboard.  A request locks its operation from the    *)
(* first read to the commit, so requests of one operation are one step     *)
(* each; the arrival of a plate looks for it in the units of other         *)
(* operations, which it does not lock: two steps.  Stock writes the plate  *)
(* of a unit too (src/src/inventory, src/src/supply), without looking for  *)
(* it in the others.                                                       *)
(*                                                                         *)
(* A plate is its letters and digits and the way they were written, which  *)
(* stock may leave blank: the queries take a blank plate for a plate, the  *)
(* sale does not.  The version of the operation only turns away requests   *)
(* of who did not see the last change: left out.  No request leaves an     *)
(* income ANULADO.                                                         *)
(***************************************************************************)
EXTENDS Receipts

CONSTANTS
    Ventas,      \* sales operations
    Unidades,
    Patentes,    \* plates as they may be written, or blank: [letras, escrita]
    Plazo,       \* days from the operation to the end of the estimated window
    MaxDia       \* last day

VARIABLES
    ventas,      \* [Ventas -> row]              operaciones
    placas,      \* [Unidades -> plate or NoHay] unidades_vehiculos
    enTramite,   \* [Ventas -> arrival being registered or NoHay]
    carreras,    \* history: plates two requests registered at once, or that
                 \* stock wrote while another unit had or was getting them
    hoy

patentesVars == <<ventas, placas, enTramite, carreras, hoy>>

OVERDUE_ELIGIBLE_STATES == {"PENDIENTE_APROBACION", "APROBADA", "CERRADA"}

isOverdueEligibleState(o) == ventas[o].estado \in OVERDUE_ELIGIBLE_STATES

normalizeLicensePlate(patente) == patente.letras

\* Nobody holds the lock of the operation.
SinBloqueo(o) == enTramite[o] = NoHay

-------------------------------------------------------------------------------
(* What the operation shows (licensingSummary) *)

incomes(o) == {i \in DOMAIN ingresos : ingresos[i].de.patente = o}

Placa(o) == IF ventas[o].unidad = NoHay THEN NoHay ELSE placas[ventas[o].unidad]

isPlateReceived(o) ==
    \/ ventas[o].recibida
    \/ Placa(o) # NoHay /\ Placa(o).escrita # ""

isLicensingOverdue(o) ==
    /\ ventas[o].estimada # NoHay /\ ~ isPlateReceived(o)
    /\ isOverdueEligibleState(o) /\ ventas[o].estimada < hoy

ImportesDe(is) == MapThenSumSet(LAMBDA i : ingresos[i].importe, is)

Pagados(is) == {i \in is : ingresos[i].estado = "PAGADO"}

collectionStatus(o) ==
    IF incomes(o) = {} THEN "SIN_REGISTRAR"
    ELSE IF Pagados(incomes(o)) = incomes(o) THEN "PAGADO"
    ELSE IF \E i \in incomes(o) : ingresos[i].estado # "PENDIENTE"
    THEN "PAGO_PARCIAL" ELSE "PENDIENTE"

collectionCovered(o) ==
    /\ collectionStatus(o) = "PAGADO"
    /\ ventas[o].importe # NoHay =>
          ImportesDe(Pagados(incomes(o))) >= ventas[o].importe

licensingPlateStatus(o) ==
    IF isPlateReceived(o)
    THEN IF ventas[o].modalidad = "PAGA_CLIENTE"
         THEN IF collectionCovered(o) THEN "RECIBIDA_COBRADA"
              ELSE "RECIBIDA_COBRO_PENDIENTE"
         ELSE "RECIBIDA"
    ELSE IF ~ isOverdueEligibleState(o) THEN "NO_APLICA"
    ELSE IF isLicensingOverdue(o) THEN "EN_TRAMITE_VENCIDA" ELSE "EN_TRAMITE"

-------------------------------------------------------------------------------
(* What the dashboard counts *)

\* The query of the collections pending.
licensingCollectionPendingIds ==
    {o \in Ventas :
        /\ ventas[o].modalidad = "PAGA_CLIENTE" /\ isOverdueEligibleState(o)
        /\ ventas[o].recibida \/ Placa(o) # NoHay
        /\ \/ Cardinality(incomes(o)) = 0
           \/ Cardinality(incomes(o) \ Pagados(incomes(o))) > 0
           \/ /\ ventas[o].importe # NoHay
              /\ ImportesDe(Pagados(incomes(o))) < ventas[o].importe}

licensingOverdueWhere ==
    {o \in Ventas :
        /\ isOverdueEligibleState(o)
        /\ ventas[o].estimada # NoHay /\ ventas[o].estimada < hoy
        /\ ~ ventas[o].recibida
        /\ \/ ventas[o].unidad = NoHay
           \/ placas[ventas[o].unidad] = NoHay}

-------------------------------------------------------------------------------
(* The life of the sale *)

Pasa(o, hasta, unidad) ==
    /\ SinBloqueo(o)
    /\ ventas' = [ventas EXCEPT ![o].estado = hasta, ![o].unidad = unidad]
    /\ UNCHANGED <<placas, enTramite, carreras, hoy, ingresos, movimientos>>

\* A rejected or cancelled sale gives its unit back.
Decidir(o, decision) ==
    /\ ventas[o].estado = "PENDIENTE_APROBACION"
    /\ Pasa(o, decision, IF decision = "APROBADA" THEN ventas[o].unidad ELSE NoHay)

Cerrar(o) ==
    /\ ventas[o].estado = "APROBADA" /\ ventas[o].unidad # NoHay
    /\ Pasa(o, "CERRADA", ventas[o].unidad)

\* A delivered sale keeps its unit and its state.
SinEntregar(o) == ventas[o].entregada = NoHay

CancelarVenta(o) ==
    /\ ventas[o].estado \notin {"CANCELADA", "CERRADA"} /\ SinEntregar(o)
    /\ Pasa(o, "CANCELADA", NoHay)

\* The delivery is registered, corrected, or corrected back.
Entregar(o, entregada) ==
    /\ SinBloqueo(o) /\ ventas[o].estado \in {"APROBADA", "CERRADA"}
    /\ ventas[o].unidad # NoHay /\ SinEntregar(o) = entregada
    /\ ventas' = [ventas EXCEPT ![o].entregada = IF entregada THEN hoy ELSE NoHay]
    /\ UNCHANGED <<placas, enTramite, carreras, hoy, ingresos, movimientos>>

\* The unit is given back by the sale, or taken over by another one when its
\* reservation expired.
Soltar(o) ==
    /\ ventas[o].estado \in {"PENDIENTE_APROBACION", "APROBADA"}
    /\ ventas[o].unidad # NoHay /\ SinEntregar(o)
    /\ Pasa(o, ventas[o].estado, NoHay)

assignUnit(o, u) ==
    /\ ventas[o].estado \in {"PENDIENTE_APROBACION", "APROBADA"}
    /\ ventas[o].unidad = NoHay
    /\ \A x \in Ventas : ventas[x].unidad # u
    /\ Pasa(o, ventas[o].estado, u)

Dia ==
    /\ hoy < MaxDia
    /\ hoy' = hoy + 1
    /\ UNCHANGED <<ventas, placas, enTramite, carreras, ingresos, movimientos>>

-------------------------------------------------------------------------------
(* Requests of the licensing office *)

updateLicensing(o, modalidad, importe) ==
    /\ SinBloqueo(o) /\ ventas[o].estado # "CANCELADA"
    /\ importe # NoHay => modalidad = "PAGA_CLIENTE"
    /\ modalidad = "BONIFICADA" => incomes(o) = {}
    /\ ventas' = [ventas EXCEPT
          ![o].modalidad = modalidad, ![o].importe = importe,
          ![o].estimada = IF @ = NoHay THEN Plazo ELSE @]
    /\ UNCHANGED <<placas, enTramite, carreras, hoy, ingresos, movimientos>>

\* The key of a collection of this operation charges nothing again; the key of
\* another movement is refused.
YaCobrado(o, clave) ==
    \E m \in movimientos : m.clave = clave /\ m.ingreso \in incomes(o)

collectLicensing(o, importe, clave) ==
    /\ SinBloqueo(o) /\ ventas[o].estado # "CANCELADA"
    /\ ventas[o].modalidad = "PAGA_CLIENTE" /\ importe > 0
    /\ Cobra(DePatente(o), importe, clave)
    /\ UNCHANGED patentesVars

\* Mutant of Duplicada: the plates are compared as they were written.
Duplicada_escrita(u, patente) ==
    \E x \in Unidades \ {u} : placas[x] # NoHay /\ placas[x].escrita = patente.escrita

Duplicada(u, patente) ==
    \E x \in Unidades \ {u} :
        /\ placas[x] # NoHay
        /\ normalizeLicensePlate(placas[x]) = normalizeLicensePlate(patente)

\* The plate is in a request that looked for it and has not written it.
EnCamino(patente) ==
    \E o \in Ventas :
        /\ ~ SinBloqueo(o)
        /\ normalizeLicensePlate(enTramite[o].patente) = normalizeLicensePlate(patente)

\* History: the plate was at risk of going to two units.
Anota(patente, riesgo) ==
    carreras' = IF riesgo THEN carreras \cup {normalizeLicensePlate(patente)}
                ELSE carreras

\* The plate arrived: its unit, and the collection that may come with it.
registerLicensePlate(o, patente, cobro) ==
    /\ normalizeLicensePlate(patente) # ""
    /\ SinBloqueo(o) /\ isOverdueEligibleState(o)
    /\ ventas[o].modalidad # NoHay /\ ventas[o].unidad # NoHay
    /\ cobro # NoHay => ventas[o].modalidad = "PAGA_CLIENTE"
    /\ ~ Duplicada(ventas[o].unidad, patente)
    /\ enTramite' = [enTramite EXCEPT ![o] = [patente |-> patente, cobro |-> cobro]]
    /\ Anota(patente, EnCamino(patente))
    /\ UNCHANGED <<ventas, placas, hoy, ingresos, movimientos>>

RecibePatente(o) ==
    /\ ~ SinBloqueo(o)
    /\ LET r == enTramite[o]
           u == ventas[o].unidad
       IN  /\ placas' = [placas EXCEPT ![u] = r.patente]
           /\ ventas' = [ventas EXCEPT ![o].recibida = TRUE]
           /\ IF r.cobro = NoHay \/ YaCobrado(o, r.cobro.clave)
              THEN UNCHANGED recibosVars
              ELSE Cobra(DePatente(o), r.cobro.importe, r.cobro.clave)
    /\ enTramite' = [enTramite EXCEPT ![o] = NoHay]
    /\ UNCHANGED <<carreras, hoy>>

\* An error, or a key that was used: nothing stays.
DeshacerPatente(o) ==
    /\ ~ SinBloqueo(o)
    /\ enTramite' = [enTramite EXCEPT ![o] = NoHay]
    /\ UNCHANGED <<ventas, placas, carreras, hoy, ingresos, movimientos>>

-------------------------------------------------------------------------------
(* Stock *)

\* Stock corrects the plate of a unit, or takes it away: nobody looks for it.
updateUnit(u, patente) ==
    /\ placas' = [placas EXCEPT ![u] = patente]
    /\ Anota(patente, patente # NoHay /\ (Duplicada(u, patente) \/ EnCamino(patente)))
    /\ UNCHANGED <<ventas, enTramite, hoy, ingresos, movimientos>>

\* A new unit comes with its plate, which the table refuses if it is blank.
createUnit(u, patente) ==
    /\ \A o \in Ventas : ventas[o].unidad # u
    /\ placas[u] = NoHay /\ patente.escrita # ""
    /\ updateUnit(u, patente)

-------------------------------------------------------------------------------
(* Properties *)

PatentesOK ==
    /\ \A o \in Ventas :
          /\ ventas[o].estado \in OVERDUE_ELIGIBLE_STATES \cup
                {"BORRADOR", "RECHAZADA", "CANCELADA"}
          /\ ventas[o].modalidad \in {NoHay, "BONIFICADA", "PAGA_CLIENTE"}
          /\ ventas[o].importe # NoHay => ventas[o].modalidad = "PAGA_CLIENTE"
          /\ ~ SinBloqueo(o) => ventas[o].unidad # NoHay
    /\ hoy \in 0..MaxDia

\* All the sale has of a plate is a blank that stock wrote.
EnBlanco(o) ==
    ~ ventas[o].recibida /\ Placa(o) # NoHay /\ Placa(o).escrita = ""

\* The alert and the row say the same of a sale: it is among the collections
\* pending if and only if its plate is shown as received and not paid
\* (sales.service.ts:3015), and among the overdue ones if and only if it is
\* shown as overdue; but for a blank plate, that only the alerts take as received.
AvisosComoSeMuestra ==
    \A o \in Ventas : (isOverdueEligibleState(o) /\ ~ EnBlanco(o)) =>
        /\ o \in licensingCollectionPendingIds
              <=> licensingPlateStatus(o) = "RECIBIDA_COBRO_PENDIENTE"
        /\ o \in licensingOverdueWhere
              <=> licensingPlateStatus(o) = "EN_TRAMITE_VENCIDA"

\* The arrival of a plate never gives it to a second unit, however it is written
\* and whatever sales the units go through, but when another request brought it
\* at once: if two units carry one plate, two arrivals overlapped, or stock wrote
\* it while another unit had it or was getting it.
PatenteUnica ==
    \A u, x \in Unidades :
        (u # x /\ placas[u] # NoHay /\ placas[x] # NoHay
            /\ normalizeLicensePlate(placas[u]) = normalizeLicensePlate(placas[x]))
        => normalizeLicensePlate(placas[u]) \in carreras

\* The arrivals tell plates apart and their alerts are right.
PatenteAlDia == AvisosComoSeMuestra /\ PatenteUnica
===============================================================================
