------------------------------ MODULE SalesStock ------------------------------
(***************************************************************************)
(* The stock side of a sale: sales operations, the physical units they    *)
(* hold, the reservations that tie both, the orders placed with suppliers *)
(* and the quantities suppliers report (src/src/sales/sales.service.ts,    *)
(* supply/supply.service.ts, inventory/inventory.service.ts and            *)
(* suppliers/suppliers.service.ts).                                        *)
(*                                                                         *)
(* Every handler is one database transaction that first locks the          *)
(* operation, unit or request it works on and then re-reads it, so here a  *)
(* handler is one atomic action.  A handler that answers 4xx or whose      *)
(* transaction a trigger aborts leaves every table as it was: such a call  *)
(* is an action that is not enabled.                                       *)
(*                                                                         *)
(* Prices, approvals and payment plans are not part of this module: where  *)
(* a handler branches on them (submit, close) both outcomes are allowed.   *)
(***************************************************************************)
EXTENDS Integers, FiniteSets

CONSTANTS
    Operaciones,       \* ids of operaciones
    Unidades,          \* ids of unidades_vehiculos
    Disponibilidades,  \* ids of disponibilidad_proveedor
    Solicitudes,       \* ids of solicitudes_abastecimiento
    Sucursales,
    Versiones,         \* a catalogue version together with its condition
    Motos,             \* the versions whose model is a MOTO, the others are AUTO
    Usadas,            \* the versions offered as USADO
    VersionDe,         \* the version each supplier availability is about
    Usuarios,          \* clients that hold a rowVersion read earlier
    MaxCantidad,       \* bound on the quantity a supplier reports
    Ninguna            \* SQL NULL in a reference

ASSUME MotosUsadasSonVersiones == Motos \subseteq Versiones /\ Usadas \subseteq Versiones

ASSUME VersionDeDisponibilidad == VersionDe \in [Disponibilidades -> Versiones]

ASSUME HayDondeVender == Sucursales # {} /\ Versiones # {}

ASSUME CantidadNatural == MaxCantidad \in Nat

ASSUME DestinosDisjuntos == Unidades \cap Disponibilidades = {}

ASSUME NingunaNoEsFila ==
    /\ Ninguna \notin Unidades
    /\ Ninguna \notin Disponibilidades
    /\ Ninguna \notin Operaciones

VARIABLES
    operacion,        \* [Operaciones -> Fila]
    unidad,           \* [Unidades -> state, branch and version]
    reservas,         \* the ACTIVO rows of reservas_stock
    solicitud,        \* [Solicitudes -> supplier order]
    disponibilidad,   \* [Disponibilidades -> reported quantity, still valid]
    alDia             \* [Operaciones -> users whose rowVersion is the row's]

vars == <<operacion, unidad, reservas, solicitud, disponibilidad, alDia>>

-------------------------------------------------------------------------------
(* Types *)

\* luma_estado_operacion, and "NUEVA" for an id no row has yet.
EstadoOperacion ==
    {"NUEVA", "BORRADOR", "PENDIENTE_APROBACION", "APROBADA", "RECHAZADA",
     "CANCELADA", "CERRADA"}

\* luma_estado_inventario without the states no handler writes.
EstadoInventario ==
    {"INEXISTENTE", "EN_STOCK", "RESERVADO", "EN_ACONDICIONAMIENTO",
     "BLOQUEADO", "VENDIDO"}

manuallyManagedStatuses == {"EN_STOCK", "EN_ACONDICIONAMIENTO", "BLOQUEADO"}

EnCursoEstados ==
    {"PENDIENTE_APROBACION", "PENDIENTE_CONFIRMACION", "CONFIRMADO", "PEDIDO",
     "EN_TRANSITO"}

EstadoSolicitud ==
    EnCursoEstados \cup {"INEXISTENTE", "RECIBIDO", "ASIGNADO", "CANCELADA"}

Fila ==
    [estado : EstadoOperacion, sucursal : Sucursales, version : Versiones,
     unidad : Unidades \cup {Ninguna}, entregada : BOOLEAN]

Unidad ==
    [estado : EstadoInventario, sucursal : Sucursales, version : Versiones]

Reserva ==
    [op : Operaciones, destino : Unidades \cup Disponibilidades,
     vigente : BOOLEAN]

Solicitud ==
    [estado : EstadoSolicitud, op : Operaciones \cup {Ninguna},
     disp : Disponibilidades \cup {Ninguna}, sucursal : Sucursales,
     version : Versiones, recibida : Unidades \cup {Ninguna}]

Disponibilidad == [cantidad : 0..MaxCantidad, vigente : BOOLEAN]

\* Every row has the shape its table declares.
TypeOK ==
    /\ operacion \in [Operaciones -> Fila]
    /\ unidad \in [Unidades -> Unidad]
    /\ reservas \subseteq Reserva
    /\ solicitud \in [Solicitudes -> Solicitud]
    /\ disponibilidad \in [Disponibilidades -> Disponibilidad]
    /\ alDia \in [Operaciones -> SUBSET Usuarios]

-------------------------------------------------------------------------------
(* Reading the tables *)

Existe(o) == operacion[o].estado # "NUEVA"

EsMoto(o) == operacion[o].version \in Motos

\* Mutant of Activas: reservations of a supplier's stock are not looked at.
Activas_soloFisicas(o) == {r \in reservas : r.op = o /\ r.destino \in Unidades}

Activas(o) == {r \in reservas : r.op = o}

Fisica(r) == r.destino \in Unidades

SobreDestino(d) == {r \in reservas : r.destino = d}

\* activeReservation orders by creado_en and takes the newest row.  A supplier
\* reservation is only written while its operation is being created, so a
\* reservation of a physical unit is newer than one.
MasReciente(r) == Fisica(r) \/ \A q \in Activas(r.op) : ~Fisica(q)

Pedidos(o) == {k \in Solicitudes : solicitud[k].op = o}

supplyInProgress(o) ==
    \E k \in Pedidos(o) : solicitud[k].estado \in EnCursoEstados

\* Mutant of FilaValida: a delivered operation may have no unit.
FilaValida_sinUnidad(fila) ==
    fila.entregada => fila.estado \in {"APROBADA", "CERRADA"}

\* luma_validar_operacion_invariantes, the deferred trigger every write of an
\* operation goes through: a delivered operation has a unit and is approved.
\* (Its price and payment-plan clauses are about columns left out here.)
FilaValida(fila) ==
    fila.entregada =>
        fila.unidad # Ninguna /\ fila.estado \in {"APROBADA", "CERRADA"}

-------------------------------------------------------------------------------
(* Writing the tables *)

\* Writes the rows of "escritas".  Each write increments version_fila, so no
\* rowVersion read before is the row's any more.
GuardarFilas(filas, escritas) ==
    /\ \A p \in escritas : FilaValida(filas[p])
    /\ operacion' = filas
    /\ alDia' = [p \in Operaciones |-> IF p \in escritas THEN {} ELSE alDia[p]]

Guardar(o, fila) == GuardarFilas([operacion EXCEPT ![o] = fila], {o})

\* assertVersion: the request carries the rowVersion of the row as it is now.
assertVersion(o) == alDia[o] # {}

\* The reservations expireReservation may take a unit away from.
Vencida(r) == ~r.vigente /\ operacion[r.op].unidad = r.destino

\* Mutant of UnidadTomable: a unit already sold is taken like one in stock.
UnidadTomable_vendida(u) ==
    \/ SobreDestino(u) = {} /\ unidad[u].estado \in {"EN_STOCK", "VENDIDO"}
    \/ /\ SobreDestino(u) # {}
       /\ \A r \in SobreDestino(u) : Vencida(r)
       /\ unidad[u].estado = "RESERVADO"

\* Mutant of UnidadTomable: a reservation is taken over before it expires.
UnidadTomable_enPlazo(u) ==
    \/ SobreDestino(u) = {} /\ unidad[u].estado = "EN_STOCK"
    \/ SobreDestino(u) # {} /\ unidad[u].estado = "RESERVADO"

\* What reserveUnit asks of the unit: in stock, or held by an expired
\* reservation whose operation still points at it.
UnidadTomable(u) ==
    \/ SobreDestino(u) = {} /\ unidad[u].estado = "EN_STOCK"
    \/ /\ SobreDestino(u) # {}
       /\ \A r \in SobreDestino(u) : Vencida(r)
       /\ unidad[u].estado = "RESERVADO"

Desplazadas(u) == {r.op : r \in SobreDestino(u)}

\* Mutant of FilasAlReservar: the displaced operation keeps the unit.
FilasAlReservar_sinDesplazar(o, u, fila) ==
    [operacion EXCEPT ![o] = [fila EXCEPT !.unidad = u]]

\* The operations after "fila" takes unit u: expireReservation detaches the
\* unit from the operation whose reservation had expired.
FilasAlReservar(o, u, fila) ==
    [p \in Operaciones |->
        IF p = o THEN [fila EXCEPT !.unidad = u]
        ELSE IF p \in Desplazadas(u) THEN [operacion[p] EXCEPT !.unidad = Ninguna]
        ELSE operacion[p]]

\* Mutant of FilasVersionadas: only the buyer's row counts as written.
FilasVersionadas_soloCompradora(o, u) == {o}

\* The rows whose version_fila grows: the buyer's and the displaced one's.
FilasVersionadas(o, u) == {o} \cup Desplazadas(u)

\* reserveUnit, followed by the caller's own write of the operation.  "libera"
\* are the reservations of o the caller has already given up.
reserveUnit(o, u, fila, libera) ==
    /\ Activas(o) \subseteq libera
    /\ UnidadTomable(u)
    /\ unidad[u].sucursal = fila.sucursal
    /\ unidad[u].version = fila.version
    /\ reservas' = (reservas \ (libera \cup SobreDestino(u)))
                     \cup {[op |-> o, destino |-> u, vigente |-> TRUE]}
    /\ unidad' = [unidad EXCEPT ![u].estado = "RESERVADO"]
    /\ GuardarFilas(FilasAlReservar(o, u, fila), FilasVersionadas(o, u))

\* releaseActiveReservation: the reserved unit goes back to stock.
releaseActiveReservation(o, r) ==
    /\ operacion[o].unidad # Ninguna
    /\ unidad[operacion[o].unidad].estado = "RESERVADO"
    /\ reservas' = reservas \ {r}
    /\ unidad' = [unidad EXCEPT ![operacion[o].unidad].estado = "EN_STOCK"]

\* Cancels every order of o that has not been received.
SinPedidosEnCurso(o) ==
    [k \in Solicitudes |->
        IF k \in Pedidos(o) /\ solicitud[k].estado \in EnCursoEstados
        THEN [solicitud[k] EXCEPT !.estado = "CANCELADA"]
        ELSE solicitud[k]]

\* Mutant of PedidosAprobados: approval forgets the orders.
PedidosAprobados_olvidados(o) == solicitud

\* An approved operation sets its orders going.
PedidosAprobados(o) ==
    [k \in Solicitudes |->
        IF k \in Pedidos(o) /\ solicitud[k].estado = "PENDIENTE_APROBACION"
        THEN [solicitud[k] EXCEPT !.estado = "PENDIENTE_CONFIRMACION"]
        ELSE solicitud[k]]

\* Gives up the newest active reservation of o, if there is one.
SoltarReserva(o) ==
    \/ Activas(o) = {} /\ UNCHANGED <<reservas, unidad>>
    \/ \E r \in Activas(o) :
          /\ MasReciente(r)
          /\ \/ Fisica(r) /\ releaseActiveReservation(o, r)
             \/ ~Fisica(r) /\ reservas' = reservas \ {r} /\ UNCHANGED unidad

\* assertUsableReservation: the unit of o is reserved for o and on time.
assertUsableReservation(o) ==
    /\ operacion[o].unidad # Ninguna
    /\ \E r \in Activas(o) :
          /\ MasReciente(r)
          /\ r.destino = operacion[o].unidad
          /\ r.vigente
    /\ unidad[operacion[o].unidad].estado = "RESERVADO"

\* assertFulfillableOperation.  Which of the orders of a car is looked at is
\* not determined by the query.
assertFulfillableOperation(o) ==
    IF operacion[o].unidad # Ninguna THEN assertUsableReservation(o)
    ELSE \/ EsMoto(o)
         \/ \E k \in Pedidos(o) :
               /\ solicitud[k].estado # "CANCELADA"
               /\ \/ solicitud[k].disp = Ninguna
                  \/ \E r \in Activas(o) : /\ MasReciente(r)
                                           /\ r.destino = solicitud[k].disp
                                           /\ r.vigente

\* materializeProviderReservation: u is the unit received for the supplier
\* reservation of o, which is consumed; the order becomes ASIGNADO.
materializeProviderReservation(o, u, r, k) ==
    /\ Activas(o) = {r} /\ ~Fisica(r)
    /\ solicitud[k].op = o
    /\ solicitud[k].disp = r.destino
    /\ solicitud[k].recibida = u
    /\ solicitud[k].estado = "RECIBIDO"
    /\ solicitud' = [solicitud EXCEPT ![k].estado = "ASIGNADO"]

-------------------------------------------------------------------------------
(* Sales operations *)

Nueva(o, s, v, e) ==
    [operacion[o] EXCEPT !.estado = e, !.sucursal = s, !.version = v]

\* The outcomes of create: saved as a draft, or submitted at once.  Whatever
\* the source of the unit, a new operation satisfies what submit asks.
EstadosAlCrear == {"BORRADOR", "PENDIENTE_APROBACION", "APROBADA"}

CreateWithoutUnit(o, s, v, e) ==
    /\ ~Existe(o)
    /\ v \in Motos \ Usadas
    /\ Guardar(o, Nueva(o, s, v, e))
    /\ UNCHANGED <<unidad, reservas, solicitud, disponibilidad>>

CreateWithUnit(o, s, v, e, u) ==
    /\ ~Existe(o)
    /\ reserveUnit(o, u, Nueva(o, s, v, e), {})
    /\ UNCHANGED <<solicitud, disponibilidad>>

\* Mutant of HayCapacidad: off by one.
HayCapacidad_unoMas(a) == Cardinality(SobreDestino(a)) <= disponibilidad[a].cantidad

\* Room for one more active reservation on what the supplier reported.  The
\* trigger luma_validar_reserva_capacidad counts every ACTIVO row; the count of
\* the service, which leaves the expired ones out, is weaker.
HayCapacidad(a) == Cardinality(SobreDestino(a)) < disponibilidad[a].cantidad

CreateWithAvailability(o, s, v, e, a, k) ==
    /\ ~Existe(o)
    /\ solicitud[k].estado = "INEXISTENTE"
    /\ ~(v \in Motos /\ v \in Usadas)
    /\ VersionDe[a] = v
    /\ disponibilidad[a].vigente
    /\ HayCapacidad(a)
    /\ Guardar(o, Nueva(o, s, v, e))
    /\ reservas' = reservas \cup {[op |-> o, destino |-> a, vigente |-> TRUE]}
    /\ solicitud' = [solicitud EXCEPT ![k] =
          [estado |-> IF e = "APROBADA" THEN "PENDIENTE_CONFIRMACION"
                                        ELSE "PENDIENTE_APROBACION",
           op |-> o, disp |-> a, sucursal |-> s, version |-> v,
           recibida |-> Ninguna]]
    /\ UNCHANGED <<unidad, disponibilidad>>

Create(o) ==
    \E s \in Sucursales, v \in Versiones, e \in EstadosAlCrear :
        \/ CreateWithoutUnit(o, s, v, e)
        \/ \E u \in Unidades : CreateWithUnit(o, s, v, e, u)
        \/ \E a \in Disponibilidades, k \in Solicitudes :
              CreateWithAvailability(o, s, v, e, a, k)

Editable(o) == operacion[o].estado \in {"BORRADOR", "RECHAZADA"}

\* update drops a unit the operation points at without an active reservation.
UnidadTrasEditar(o) ==
    IF Activas(o) = {} THEN Ninguna ELSE operacion[o].unidad

\* Mutant of UpdateDraft: the branch changes under an active reservation.
UpdateDraft_conReserva(o, s) ==
    /\ Editable(o)
    /\ assertVersion(o)
    /\ s # operacion[o].sucursal => ~supplyInProgress(o)
    /\ Guardar(o, [operacion[o] EXCEPT !.estado = "BORRADOR", !.sucursal = s,
                                       !.unidad = UnidadTrasEditar(o)])
    /\ UNCHANGED <<unidad, reservas, solicitud, disponibilidad>>

UpdateDraft(o, s) ==
    /\ Editable(o)
    /\ assertVersion(o)
    /\ s # operacion[o].sucursal => Activas(o) = {} /\ ~supplyInProgress(o)
    /\ Guardar(o, [operacion[o] EXCEPT !.estado = "BORRADOR", !.sucursal = s,
                                       !.unidad = UnidadTrasEditar(o)])
    /\ UNCHANGED <<unidad, reservas, solicitud, disponibilidad>>

UpdateDelivery(o, entregada) ==
    /\ operacion[o].estado = "APROBADA"
    /\ assertVersion(o)
    /\ Guardar(o, [operacion[o] EXCEPT !.entregada = entregada,
                                       !.unidad = UnidadTrasEditar(o)])
    /\ UNCHANGED <<unidad, reservas, solicitud, disponibilidad>>

\* createTradeIn and replacePaymentPlan: a rejected operation is a draft again.
EditPaymentSide(o) ==
    /\ Editable(o) \/ operacion[o].estado = "APROBADA"
    /\ assertVersion(o)
    /\ Guardar(o, IF Editable(o) THEN [operacion[o] EXCEPT !.estado = "BORRADOR"]
                                 ELSE operacion[o])
    /\ UNCHANGED <<unidad, reservas, solicitud, disponibilidad>>

updateLicensing(o) ==
    /\ Existe(o) /\ operacion[o].estado # "CANCELADA"
    /\ assertVersion(o)
    /\ Guardar(o, operacion[o])
    /\ UNCHANGED <<unidad, reservas, solicitud, disponibilidad>>

\* correctedVersion: the model may change only while nothing of the old one is
\* tied to the operation.
VersionCorregible(o, v) ==
    /\ v \in Motos <=> EsMoto(o)
    /\ v \in Usadas <=> operacion[o].version \in Usadas
    /\ IF operacion[o].unidad # Ninguna
       THEN unidad[operacion[o].unidad].version = v
       ELSE Activas(o) = {}
    /\ ~supplyInProgress(o)

\* correct works in every state and keeps the state.
correct(o, v, entregada) ==
    /\ Existe(o)
    /\ assertVersion(o)
    /\ v # operacion[o].version => VersionCorregible(o, v)
    /\ Guardar(o, [operacion[o] EXCEPT !.version = v, !.entregada = entregada])
    /\ UNCHANGED <<unidad, reservas, solicitud, disponibilidad>>

assertAssignable(o) ==
    /\ EsMoto(o)
    /\ operacion[o].estado \in {"BORRADOR", "PENDIENTE_APROBACION", "APROBADA"}
    /\ operacion[o].unidad = Ninguna
    /\ ~supplyInProgress(o)

\* A unit ordered for o that arrived without being assigned.
RecibidaPara(o, u) ==
    \E k \in Pedidos(o) :
        solicitud[k].estado = "RECIBIDO" /\ solicitud[k].recibida = u

\* assignUnit.  A supplier reservation of o is consumed when u is the unit it
\* brought and released when it is not.
assignUnit(o, u) ==
    /\ assertAssignable(o)
    /\ assertVersion(o)
    /\ \/ Activas(o) = {} /\ UNCHANGED solicitud
       \/ /\ \E r \in Activas(o) : Activas(o) = {r} /\ ~Fisica(r)
          /\ ~RecibidaPara(o, u)
          /\ UNCHANGED solicitud
       \/ \E r \in reservas, k \in Solicitudes :
             materializeProviderReservation(o, u, r, k)
    /\ reserveUnit(o, u, operacion[o], Activas(o))
    /\ UNCHANGED disponibilidad

requestSupply(o, k) ==
    /\ assertAssignable(o)
    /\ assertVersion(o)
    /\ solicitud[k].estado = "INEXISTENTE"
    /\ reservas' = reservas \ {r \in Activas(o) : ~Fisica(r) /\ MasReciente(r)}
    /\ solicitud' = [solicitud EXCEPT ![k] =
          [estado |-> "PEDIDO", op |-> o, disp |-> Ninguna,
           sucursal |-> operacion[o].sucursal, version |-> operacion[o].version,
           recibida |-> Ninguna]]
    /\ Guardar(o, operacion[o])
    /\ UNCHANGED <<unidad, disponibilidad>>

Reserve(o, u) ==
    /\ Editable(o) \/ operacion[o].estado = "APROBADA"
    /\ assertVersion(o)
    /\ \/ Activas(o) = {} /\ UNCHANGED solicitud
       \/ \E r \in reservas, k \in Solicitudes :
             materializeProviderReservation(o, u, r, k)
    /\ reserveUnit(o, u, IF Editable(o)
                         THEN [operacion[o] EXCEPT !.estado = "BORRADOR"]
                         ELSE operacion[o],
                   Activas(o))
    /\ UNCHANGED disponibilidad

\* releaseReservation; giving up a supplier reservation cancels the orders too.
ReleaseReservation(o) ==
    /\ Editable(o) \/ operacion[o].estado = "APROBADA"
    /\ assertVersion(o)
    /\ Activas(o) # {}
    /\ SoltarReserva(o)
    /\ solicitud' = IF \E r \in Activas(o) : Fisica(r)
                    THEN solicitud ELSE SinPedidosEnCurso(o)
    /\ Guardar(o, [operacion[o] EXCEPT !.unidad = Ninguna])
    /\ UNCHANGED disponibilidad

\* submit: at list price the operation is approved at once, below it somebody
\* has to approve it.
Submit(o, e) ==
    /\ operacion[o].estado = "BORRADOR"
    /\ assertVersion(o)
    /\ assertFulfillableOperation(o)
    /\ Guardar(o, [operacion[o] EXCEPT !.estado = e])
    /\ solicitud' = IF e = "APROBADA" THEN PedidosAprobados(o) ELSE solicitud
    /\ UNCHANGED <<unidad, reservas, disponibilidad>>

Approve(o) ==
    /\ operacion[o].estado = "PENDIENTE_APROBACION"
    /\ assertVersion(o)
    /\ assertFulfillableOperation(o)
    /\ Guardar(o, [operacion[o] EXCEPT !.estado = "APROBADA"])
    /\ solicitud' = PedidosAprobados(o)
    /\ UNCHANGED <<unidad, reservas, disponibilidad>>

\* Rejecting and cancelling give up the newest reservation, every order that
\* has not arrived and the unit.
Abandonar(o, e) ==
    /\ assertVersion(o)
    /\ SoltarReserva(o)
    /\ solicitud' = SinPedidosEnCurso(o)
    /\ Guardar(o, [operacion[o] EXCEPT !.estado = e, !.unidad = Ninguna])
    /\ UNCHANGED disponibilidad

Reject(o) ==
    /\ operacion[o].estado = "PENDIENTE_APROBACION"
    /\ Abandonar(o, "RECHAZADA")

\* Mutant of Cancel: a closed operation can be cancelled too.
Cancel_cerrada(o) ==
    /\ operacion[o].estado \notin {"NUEVA", "CANCELADA"}
    /\ Abandonar(o, "CANCELADA")

Cancel(o) ==
    /\ operacion[o].estado \in
          {"BORRADOR", "PENDIENTE_APROBACION", "APROBADA", "RECHAZADA"}
    /\ Abandonar(o, "CANCELADA")

\* close: the reservation is consumed and the unit is sold.
Close(o) ==
    /\ operacion[o].estado = "APROBADA"
    /\ assertVersion(o)
    /\ assertUsableReservation(o)
    /\ reservas' = {r \in reservas :
                       ~(r.op = o /\ r.destino = operacion[o].unidad)}
    /\ unidad' = [unidad EXCEPT ![operacion[o].unidad].estado = "VENDIDO"]
    /\ Guardar(o, [operacion[o] EXCEPT !.estado = "CERRADA"])
    /\ UNCHANGED <<solicitud, disponibilidad>>

-------------------------------------------------------------------------------
(* Supplier orders *)

\* create of supply.service: the operation, when given, only has to exist.
CreateSupply(k, o, a, s, v) ==
    /\ solicitud[k].estado = "INEXISTENTE"
    /\ o # Ninguna => Existe(o)
    /\ a = Ninguna => v \in Motos
    /\ a # Ninguna => /\ VersionDe[a] = v
                      /\ disponibilidad[a].cantidad > 0
                      /\ disponibilidad[a].vigente
    /\ solicitud' = [solicitud EXCEPT ![k] =
          [estado |-> "PENDIENTE_CONFIRMACION", op |-> o, disp |-> a,
           sucursal |-> s, version |-> v, recibida |-> Ninguna]]
    /\ UNCHANGED <<operacion, unidad, reservas, disponibilidad, alDia>>

\* The table "forward": an order moves one step at a time.
forward ==
    {<<"PENDIENTE_APROBACION", "PENDIENTE_CONFIRMACION">>,
     <<"PENDIENTE_CONFIRMACION", "CONFIRMADO">>,
     <<"CONFIRMADO", "PEDIDO">>,
     <<"PEDIDO", "EN_TRANSITO">>}

Transition(k, e) ==
    /\ \/ <<solicitud[k].estado, e>> \in forward
       \/ e = "CANCELADA" /\ solicitud[k].estado \in EnCursoEstados
    /\ solicitud' = [solicitud EXCEPT ![k].estado = e]
    /\ UNCHANGED <<operacion, unidad, reservas, disponibilidad, alDia>>

\* Mutant of Recibible: a received order can be received again.
Recibible_otraVez(k) ==
    solicitud[k].estado \in {"PEDIDO", "EN_TRANSITO", "RECIBIDO", "ASIGNADO"}

\* An order can be received once; repeating the call changes nothing.
Recibible(k) ==
    /\ solicitud[k].recibida = Ninguna
    /\ solicitud[k].estado \in {"PEDIDO", "EN_TRANSITO"}

\* Mutant of DescontarDisponibilidad: the quantity goes below zero.
DescontarDisponibilidad_sinMinimo(a, quedan) ==
    IF a = Ninguna THEN UNCHANGED disponibilidad
    ELSE disponibilidad' = [disponibilidad EXCEPT ![a].cantidad = @ - 1]

\* The quantity left once the unit arrived, and the trigger
\* luma_proteger_cantidad_disponibilidad_proveedor on that update: it may not
\* fall below the active reservations that remain.
DescontarDisponibilidad(a, quedan) ==
    IF a = Ninguna THEN UNCHANGED disponibilidad
    ELSE /\ disponibilidad[a].cantidad > 0
         /\ Cardinality({r \in quedan : r.destino = a})
               <= disponibilidad[a].cantidad - 1
         /\ disponibilidad' = [disponibilidad EXCEPT ![a].cantidad = @ - 1]

UnidadRecibida(k, estado) ==
    [estado |-> estado, sucursal |-> solicitud[k].sucursal,
     version |-> solicitud[k].version]

\* receive of an order nobody sold yet.
ReceiveForStock(k, u) ==
    /\ Recibible(k)
    /\ solicitud[k].op = Ninguna
    /\ unidad[u].estado = "INEXISTENTE"
    /\ DescontarDisponibilidad(solicitud[k].disp, reservas)
    /\ unidad' = [unidad EXCEPT ![u] = UnidadRecibida(k, "EN_STOCK")]
    /\ solicitud' = [solicitud EXCEPT ![k] =
                        [@ EXCEPT !.estado = "RECIBIDO", !.recibida = u]]
    /\ UNCHANGED <<operacion, reservas, alDia>>

\* The linked operation can still take the unit that arrives.
PuedeRecibir(o, k) ==
    /\ operacion[o].version = solicitud[k].version
    /\ operacion[o].sucursal = solicitud[k].sucursal
    /\ operacion[o].estado \in {"BORRADOR", "PENDIENTE_APROBACION", "APROBADA"}
    /\ operacion[o].unidad = Ninguna

\* The reservations left once order k of o is received.
ReservasTrasRecibir(k, o) ==
    {r \in reservas : ~(r.op = o /\ r.destino = solicitud[k].disp)}

\* receive of an order placed for a sale: the supplier reservation behind it
\* is consumed and the new unit is reserved for the operation.  The 30 days
\* run from receivedAt, which the request may set in the past.
ReceiveForOperation(k, o, u, vigente) ==
    /\ Recibible(k)
    /\ solicitud[k].op = o
    /\ PuedeRecibir(o, k)
    /\ unidad[u].estado = "INEXISTENTE"
    /\ DescontarDisponibilidad(solicitud[k].disp, ReservasTrasRecibir(k, o))
    /\ reservas' = ReservasTrasRecibir(k, o) \cup
                       {[op |-> o, destino |-> u, vigente |-> vigente]}
    /\ unidad' = [unidad EXCEPT ![u] = UnidadRecibida(k, "RESERVADO")]
    /\ solicitud' = [solicitud EXCEPT ![k] =
                        [@ EXCEPT !.estado = "ASIGNADO", !.recibida = u]]
    /\ Guardar(o, [operacion[o] EXCEPT !.unidad = u])

-------------------------------------------------------------------------------
(* Inventory and supplier availability *)

CreateUnit(u, s, v) ==
    /\ unidad[u].estado = "INEXISTENTE"
    /\ unidad' = [unidad EXCEPT ![u] =
          [estado |-> "EN_STOCK", sucursal |-> s, version |-> v]]
    /\ UNCHANGED <<operacion, reservas, solicitud, disponibilidad, alDia>>

UpdateUnitStatus(u, e) ==
    /\ unidad[u].estado \in manuallyManagedStatuses
    /\ e \in manuallyManagedStatuses
    /\ unidad' = [unidad EXCEPT ![u].estado = e]
    /\ UNCHANGED <<operacion, reservas, solicitud, disponibilidad, alDia>>

Transfer(u, s) ==
    /\ unidad[u].estado = "EN_STOCK"
    /\ unidad[u].sucursal # s
    /\ unidad' = [unidad EXCEPT ![u].sucursal = s]
    /\ UNCHANGED <<operacion, reservas, solicitud, disponibilidad, alDia>>

\* upsertAvailability, under the same trigger on the quantity.
UpsertAvailability(a, n, vigente) ==
    /\ n # disponibilidad[a].cantidad => Cardinality(SobreDestino(a)) <= n
    /\ disponibilidad' = [disponibilidad EXCEPT ![a] =
                             [cantidad |-> n, vigente |-> vigente]]
    /\ UNCHANGED <<operacion, unidad, reservas, solicitud, alDia>>

-------------------------------------------------------------------------------
(* The rest of the world *)

\* A client reads the operation, and with it its rowVersion.
ReadOperation(c, o) ==
    /\ Existe(o)
    /\ alDia' = [alDia EXCEPT ![o] = @ \cup {c}]
    /\ UNCHANGED <<operacion, unidad, reservas, solicitud, disponibilidad>>

\* The vence_en of a reservation goes by: nothing is written, the row stays
\* ACTIVO.
ReservationExpires(r) ==
    /\ r.vigente
    /\ reservas' = (reservas \ {r}) \cup {[r EXCEPT !.vigente = FALSE]}
    /\ UNCHANGED <<operacion, unidad, solicitud, disponibilidad, alDia>>

AvailabilityExpires(a) ==
    /\ disponibilidad[a].vigente
    /\ disponibilidad' = [disponibilidad EXCEPT ![a].vigente = FALSE]
    /\ UNCHANGED <<operacion, unidad, reservas, solicitud, alDia>>

-------------------------------------------------------------------------------

\* The fields of a row that does not exist yet mean nothing.
UnaSucursal == CHOOSE s \in Sucursales : TRUE
UnaVersion == CHOOSE v \in Versiones : TRUE

OperacionNueva ==
    [estado |-> "NUEVA", sucursal |-> UnaSucursal, version |-> UnaVersion,
     unidad |-> Ninguna, entregada |-> FALSE]

UnidadInexistente ==
    [estado |-> "INEXISTENTE", sucursal |-> UnaSucursal, version |-> UnaVersion]

SolicitudInexistente ==
    [estado |-> "INEXISTENTE", op |-> Ninguna, disp |-> Ninguna,
     sucursal |-> UnaSucursal, version |-> UnaVersion, recibida |-> Ninguna]

\* An empty organization.
InitVacio ==
    /\ operacion = [o \in Operaciones |-> OperacionNueva]
    /\ unidad = [u \in Unidades |-> UnidadInexistente]
    /\ reservas = {}
    /\ solicitud = [k \in Solicitudes |-> SolicitudInexistente]
    /\ disponibilidad = [a \in Disponibilidades |->
                            [cantidad |-> 0, vigente |-> TRUE]]
    /\ alDia = [o \in Operaciones |-> {}]

\* A sale of the previous flow, in which the reception left the unit in stock
\* and the operation with its supplier reservation.
InitFlujoAnterior ==
    /\ \E o \in Operaciones, u \in Unidades, a \in Disponibilidades,
          k \in Solicitudes, s \in Sucursales, vigente \in BOOLEAN,
          e \in {"BORRADOR", "APROBADA"} :
          /\ MaxCantidad > 0
          /\ operacion = [p \in Operaciones |->
                IF p = o THEN [estado |-> e, sucursal |-> s,
                               version |-> VersionDe[a],
                               unidad |-> Ninguna, entregada |-> FALSE]
                         ELSE OperacionNueva]
          /\ unidad = [w \in Unidades |->
                IF w = u THEN [estado |-> "EN_STOCK", sucursal |-> s,
                               version |-> VersionDe[a]]
                         ELSE UnidadInexistente]
          /\ reservas = {[op |-> o, destino |-> a, vigente |-> vigente]}
          /\ solicitud = [j \in Solicitudes |->
                IF j = k THEN [estado |-> "RECIBIDO", op |-> o, disp |-> a,
                               sucursal |-> s, version |-> VersionDe[a],
                               recibida |-> u]
                         ELSE SolicitudInexistente]
          /\ disponibilidad = [b \in Disponibilidades |->
                [cantidad |-> IF b = a THEN 1 ELSE 0, vigente |-> TRUE]]
    /\ alDia = [o \in Operaciones |-> {}]

Init == InitVacio \/ InitFlujoAnterior

\* What the users of the sales endpoints do.
NextVentas ==
    \E o \in Operaciones :
        \/ Create(o)
        \/ \E s \in Sucursales : UpdateDraft(o, s)
        \/ \E b \in BOOLEAN : UpdateDelivery(o, b)
        \/ EditPaymentSide(o)
        \/ updateLicensing(o)
        \/ \E v \in Versiones, b \in BOOLEAN : correct(o, v, b)
        \/ \E u \in Unidades : assignUnit(o, u)
        \/ \E k \in Solicitudes : requestSupply(o, k)
        \/ \E u \in Unidades : Reserve(o, u)
        \/ ReleaseReservation(o)
        \/ \E e \in {"PENDIENTE_APROBACION", "APROBADA"} : Submit(o, e)
        \/ Approve(o)
        \/ Reject(o)
        \/ Cancel(o)
        \/ Close(o)

\* What the users of supply requests, inventory and suppliers do.
NextAbastecimiento ==
    \/ \E k \in Solicitudes :
          \/ \E o \in Operaciones \cup {Ninguna},
                a \in Disponibilidades \cup {Ninguna},
                s \in Sucursales, v \in Versiones : CreateSupply(k, o, a, s, v)
          \/ \E e \in EnCursoEstados \cup {"CANCELADA"} : Transition(k, e)
          \/ \E u \in Unidades : ReceiveForStock(k, u)
          \/ \E o \in Operaciones, u \in Unidades, b \in BOOLEAN :
                ReceiveForOperation(k, o, u, b)
    \/ \E u \in Unidades, s \in Sucursales, v \in Versiones : CreateUnit(u, s, v)
    \/ \E u \in Unidades, e \in manuallyManagedStatuses : UpdateUnitStatus(u, e)
    \/ \E u \in Unidades, s \in Sucursales : Transfer(u, s)
    \/ \E a \in Disponibilidades, n \in 0..MaxCantidad, b \in BOOLEAN :
          UpsertAvailability(a, n, b)

NextEntorno ==
    \/ \E c \in Usuarios, o \in Operaciones : ReadOperation(c, o)
    \/ \E r \in reservas : ReservationExpires(r)
    \/ \E a \in Disponibilidades : AvailabilityExpires(a)

Next == NextVentas \/ NextAbastecimiento \/ NextEntorno

Spec == Init /\ [][Next]_vars

-------------------------------------------------------------------------------
(* Properties *)

\* The three records of "this unit is held for this sale" agree in every
\* state: the operation's unit, the ACTIVO reservation and the RESERVADO state
\* of the unit, whichever handler wrote them last.
ReservaRespaldada ==
    \A r \in reservas : Fisica(r) =>
        /\ operacion[r.op].unidad = r.destino
        /\ unidad[r.destino].estado = "RESERVADO"

UnidadReservadaConReserva ==
    \A u \in Unidades : unidad[u].estado = "RESERVADO" => SobreDestino(u) # {}

OperacionConReserva ==
    \A o \in Operaciones : operacion[o].unidad # Ninguna =>
        IF operacion[o].estado = "CERRADA"
        THEN unidad[operacion[o].unidad].estado = "VENDIDO"
        ELSE \E r \in Activas(o) : r.destino = operacion[o].unidad

StockConsistente ==
    ReservaRespaldada /\ UnidadReservadaConReserva /\ OperacionConReserva

\* No unit is held by or sold in two operations at once, however often it
\* changes hands through expired reservations, cancellations and receptions.
UnidadDeUnaSolaVenta ==
    \A o, p \in Operaciones :
        operacion[o].unidad = operacion[p].unidad /\ operacion[o].unidad # Ninguna
            => o = p

\* A unit that is sold is the unit of a closed operation, and an operation is
\* closed only with a unit that is sold.
VendidaEnVentaCerrada ==
    /\ \A u \in Unidades : unidad[u].estado = "VENDIDO" =>
          \E o \in Operaciones :
              operacion[o].estado = "CERRADA" /\ operacion[o].unidad = u
    /\ \A o \in Operaciones : operacion[o].estado = "CERRADA" =>
          operacion[o].unidad # Ninguna

\* Transfers, branch changes, model corrections and receptions never leave an
\* operation holding a unit of another branch or of another model.
UnidadDeLaOperacion ==
    \A o \in Operaciones : operacion[o].unidad # Ninguna =>
        /\ unidad[operacion[o].unidad].sucursal = operacion[o].sucursal
        /\ unidad[operacion[o].unidad].version = operacion[o].version

\* Suppliers' stock is never promised twice: the active reservations on a
\* supplier availability never exceed the quantity reported, through new
\* reservations, receptions and reports of the supplier.
CapacidadRespetada ==
    \A a \in Disponibilidades :
        Cardinality(SobreDestino(a)) <= disponibilidad[a].cantidad

\* Once the unit ordered against a supplier availability is in the operation,
\* the reservation on that availability is over: the sale does not hold the
\* unit and the promise of the unit at the same time.
DisponibilidadMaterializada ==
    \A r \in reservas, k \in Solicitudes :
        ~( /\ ~Fisica(r)
           /\ solicitud[k].op = r.op
           /\ solicitud[k].disp = r.destino
           /\ solicitud[k].recibida # Ninguna
           /\ solicitud[k].recibida = operacion[r.op].unidad )

\* Approval never leaves behind an order that still waits for it.
AprobadaSinPedidoBloqueado ==
    \A k \in Solicitudes :
        solicitud[k].estado = "PENDIENTE_APROBACION" =>
            operacion[solicitud[k].op].estado \notin {"APROBADA", "CERRADA"}

\* Any change of an operation's row makes every rowVersion read before stale,
\* also when the row is changed by a request about another operation (the
\* takeover of its expired reservation) or about a supply order.
CambioDesactualiza ==
    [][\A o \in Operaciones : operacion'[o] # operacion[o] => alDia'[o] = {}]_vars

\* The unit a client took home is never swapped: while a sale stays delivered
\* neither a release, a cancellation, a new assignment nor the expiry of its
\* reservation changes its unit.
EntregadaConservaUnidad ==
    [][\A o \in Operaciones :
          operacion[o].entregada /\ operacion'[o].entregada =>
              operacion'[o].unidad = operacion[o].unidad]_vars

\* What an order brought stays what it brought: neither a repeated reception
\* nor a later transition rewrites it, and a sold unit stays sold.
RecepcionDefinitiva ==
    [][/\ \A k \in Solicitudes : solicitud[k].recibida # Ninguna =>
             solicitud'[k].recibida = solicitud[k].recibida
       /\ \A u \in Unidades : unidad[u].estado = "VENDIDO" =>
             unidad'[u] = unidad[u]]_vars

\* The tables seen as leases of units, and the promise they implement: a unit is
\* taken from its holder only when its reservation has expired, sold only
\* under one that has not, and never moved again once sold.
Arriendo ==
    INSTANCE StockLease WITH
        posee <- [o \in Operaciones |-> operacion[o].unidad],
        enPlazo <- {o \in Operaciones :
                      \E r \in reservas : r.op = o /\ Fisica(r) /\ r.vigente},
        vendidas <- {u \in Unidades : unidad[u].estado = "VENDIDO"}

ImplementaArriendo == Arriendo!Spec

-------------------------------------------------------------------------------
(* Statements of docs/api-sales-operations.md the code does not keep *)

\* "Rechazar libera reserva y cancela abastecimiento pendiente": a rejected
\* operation holds no active reservation.
RechazadaSinReserva ==
    \A o \in Operaciones : operacion[o].estado = "RECHAZADA" => Activas(o) = {}

\* "Un pedido vigente por operacion": no operation waits for two orders.
UnPedidoVigentePorOperacion ==
    \A j, k \in Solicitudes :
        /\ solicitud[j].op = solicitud[k].op /\ solicitud[j].op # Ninguna
        /\ solicitud[j].estado \in EnCursoEstados
        /\ solicitud[k].estado \in EnCursoEstados
        => j = k
===============================================================================
