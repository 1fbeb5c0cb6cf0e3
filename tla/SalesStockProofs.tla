--------------------------- MODULE SalesStockProofs ---------------------------
(***************************************************************************)
(* Theorems about SalesStock, for any number of operations, units,        *)
(* availabilities, orders, branches and users.                             *)
(*                                                                         *)
(* The three records of a held unit only agree because of facts the        *)
(* handlers never state: a unit has one reservation, a closed sale keeps   *)
(* its sold unit, an operation out of course has none.  IInv adds them.    *)
(*                                                                         *)
(* The orders and the suppliers' stock need others: an order that waits    *)
(* for an approval belongs to a sale that was saved and is not approved    *)
(* yet, what an order brought is a unit that exists, and the reservations  *)
(* are finitely many.  IInvPedidos adds them.                              *)
(***************************************************************************)
EXTENDS SalesStock, TLAPS, FiniteSetTheorems

-------------------------------------------------------------------------------

\* A unit has one ACTIVO reservation at most (in the database, the index
\* reservas_stock_unidad_activa_unica).
ReservaUnica ==
    \A r, q \in reservas : Fisica(r) /\ r.destino = q.destino => r = q

\* Operations that are not yet saved, rejected or cancelled hold no unit.
FueraDeCursoSinUnidad ==
    \A o \in Operaciones :
        operacion[o].estado \in {"NUEVA", "RECHAZADA", "CANCELADA"} =>
            operacion[o].unidad = Ninguna

\* Every stored operation satisfies its trigger.
FilasValidas == \A o \in Operaciones : FilaValida(operacion[o])

\* What holds of the units held and sold.
Custodia ==
    /\ ReservaRespaldada
    /\ UnidadReservadaConReserva
    /\ OperacionConReserva
    /\ ReservaUnica
    /\ UnidadDeUnaSolaVenta
    /\ VendidaEnVentaCerrada
    /\ FueraDeCursoSinUnidad
    /\ FilasValidas

IInv == TypeOK /\ Custodia

-------------------------------------------------------------------------------
(* Types *)

\* The rows the actions start from have their type.
LEMMA TiposIniciales ==
    /\ OperacionNueva \in Fila
    /\ UnidadInexistente \in Unidad
    /\ SolicitudInexistente \in Solicitud
<1>1. UnaSucursal \in Sucursales /\ UnaVersion \in Versiones
  BY HayDondeVender DEF UnaSucursal, UnaVersion
<1>2. QED
  BY <1>1 DEF OperacionNueva, UnidadInexistente, SolicitudInexistente, Fila, Unidad,
              Solicitud, EstadoOperacion, EstadoInventario, EstadoSolicitud

\* Both initial states are well typed.
LEMMA TipoInicial == Init => TypeOK
<1>1. CASE InitVacio
  BY <1>1, TiposIniciales, CantidadNatural
     DEF InitVacio, TypeOK, Disponibilidad
<1>2. CASE InitFlujoAnterior
  <2>1. PICK o \in Operaciones, u \in Unidades, a \in Disponibilidades,
             k \in Solicitudes, s \in Sucursales, vigente \in BOOLEAN,
             e \in {"BORRADOR", "APROBADA"} :
          /\ MaxCantidad > 0
          /\ operacion = [p \in Operaciones |->
                IF p = o THEN [estado |-> e, sucursal |-> s,
                               version |-> VersionDe[a],
                               unidad |-> Ninguna, entregada |-> FALSE]
                         ELSE OperacionNueva]
          /\ unidad = [w \in Unidades |->
                IF w = u THEN [estado |-> "EN_STOCK", sucursal |-> s,
                               version |-> VersionDe[a]]
                         ELSE UnidadInexistente]
          /\ reservas = {[op |-> o, destino |-> a, vigente |-> vigente]}
          /\ solicitud = [j \in Solicitudes |->
                IF j = k THEN [estado |-> "RECIBIDO", op |-> o, disp |-> a,
                               sucursal |-> s, version |-> VersionDe[a],
                               recibida |-> u]
                         ELSE SolicitudInexistente]
          /\ disponibilidad = [b \in Disponibilidades |->
                [cantidad |-> IF b = a THEN 1 ELSE 0, vigente |-> TRUE]]
    BY <1>2 DEF InitFlujoAnterior
  <2>2. VersionDe[a] \in Versiones
    BY VersionDeDisponibilidad
  <2>3. operacion \in [Operaciones -> Fila]
    BY <2>1, <2>2, TiposIniciales DEF Fila, EstadoOperacion
  <2>4. unidad \in [Unidades -> Unidad]
    BY <2>1, <2>2, TiposIniciales DEF Unidad, EstadoInventario
  <2>5. reservas \subseteq Reserva
    BY <2>1 DEF Reserva
  <2>6. solicitud \in [Solicitudes -> Solicitud]
    BY <2>1, <2>2, TiposIniciales DEF Solicitud, EstadoSolicitud
  <2>7. disponibilidad \in [Disponibilidades -> Disponibilidad]
    BY <2>1, CantidadNatural DEF Disponibilidad
  <2>8. alDia \in [Operaciones -> SUBSET Usuarios]
    BY <1>2 DEF InitFlujoAnterior
  <2>9. QED
    BY <2>3, <2>4, <2>5, <2>6, <2>7, <2>8 DEF TypeOK
<1>3. QED
  BY <1>1, <1>2 DEF Init

\* Writing one well-typed row keeps the table and the row versions typed.
LEMMA TipoGuardar ==
    ASSUME TypeOK, NEW o \in Operaciones, NEW fila \in Fila, Guardar(o, fila)
    PROVE  /\ operacion' \in [Operaciones -> Fila]
           /\ alDia' \in [Operaciones -> SUBSET Usuarios]
  BY DEF TypeOK, Guardar, GuardarFilas

\* Taking a unit keeps every table it writes typed.
LEMMA TipoReserveUnit ==
    ASSUME TypeOK, NEW o \in Operaciones, NEW u \in Unidades, NEW fila \in Fila,
           NEW libera, reserveUnit(o, u, fila, libera)
    PROVE  /\ operacion' \in [Operaciones -> Fila]
           /\ unidad' \in [Unidades -> Unidad]
           /\ reservas' \subseteq Reserva
           /\ alDia' \in [Operaciones -> SUBSET Usuarios]
<1>1. FilasAlReservar(o, u, fila) \in [Operaciones -> Fila]
  BY DEF TypeOK, FilasAlReservar, Fila
<1>2. operacion' \in [Operaciones -> Fila] /\ alDia' \in [Operaciones -> SUBSET Usuarios]
  BY <1>1 DEF TypeOK, reserveUnit, GuardarFilas
<1>3. unidad' \in [Unidades -> Unidad]
  BY DEF TypeOK, reserveUnit, Unidad, EstadoInventario
<1>4. reservas' \subseteq Reserva
  <2>1. [op |-> o, destino |-> u, vigente |-> TRUE] \in Reserva
    BY DEF Reserva
  <2>2. reservas \ (libera \cup SobreDestino(u)) \subseteq Reserva
    BY DEF TypeOK
  <2>3. QED
    BY <2>1, <2>2 DEF reserveUnit
<1>5. QED
  BY <1>2, <1>3, <1>4

\* Giving up a reservation keeps units and reservations typed.
LEMMA TipoSoltar ==
    ASSUME TypeOK, NEW o \in Operaciones, SoltarReserva(o)
    PROVE  unidad' \in [Unidades -> Unidad] /\ reservas' \subseteq Reserva
<1>1. CASE \E r \in Activas(o) : releaseActiveReservation(o, r)
  <2>1. operacion[o].unidad \in Unidades
    BY <1>1 DEF TypeOK, Fila, releaseActiveReservation
  <2>2. QED
    BY <1>1, <2>1 DEF TypeOK, releaseActiveReservation, Unidad, EstadoInventario
<1>2. CASE \E r \in Activas(o) : reservas' = reservas \ {r} /\ UNCHANGED unidad
  BY <1>2 DEF TypeOK
<1>3. CASE UNCHANGED <<reservas, unidad>>
  BY <1>3 DEF TypeOK
<1>4. QED
  BY <1>1, <1>2, <1>3 DEF SoltarReserva

\* Both ways to write the orders of an operation keep them typed.
LEMMA TipoPedidos ==
    ASSUME TypeOK, NEW o \in Operaciones
    PROVE  /\ SinPedidosEnCurso(o) \in [Solicitudes -> Solicitud]
           /\ PedidosAprobados(o) \in [Solicitudes -> Solicitud]
  BY DEF TypeOK, SinPedidosEnCurso, PedidosAprobados, Solicitud, EstadoSolicitud,
         EnCursoEstados

\* Every action of the sales endpoints keeps the tables typed.
LEMMA TipoVentas ==
    ASSUME TypeOK, NEW o \in Operaciones,
           \/ Create(o)
           \/ \E s \in Sucursales : UpdateDraft(o, s)
           \/ \E b \in BOOLEAN : UpdateDelivery(o, b)
           \/ EditPaymentSide(o)
           \/ updateLicensing(o)
           \/ \E v \in Versiones, b \in BOOLEAN : correct(o, v, b)
           \/ \E u \in Unidades : assignUnit(o, u)
           \/ \E k \in Solicitudes : requestSupply(o, k)
           \/ \E u \in Unidades : Reserve(o, u)
           \/ ReleaseReservation(o)
           \/ \E e \in {"PENDIENTE_APROBACION", "APROBADA"} : Submit(o, e)
           \/ Approve(o)
           \/ Reject(o)
           \/ Cancel(o)
           \/ Close(o)
    PROVE  TypeOK'
<1> DEFINE fila == operacion[o]
<1>0. fila \in Fila
  BY DEF TypeOK
<1>1. ASSUME NEW s \in Sucursales, NEW v \in Versiones, NEW e \in EstadosAlCrear
      PROVE  Nueva(o, s, v, e) \in Fila
  BY <1>0 DEF Nueva, Fila, EstadosAlCrear, EstadoOperacion
<1>2. ASSUME NEW s \in Sucursales, NEW v \in Versiones, NEW e \in EstadosAlCrear,
             CreateWithoutUnit(o, s, v, e)
      PROVE  TypeOK'
  BY <1>1, <1>2, TipoGuardar DEF CreateWithoutUnit, TypeOK
<1>3. ASSUME NEW s \in Sucursales, NEW v \in Versiones, NEW e \in EstadosAlCrear,
             NEW u \in Unidades, CreateWithUnit(o, s, v, e, u)
      PROVE  TypeOK'
  BY <1>1, <1>3, TipoReserveUnit DEF CreateWithUnit, TypeOK
<1>4. ASSUME NEW s \in Sucursales, NEW v \in Versiones, NEW e \in EstadosAlCrear,
             NEW a \in Disponibilidades, NEW k \in Solicitudes,
             CreateWithAvailability(o, s, v, e, a, k)
      PROVE  TypeOK'
  <2>1. operacion' \in [Operaciones -> Fila] /\ alDia' \in [Operaciones -> SUBSET Usuarios]
    BY <1>1, <1>4, TipoGuardar DEF CreateWithAvailability
  <2>2. reservas' \subseteq Reserva
    <3>1. [op |-> o, destino |-> a, vigente |-> TRUE] \in Reserva
      BY DEF Reserva
    <3>2. QED
      BY <1>4, <3>1 DEF CreateWithAvailability, TypeOK
  <2>3. solicitud' \in [Solicitudes -> Solicitud]
    BY <1>4 DEF CreateWithAvailability, TypeOK, Solicitud, EstadoSolicitud, EnCursoEstados
  <2>4. QED
    BY <1>4, <2>1, <2>2, <2>3 DEF CreateWithAvailability, TypeOK
<1>5. CASE Create(o)
  BY <1>2, <1>3, <1>4, <1>5 DEF Create
<1>6. UnidadTrasEditar(o) \in Unidades \cup {Ninguna}
  BY <1>0 DEF UnidadTrasEditar, Fila
<1>7. ASSUME NEW s \in Sucursales, UpdateDraft(o, s)
      PROVE  TypeOK'
  <2>1. [fila EXCEPT !.estado = "BORRADOR", !.sucursal = s,
                     !.unidad = UnidadTrasEditar(o)] \in Fila
    BY <1>0, <1>6 DEF Fila, EstadoOperacion
  <2>2. QED
    BY <1>7, <2>1, TipoGuardar DEF UpdateDraft, TypeOK
<1>8. ASSUME NEW b \in BOOLEAN, UpdateDelivery(o, b)
      PROVE  TypeOK'
  <2>1. [fila EXCEPT !.entregada = b, !.unidad = UnidadTrasEditar(o)] \in Fila
    BY <1>0, <1>6 DEF Fila
  <2>2. QED
    BY <1>8, <2>1, TipoGuardar DEF UpdateDelivery, TypeOK
<1>9. [fila EXCEPT !.estado = "BORRADOR"] \in Fila
  BY <1>0 DEF Fila, EstadoOperacion
<1>10. CASE EditPaymentSide(o)
  BY <1>0, <1>9, <1>10, TipoGuardar DEF EditPaymentSide, TypeOK
<1>11. CASE updateLicensing(o)
  BY <1>0, <1>11, TipoGuardar DEF updateLicensing, TypeOK
<1>12. ASSUME NEW v \in Versiones, NEW b \in BOOLEAN, correct(o, v, b)
       PROVE  TypeOK'
  <2>1. [fila EXCEPT !.version = v, !.entregada = b] \in Fila
    BY <1>0 DEF Fila
  <2>2. QED
    BY <1>12, <2>1, TipoGuardar DEF correct, TypeOK
<1>13. ASSUME NEW u \in Unidades, assignUnit(o, u)
       PROVE  TypeOK'
  <2>1. solicitud' \in [Solicitudes -> Solicitud]
    BY <1>13 DEF assignUnit, materializeProviderReservation, TypeOK, Solicitud,
                 EstadoSolicitud
  <2>2. QED
    BY <1>0, <1>13, <2>1, TipoReserveUnit DEF assignUnit, TypeOK
<1>14. ASSUME NEW k \in Solicitudes, requestSupply(o, k)
       PROVE  TypeOK'
  <2>1. operacion' \in [Operaciones -> Fila] /\ alDia' \in [Operaciones -> SUBSET Usuarios]
    BY <1>0, <1>14, TipoGuardar DEF requestSupply
  <2>2. solicitud' \in [Solicitudes -> Solicitud]
    BY <1>0, <1>14 DEF requestSupply, TypeOK, Fila, Solicitud, EstadoSolicitud,
                       EnCursoEstados
  <2>3. QED
    BY <1>14, <2>1, <2>2 DEF requestSupply, TypeOK
<1>15. ASSUME NEW u \in Unidades, Reserve(o, u)
       PROVE  TypeOK'
  <2>1. solicitud' \in [Solicitudes -> Solicitud]
    BY <1>15 DEF Reserve, materializeProviderReservation, TypeOK, Solicitud,
                 EstadoSolicitud
  <2>2. QED
    BY <1>0, <1>9, <1>15, <2>1, TipoReserveUnit DEF Reserve, TypeOK
<1>16. CASE ReleaseReservation(o)
  <2>1. [fila EXCEPT !.unidad = Ninguna] \in Fila
    BY <1>0 DEF Fila
  <2>2. operacion' \in [Operaciones -> Fila] /\ alDia' \in [Operaciones -> SUBSET Usuarios]
    BY <1>16, <2>1, TipoGuardar DEF ReleaseReservation
  <2>3. unidad' \in [Unidades -> Unidad] /\ reservas' \subseteq Reserva
    BY <1>16, TipoSoltar DEF ReleaseReservation
  <2>4. solicitud' \in [Solicitudes -> Solicitud]
    BY <1>16, TipoPedidos DEF ReleaseReservation, TypeOK
  <2>5. QED
    BY <1>16, <2>2, <2>3, <2>4 DEF ReleaseReservation, TypeOK
<1>17. ASSUME NEW e \in {"PENDIENTE_APROBACION", "APROBADA"}, Submit(o, e)
       PROVE  TypeOK'
  <2>1. [fila EXCEPT !.estado = e] \in Fila
    BY <1>0 DEF Fila, EstadoOperacion
  <2>2. QED
    BY <1>17, <2>1, TipoGuardar, TipoPedidos DEF Submit, TypeOK
<1>18. CASE Approve(o)
  <2>1. [fila EXCEPT !.estado = "APROBADA"] \in Fila
    BY <1>0 DEF Fila, EstadoOperacion
  <2>2. QED
    BY <1>18, <2>1, TipoGuardar, TipoPedidos DEF Approve, TypeOK
<1>19. ASSUME NEW e \in {"RECHAZADA", "CANCELADA"}, Abandonar(o, e)
       PROVE  TypeOK'
  <2>1. [fila EXCEPT !.estado = e, !.unidad = Ninguna] \in Fila
    BY <1>0 DEF Fila, EstadoOperacion
  <2>2. QED
    BY <1>19, <2>1, TipoGuardar, TipoPedidos, TipoSoltar DEF Abandonar, TypeOK
<1>20. CASE Close(o)
  <2>1. [fila EXCEPT !.estado = "CERRADA"] \in Fila
    BY <1>0 DEF Fila, EstadoOperacion
  <2>2. operacion' \in [Operaciones -> Fila] /\ alDia' \in [Operaciones -> SUBSET Usuarios]
    BY <1>20, <2>1, TipoGuardar DEF Close
  <2>3. unidad' \in [Unidades -> Unidad]
    BY <1>0, <1>20 DEF Close, assertUsableReservation, TypeOK, Fila, Unidad,
                       EstadoInventario
  <2>4. QED
    BY <1>20, <2>2, <2>3 DEF Close, TypeOK
<1>21. QED
  BY <1>5, <1>7, <1>8, <1>10, <1>11, <1>12, <1>13, <1>14, <1>15, <1>16, <1>17,
     <1>18, <1>19, <1>20 DEF Reject, Cancel

\* Taking a discount off an availability keeps it typed.
LEMMA TipoDescontar ==
    ASSUME TypeOK, NEW a \in Disponibilidades \cup {Ninguna}, NEW quedan,
           DescontarDisponibilidad(a, quedan)
    PROVE  disponibilidad' \in [Disponibilidades -> Disponibilidad]
<1>1. CASE a = Ninguna
  BY <1>1 DEF TypeOK, DescontarDisponibilidad
<1>2. CASE a # Ninguna
  <2>1. disponibilidad[a].cantidad - 1 \in 0..MaxCantidad
    BY <1>2, CantidadNatural DEF TypeOK, DescontarDisponibilidad, Disponibilidad
  <2>2. QED
    BY <1>2, <2>1 DEF TypeOK, DescontarDisponibilidad, Disponibilidad
<1>3. QED
  BY <1>1, <1>2

\* Every action of supply, inventory and suppliers keeps the tables typed.
LEMMA TipoAbastecimiento ==
    ASSUME TypeOK, NextAbastecimiento
    PROVE  TypeOK'
<1>1. ASSUME NEW k \in Solicitudes, NEW o \in Operaciones \cup {Ninguna},
             NEW a \in Disponibilidades \cup {Ninguna}, NEW s \in Sucursales,
             NEW v \in Versiones, CreateSupply(k, o, a, s, v)
      PROVE  TypeOK'
  BY <1>1 DEF CreateSupply, TypeOK, Solicitud, EstadoSolicitud, EnCursoEstados
<1>2. ASSUME NEW k \in Solicitudes, NEW e \in EnCursoEstados \cup {"CANCELADA"},
             Transition(k, e)
      PROVE  TypeOK'
  BY <1>2 DEF Transition, TypeOK, Solicitud, EstadoSolicitud
<1>3. ASSUME NEW k \in Solicitudes, NEW u \in Unidades,
             NEW e \in {"EN_STOCK", "RESERVADO"}
      PROVE  UnidadRecibida(k, e) \in Unidad
  BY DEF UnidadRecibida, TypeOK, Solicitud, Unidad, EstadoInventario
<1>4. ASSUME NEW k \in Solicitudes, NEW u \in Unidades, ReceiveForStock(k, u)
      PROVE  TypeOK'
  <2>1. disponibilidad' \in [Disponibilidades -> Disponibilidad]
    BY <1>4, TipoDescontar DEF ReceiveForStock, TypeOK, Solicitud
  <2>2. unidad' \in [Unidades -> Unidad]
    BY <1>3, <1>4 DEF ReceiveForStock, TypeOK
  <2>3. solicitud' \in [Solicitudes -> Solicitud]
    <3>1. [solicitud[k] EXCEPT !.estado = "RECIBIDO", !.recibida = u] \in Solicitud
      BY DEF TypeOK, Solicitud, EstadoSolicitud
    <3>2. QED
      BY <1>4, <3>1 DEF ReceiveForStock, TypeOK
  <2>4. QED
    BY <1>4, <2>1, <2>2, <2>3 DEF ReceiveForStock, TypeOK
<1>5. ASSUME NEW k \in Solicitudes, NEW o \in Operaciones, NEW u \in Unidades,
             NEW b \in BOOLEAN, ReceiveForOperation(k, o, u, b)
      PROVE  TypeOK'
  <2>1. disponibilidad' \in [Disponibilidades -> Disponibilidad]
    BY <1>5, TipoDescontar DEF ReceiveForOperation, TypeOK, Solicitud
  <2>2. unidad' \in [Unidades -> Unidad]
    BY <1>3, <1>5 DEF ReceiveForOperation, TypeOK
  <2>3. solicitud' \in [Solicitudes -> Solicitud]
    <3>1. [solicitud[k] EXCEPT !.estado = "ASIGNADO", !.recibida = u] \in Solicitud
      BY DEF TypeOK, Solicitud, EstadoSolicitud
    <3>2. QED
      BY <1>5, <3>1 DEF ReceiveForOperation, TypeOK
  <2>4. reservas' \subseteq Reserva
    <3>1. [op |-> o, destino |-> u, vigente |-> b] \in Reserva
      BY DEF Reserva
    <3>2. QED
      BY <1>5, <3>1 DEF ReceiveForOperation, ReservasTrasRecibir, TypeOK
  <2>5. operacion' \in [Operaciones -> Fila] /\ alDia' \in [Operaciones -> SUBSET Usuarios]
    <3>1. [operacion[o] EXCEPT !.unidad = u] \in Fila
      BY DEF TypeOK, Fila
    <3>2. QED
      BY <1>5, <3>1, TipoGuardar DEF ReceiveForOperation
  <2>6. QED
    BY <2>1, <2>2, <2>3, <2>4, <2>5 DEF TypeOK
<1>6. ASSUME NEW u \in Unidades, NEW s \in Sucursales, NEW v \in Versiones,
             CreateUnit(u, s, v)
      PROVE  TypeOK'
  BY <1>6 DEF CreateUnit, TypeOK, Unidad, EstadoInventario
<1>7. ASSUME NEW u \in Unidades, NEW e \in manuallyManagedStatuses,
             UpdateUnitStatus(u, e)
      PROVE  TypeOK'
  BY <1>7 DEF UpdateUnitStatus, TypeOK, Unidad, EstadoInventario,
              manuallyManagedStatuses
<1>8. ASSUME NEW u \in Unidades, NEW s \in Sucursales, Transfer(u, s)
      PROVE  TypeOK'
  BY <1>8 DEF Transfer, TypeOK, Unidad
<1>9. ASSUME NEW a \in Disponibilidades, NEW n \in 0..MaxCantidad, NEW b \in BOOLEAN,
             UpsertAvailability(a, n, b)
      PROVE  TypeOK'
  BY <1>9 DEF UpsertAvailability, TypeOK, Disponibilidad
<1>10. QED
  BY <1>1, <1>2, <1>4, <1>5, <1>6, <1>7, <1>8, <1>9 DEF NextAbastecimiento

\* Reading and the passing of time keep the tables typed.
LEMMA TipoEntorno ==
    ASSUME TypeOK, NextEntorno
    PROVE  TypeOK'
<1>1. ASSUME NEW c \in Usuarios, NEW o \in Operaciones, ReadOperation(c, o)
      PROVE  TypeOK'
  BY <1>1 DEF ReadOperation, TypeOK
<1>2. ASSUME NEW r \in reservas, ReservationExpires(r)
      PROVE  TypeOK'
  <2>1. [r EXCEPT !.vigente = FALSE] \in Reserva
    BY DEF TypeOK, Reserva
  <2>2. QED
    BY <1>2, <2>1 DEF ReservationExpires, TypeOK
<1>3. ASSUME NEW a \in Disponibilidades, AvailabilityExpires(a)
      PROVE  TypeOK'
  BY <1>3 DEF AvailabilityExpires, TypeOK, Disponibilidad
<1>4. QED
  BY <1>1, <1>2, <1>3 DEF NextEntorno

\* Every step keeps the types.
LEMMA TipoPaso == TypeOK /\ [Next]_vars => TypeOK'
<1> SUFFICES ASSUME TypeOK, [Next]_vars
             PROVE  TypeOK'
  OBVIOUS
<1>1. CASE NextVentas
  BY <1>1, TipoVentas DEF NextVentas
<1>2. CASE NextAbastecimiento
  BY <1>2, TipoAbastecimiento
<1>3. CASE NextEntorno
  BY <1>3, TipoEntorno
<1>4. CASE UNCHANGED vars
  BY <1>4 DEF vars, TypeOK
<1>5. QED
  BY <1>1, <1>2, <1>3, <1>4 DEF Next

\* Type correctness: every handler, on any number of rows, leaves rows of the
\* declared shape; in particular no reception takes the quantity a supplier
\* reported below zero.
THEOREM TypeCorrect == Spec => []TypeOK
<1>1. QED
  BY TipoInicial, TipoPaso, PTL DEF Spec

-------------------------------------------------------------------------------
(* Custody of the units *)

\* A row written without changing its unit, and reservations that change only
\* on suppliers' stock.
LEMMA CustodiaSinMover ==
    ASSUME IInv, TypeOK', NEW o \in Operaciones, NEW fila \in Fila,
           Guardar(o, fila), UNCHANGED unidad,
           \A r \in Reserva : Fisica(r) => (r \in reservas' <=> r \in reservas),
           fila.unidad = operacion[o].unidad,
           fila.estado = "CERRADA" <=> operacion[o].estado = "CERRADA",
           fila.estado \in {"NUEVA", "RECHAZADA", "CANCELADA"} => fila.unidad = Ninguna
    PROVE  Custodia'
<1>1. /\ \A p \in Operaciones : operacion'[p].unidad = operacion[p].unidad
      /\ \A p \in Operaciones :
            operacion'[p].estado = "CERRADA" <=> operacion[p].estado = "CERRADA"
      /\ operacion'[o] = fila
      /\ \A p \in Operaciones \ {o} : operacion'[p] = operacion[p]
  BY DEF IInv, TypeOK, Guardar, GuardarFilas
<1>2. FilaValida(fila)
  BY DEF IInv, TypeOK, Guardar, GuardarFilas
<1>3. ReservaRespaldada'
  BY <1>1 DEF IInv, TypeOK, Custodia, ReservaRespaldada, Fisica, Reserva
<1>4. UnidadReservadaConReserva'
  BY DEF IInv, TypeOK, Custodia, UnidadReservadaConReserva, Fisica, SobreDestino
<1>5. OperacionConReserva'
  BY <1>1, NingunaNoEsFila
     DEF IInv, TypeOK, Fila, Custodia, OperacionConReserva, Fisica, Activas
<1>6. ReservaUnica'
  BY DEF IInv, TypeOK, Custodia, ReservaUnica, Fisica
<1>7. UnidadDeUnaSolaVenta' /\ VendidaEnVentaCerrada'
  BY <1>1 DEF IInv, Custodia, UnidadDeUnaSolaVenta, VendidaEnVentaCerrada
<1>8. FueraDeCursoSinUnidad' /\ FilasValidas'
  BY <1>1, <1>2 DEF IInv, Custodia, FueraDeCursoSinUnidad, FilasValidas, FilaValida
<1>9. QED
  BY <1>3, <1>4, <1>5, <1>6, <1>7, <1>8 DEF Custodia

\* Units that are neither held nor sold come, go and move.
EfectoSinVentas ==
    /\ UNCHANGED <<operacion, reservas>>
    /\ \A u \in Unidades :
          \/ unidad'[u] = unidad[u]
          \/ /\ unidad[u].estado \notin {"RESERVADO", "VENDIDO"}
             /\ unidad'[u].estado \notin {"RESERVADO", "VENDIDO"}

\* Units that nobody holds or bought may change.
LEMMA CustodiaSinVentas ==
    ASSUME IInv, EfectoSinVentas
    PROVE  Custodia'
<1>1. \A u \in Unidades :
          /\ unidad'[u].estado = "RESERVADO" <=> unidad[u].estado = "RESERVADO"
          /\ unidad'[u].estado = "VENDIDO" <=> unidad[u].estado = "VENDIDO"
  BY DEF EfectoSinVentas
<1>2. \A p \in Operaciones : operacion[p].unidad # Ninguna =>
          operacion[p].unidad \in Unidades
  BY DEF IInv, TypeOK, Fila
<1>3. ReservaRespaldada' /\ UnidadReservadaConReserva'
  BY <1>1 DEF EfectoSinVentas, IInv, Custodia, ReservaRespaldada,
              UnidadReservadaConReserva, Fisica, SobreDestino
<1>4. OperacionConReserva'
  BY <1>1, <1>2 DEF EfectoSinVentas, IInv, Custodia, OperacionConReserva, Activas
<1>5. ReservaUnica' /\ UnidadDeUnaSolaVenta' /\ FueraDeCursoSinUnidad' /\ FilasValidas'
  BY DEF EfectoSinVentas, IInv, Custodia, ReservaUnica, Fisica, UnidadDeUnaSolaVenta,
         FueraDeCursoSinUnidad, FilasValidas, FilaValida
<1>6. VendidaEnVentaCerrada'
  BY <1>1 DEF EfectoSinVentas, IInv, Custodia, VendidaEnVentaCerrada
<1>7. QED
  BY <1>3, <1>4, <1>5, <1>6 DEF Custodia

\* An operation without a unit has no reservation of a unit.
LEMMA SinUnidadSinReserva ==
    ASSUME IInv, NEW o \in Operaciones, operacion[o].unidad = Ninguna
    PROVE  \A r \in reservas : Fisica(r) => r.op # o
  BY NingunaNoEsFila DEF IInv, Custodia, ReservaRespaldada, Fisica

\* The operations a unit is taken from are those that hold it.
LEMMA DesplazadasSonTitulares ==
    ASSUME IInv, NEW u \in Unidades, unidad[u].estado # "VENDIDO", NEW p \in Operaciones
    PROVE  p \in Desplazadas(u) <=> operacion[p].unidad = u
<1>1. ASSUME p \in Desplazadas(u)
      PROVE  operacion[p].unidad = u
  BY <1>1 DEF IInv, Custodia, ReservaRespaldada, Desplazadas, SobreDestino, Fisica
<1>2. ASSUME operacion[p].unidad = u
      PROVE  p \in Desplazadas(u)
  BY <1>2, NingunaNoEsFila
     DEF IInv, Custodia, OperacionConReserva, Desplazadas, SobreDestino, Activas
<1>3. QED
  BY <1>1, <1>2

\* What taking a unit does, be it from stock, from an operation whose reservation
\* expired or from the supplier: the holders lose it, o gets it.
EfectoTomar(o, u, estado, vigente) ==
    /\ estado \in {"BORRADOR", "PENDIENTE_APROBACION", "APROBADA"}
    /\ operacion[o].unidad = Ninguna
    /\ operacion[o].estado # "CERRADA"
    /\ u # Ninguna
    /\ unidad[u].estado # "VENDIDO"
    /\ \A r \in reservas : r.destino = u => ~r.vigente
    /\ operacion'[o].unidad = u
    /\ operacion'[o].estado = estado
    /\ \A p \in Operaciones \ {o} :
          /\ operacion'[p].estado = operacion[p].estado
          /\ operacion'[p].unidad = IF operacion[p].unidad = u THEN Ninguna
                                    ELSE operacion[p].unidad
    /\ \A p \in Operaciones :
          operacion'[p] = operacion[p] \/ (FilaValida(operacion'[p]) /\ alDia'[p] = {})
    /\ unidad'[u].estado = "RESERVADO"
    /\ \A w \in Unidades \ {u} : unidad'[w] = unidad[w]
    /\ \A r \in reservas : Fisica(r) => r.op # o
    /\ [op |-> o, destino |-> u, vigente |-> vigente] \in reservas'
    /\ \A r \in reservas' : Fisica(r) =>
          \/ r = [op |-> o, destino |-> u, vigente |-> vigente]
          \/ r \in reservas /\ r.destino # u
    /\ \A r \in reservas : Fisica(r) /\ r.destino # u => r \in reservas'

\* From stock, or from the operation whose reservation expired.
LEMMA TomarDelStock ==
    ASSUME IInv, NEW o \in Operaciones, NEW u \in Unidades, NEW fila \in Fila,
           NEW libera, \A r \in libera : r.op = o,
           operacion[o].unidad = Ninguna,
           fila.estado \in {"BORRADOR", "PENDIENTE_APROBACION", "APROBADA"},
           reserveUnit(o, u, fila, libera)
    PROVE  EfectoTomar(o, u, fila.estado, TRUE)
<1> DEFINE nueva == [op |-> o, destino |-> u, vigente |-> TRUE]
<1>1. u # Ninguna /\ unidad[u].estado # "VENDIDO" /\ operacion[o].estado # "CERRADA"
  <2>1. unidad[u].estado \in {"EN_STOCK", "RESERVADO"}
    BY DEF reserveUnit, UnidadTomable
  <2>2. operacion[o].estado # "CERRADA"
    BY DEF IInv, Custodia, VendidaEnVentaCerrada
  <2>3. QED
    BY <2>1, <2>2, NingunaNoEsFila
<1>2. \A r \in reservas : r.destino = u => ~r.vigente
  BY DEF reserveUnit, UnidadTomable, Vencida, SobreDestino
<1>3. \A p \in Operaciones : p \in Desplazadas(u) <=> operacion[p].unidad = u
  BY <1>1, DesplazadasSonTitulares
<1>4. /\ operacion'[o] = [fila EXCEPT !.unidad = u]
      /\ \A p \in Operaciones \ {o} :
            operacion'[p] = IF operacion[p].unidad = u
                            THEN [operacion[p] EXCEPT !.unidad = Ninguna]
                            ELSE operacion[p]
  BY <1>3 DEF reserveUnit, GuardarFilas, FilasAlReservar
<1>5. /\ operacion'[o].unidad = u
      /\ operacion'[o].estado = fila.estado
      /\ \A p \in Operaciones \ {o} :
            /\ operacion'[p].estado = operacion[p].estado
            /\ operacion'[p].unidad = IF operacion[p].unidad = u THEN Ninguna
                                      ELSE operacion[p].unidad
  <2>1. operacion'[o].unidad = u /\ operacion'[o].estado = fila.estado
    BY <1>4 DEF Fila
  <2>2. ASSUME NEW p \in Operaciones \ {o}
        PROVE  /\ operacion'[p].estado = operacion[p].estado
               /\ operacion'[p].unidad = IF operacion[p].unidad = u THEN Ninguna
                                         ELSE operacion[p].unidad
    <3>1. operacion[p] \in Fila
      BY DEF IInv, TypeOK
    <3>2. CASE operacion[p].unidad = u
      BY <1>4, <3>1, <3>2 DEF Fila
    <3>3. CASE operacion[p].unidad # u
      BY <1>4, <3>3
    <3>4. QED
      BY <3>2, <3>3
  <2>3. QED
    BY <2>1, <2>2
<1>6. \A p \in Operaciones :
          operacion'[p] = operacion[p] \/ (FilaValida(operacion'[p]) /\ alDia'[p] = {})
  <2>1. \A p \in Operaciones :
            p \in {o} \cup Desplazadas(u) \/ operacion'[p] = operacion[p]
    BY <1>3, <1>4
  <2>2. \A p \in {o} \cup Desplazadas(u) : FilaValida(operacion'[p])
    BY DEF reserveUnit, GuardarFilas, FilasVersionadas
  <2>3. \A p \in Operaciones : p \in {o} \cup Desplazadas(u) => alDia'[p] = {}
    BY DEF reserveUnit, GuardarFilas, FilasVersionadas
  <2>4. QED
    BY <2>1, <2>2, <2>3
<1>7. /\ unidad'[u].estado = "RESERVADO"
      /\ \A w \in Unidades \ {u} : unidad'[w] = unidad[w]
  BY DEF IInv, TypeOK, Unidad, reserveUnit
<1>8. /\ \A r \in reservas : Fisica(r) => r.op # o
      /\ nueva \in reservas'
      /\ \A r \in reservas' : Fisica(r) => r = nueva \/ (r \in reservas /\ r.destino # u)
      /\ \A r \in reservas : Fisica(r) /\ r.destino # u => r \in reservas'
  <2>1. \A r \in reservas : Fisica(r) => r.op # o
    BY SinUnidadSinReserva
  <2>2. reservas' = (reservas \ (libera \cup SobreDestino(u))) \cup {nueva}
    BY DEF reserveUnit
  <2>3. \A r \in reservas : r \in SobreDestino(u) <=> r.destino = u
    BY DEF SobreDestino
  <2>4. \A r \in reservas' : r = nueva \/ (r \in reservas /\ r.destino # u)
    BY <2>2, <2>3
  <2>5. \A r \in reservas : Fisica(r) /\ r.destino # u => r \in reservas'
    BY <2>1, <2>2, <2>3
  <2>6. QED
    BY <2>1, <2>2, <2>4, <2>5
<1>9. QED
  BY <1>1, <1>2, <1>5, <1>6, <1>7, <1>8 DEF EfectoTomar

\* From the supplier: the unit is new, so nobody held it.
LEMMA TomarDelProveedor ==
    ASSUME IInv, NEW k \in Solicitudes, NEW o \in Operaciones,
           NEW u \in Unidades, NEW b \in BOOLEAN, ReceiveForOperation(k, o, u, b)
    PROVE  EfectoTomar(o, u, operacion[o].estado, b)
<1> DEFINE nueva == [op |-> o, destino |-> u, vigente |-> b]
<1>1. /\ operacion[o].unidad = Ninguna
      /\ operacion[o].estado \in {"BORRADOR", "PENDIENTE_APROBACION", "APROBADA"}
      /\ unidad[u].estado = "INEXISTENTE"
  BY DEF ReceiveForOperation, PuedeRecibir
<1>2. /\ \A p \in Operaciones : p # o => operacion'[p] = operacion[p]
      /\ FilaValida(operacion'[o])
      /\ alDia'[o] = {}
  BY DEF IInv, TypeOK, ReceiveForOperation, Guardar, GuardarFilas
<1>3. operacion'[o].unidad = u /\ operacion'[o].estado = operacion[o].estado
  BY DEF IInv, TypeOK, Fila, ReceiveForOperation, Guardar, GuardarFilas
<1>4. /\ unidad'[u].estado = "RESERVADO"
      /\ \A w \in Unidades \ {u} : unidad'[w] = unidad[w]
  BY DEF IInv, TypeOK, ReceiveForOperation, UnidadRecibida
<1>5. \A r \in reservas : r.destino # u
  BY <1>1 DEF IInv, Custodia, ReservaRespaldada, Fisica
<1>6. u # Ninguna /\ \A p \in Operaciones : operacion[p].unidad # u
  BY <1>1, <1>5, NingunaNoEsFila DEF IInv, Custodia, OperacionConReserva, Activas
<1>7. \A r \in reservas : Fisica(r) => r.op # o
  BY <1>1, SinUnidadSinReserva
<1>8. /\ nueva \in reservas'
      /\ \A r \in reservas' : r = nueva \/ r \in reservas
      /\ \A r \in reservas : Fisica(r) => r \in reservas'
  BY <1>7 DEF ReceiveForOperation, ReservasTrasRecibir
<1>9. QED
  BY <1>1, <1>2, <1>3, <1>4, <1>5, <1>6, <1>7, <1>8 DEF EfectoTomar

\* Taking a unit keeps the custody of all of them.
LEMMA CustodiaTomar ==
    ASSUME IInv, TypeOK', NEW o \in Operaciones, NEW u \in Unidades,
           NEW estado, NEW vigente, EfectoTomar(o, u, estado, vigente)
    PROVE  Custodia'
<1> DEFINE nueva == [op |-> o, destino |-> u, vigente |-> vigente]
<1>1. /\ u # Ninguna /\ unidad[u].estado # "VENDIDO"
      /\ operacion[o].estado # "CERRADA"
      /\ estado \in {"BORRADOR", "PENDIENTE_APROBACION", "APROBADA"}
  BY DEF EfectoTomar
<1>2. /\ operacion'[o].unidad = u
      /\ operacion'[o].estado = estado
      /\ \A p \in Operaciones \ {o} :
            /\ operacion'[p].estado = operacion[p].estado
            /\ operacion'[p].unidad = IF operacion[p].unidad = u THEN Ninguna
                                      ELSE operacion[p].unidad
  BY DEF EfectoTomar
<1>3. /\ unidad'[u].estado = "RESERVADO"
      /\ \A w \in Unidades \ {u} : unidad'[w] = unidad[w]
  BY DEF EfectoTomar
<1>4. /\ \A r \in reservas : Fisica(r) => r.op # o
      /\ nueva \in reservas'
      /\ \A r \in reservas' : Fisica(r) => r = nueva \/ (r \in reservas /\ r.destino # u)
      /\ \A r \in reservas : Fisica(r) /\ r.destino # u => r \in reservas'
  BY DEF EfectoTomar
<1>5. ReservaRespaldada'
  BY <1>2, <1>3, <1>4 DEF IInv, TypeOK, Reserva, Custodia, ReservaRespaldada, Fisica
<1>6. UnidadReservadaConReserva'
  BY <1>3, <1>4 DEF IInv, Custodia, UnidadReservadaConReserva, SobreDestino, Fisica
<1>7. OperacionConReserva'
  <2> SUFFICES ASSUME NEW p \in Operaciones, operacion'[p].unidad # Ninguna
               PROVE  IF operacion'[p].estado = "CERRADA"
                      THEN unidad'[operacion'[p].unidad].estado = "VENDIDO"
                      ELSE \E r \in Activas(p)' : r.destino = operacion'[p].unidad
    BY DEF OperacionConReserva
  <2>1. CASE p = o
    BY <1>1, <1>2, <1>4, <2>1 DEF Activas
  <2>2. CASE p # o
    <3>1. /\ operacion'[p].unidad = operacion[p].unidad
          /\ operacion[p].unidad \in Unidades \ {u}
          /\ operacion'[p].estado = operacion[p].estado
      BY <1>2, <2>2 DEF IInv, TypeOK, Fila
    <3>2. QED
      BY <1>3, <1>4, <3>1 DEF IInv, Custodia, OperacionConReserva, Activas, Fisica
  <2>3. QED
    BY <2>1, <2>2
<1>8. ReservaUnica'
  <2> SUFFICES ASSUME NEW r \in reservas', NEW q \in reservas',
                      Fisica(r), r.destino = q.destino
               PROVE  r = q
    BY DEF ReservaUnica, Fisica
  <2>1. Fisica(q) /\ nueva.destino = u
    BY DEF Fisica
  <2>2. CASE r = nueva \/ q = nueva
    BY <1>4, <2>1, <2>2
  <2>3. CASE r # nueva /\ q # nueva
    BY <1>4, <2>1, <2>3 DEF IInv, Custodia, ReservaUnica
  <2>4. QED
    BY <2>2, <2>3
<1>9. UnidadDeUnaSolaVenta'
  BY <1>2 DEF IInv, Custodia, UnidadDeUnaSolaVenta
<1>10. VendidaEnVentaCerrada'
  <2>1. ASSUME NEW p \in Operaciones, operacion[p].estado = "CERRADA"
        PROVE  p # o /\ operacion[p].unidad # u
    BY <1>1, <2>1 DEF IInv, Custodia, OperacionConReserva
  <2>2. QED
    BY <1>1, <1>2, <1>3, <2>1 DEF IInv, Custodia, VendidaEnVentaCerrada
<1>11. FueraDeCursoSinUnidad'
  BY <1>1, <1>2 DEF IInv, Custodia, FueraDeCursoSinUnidad
<1>12. FilasValidas'
  BY DEF EfectoTomar, IInv, Custodia, FilasValidas, FilaValida
<1>13. QED
  BY <1>5, <1>6, <1>7, <1>8, <1>9, <1>10, <1>11, <1>12 DEF Custodia

\* What giving a unit back does: its only reservation ends and it is in stock.
EfectoDevolver(o, fila) ==
    /\ operacion[o].unidad \in Unidades
    /\ unidad[operacion[o].unidad].estado = "RESERVADO"
    /\ fila.unidad = Ninguna
    /\ fila.estado # "CERRADA"
    /\ operacion'[o] = fila
    /\ FilaValida(fila)
    /\ alDia'[o] = {}
    /\ \A p \in Operaciones \ {o} :
          operacion'[p] = operacion[p] /\ operacion[p].unidad # operacion[o].unidad
    /\ unidad'[operacion[o].unidad].estado = "EN_STOCK"
    /\ \A w \in Unidades \ {operacion[o].unidad} : unidad'[w] = unidad[w]
    /\ \A r \in reservas : r.destino = operacion[o].unidad => r.op = o
    /\ reservas' = {r \in reservas : r.destino # operacion[o].unidad}

\* The reservation given up is that of the unit, because it is the newest one.
LEMMA SoltarDevuelve ==
    ASSUME IInv, NEW o \in Operaciones, NEW fila \in Fila,
           operacion[o].estado # "CERRADA", operacion[o].unidad # Ninguna,
           fila.estado # "CERRADA", fila.unidad = Ninguna,
           SoltarReserva(o), Guardar(o, fila)
    PROVE  EfectoDevolver(o, fila)
<1> DEFINE u == operacion[o].unidad
<1>1. u \in Unidades
  BY DEF IInv, TypeOK, Fila
<1>2. PICK q \in Activas(o) : q.destino = u
  BY DEF IInv, Custodia, OperacionConReserva
<1>3. PICK r \in Activas(o) :
        /\ MasReciente(r)
        /\ \/ Fisica(r) /\ releaseActiveReservation(o, r)
           \/ ~Fisica(r) /\ reservas' = reservas \ {r} /\ UNCHANGED unidad
  BY <1>2 DEF SoltarReserva
<1>4. Fisica(r)
  BY <1>1, <1>2, <1>3 DEF MasReciente, Fisica, Activas
<1>5. r \in reservas /\ r.op = o /\ r.destino = u /\ unidad[u].estado = "RESERVADO"
  BY <1>4 DEF Activas, IInv, Custodia, ReservaRespaldada
<1>6. /\ reservas' = reservas \ {r}
      /\ unidad' = [unidad EXCEPT ![u].estado = "EN_STOCK"]
  BY <1>3, <1>4 DEF releaseActiveReservation
<1>7. /\ operacion'[o] = fila
      /\ \A p \in Operaciones \ {o} : operacion'[p] = operacion[p]
      /\ FilaValida(fila)
      /\ alDia'[o] = {}
  BY DEF IInv, TypeOK, Guardar, GuardarFilas
<1>8. \A p \in Operaciones \ {o} : operacion[p].unidad # u
  BY DEF IInv, Custodia, UnidadDeUnaSolaVenta
<1>9. /\ unidad'[u].estado = "EN_STOCK"
      /\ \A w \in Unidades \ {u} : unidad'[w] = unidad[w]
  BY <1>1, <1>6 DEF IInv, TypeOK, Unidad
<1>10. \A s \in reservas : s.destino = u <=> s = r
  BY <1>4, <1>5 DEF IInv, Custodia, ReservaUnica
<1>11. reservas' = {s \in reservas : s.destino # u}
  BY <1>6, <1>10
<1>12. QED
  BY <1>1, <1>5, <1>7, <1>8, <1>9, <1>10, <1>11 DEF EfectoDevolver

\* Giving a unit back keeps the custody of the others.
LEMMA CustodiaDevolver ==
    ASSUME IInv, TypeOK', NEW o \in Operaciones, NEW fila \in Fila,
           EfectoDevolver(o, fila)
    PROVE  Custodia'
<1> DEFINE u == operacion[o].unidad
<1>1. /\ u \in Unidades
      /\ fila.unidad = Ninguna
      /\ fila.estado # "CERRADA"
      /\ operacion'[o] = fila
      /\ FilaValida(fila)
      /\ \A p \in Operaciones \ {o} :
            operacion'[p] = operacion[p] /\ operacion[p].unidad # u
  BY DEF EfectoDevolver
<1>2. /\ unidad[u].estado = "RESERVADO"
      /\ unidad'[u].estado = "EN_STOCK"
      /\ \A w \in Unidades \ {u} : unidad'[w] = unidad[w]
  BY DEF EfectoDevolver
<1>3. /\ \A r \in reservas : r.destino = u => r.op = o
      /\ reservas' = {r \in reservas : r.destino # u}
  BY DEF EfectoDevolver
<1>4. ReservaRespaldada'
  <2>1. \A r \in reservas : Fisica(r) /\ r.destino # u => r.op # o
    BY DEF IInv, Custodia, ReservaRespaldada
  <2>2. QED
    BY <1>1, <1>2, <1>3, <2>1
       DEF IInv, TypeOK, Reserva, Custodia, ReservaRespaldada, Fisica
<1>5. UnidadReservadaConReserva'
  BY <1>2, <1>3 DEF IInv, Custodia, UnidadReservadaConReserva, SobreDestino
<1>6. OperacionConReserva'
  <2> SUFFICES ASSUME NEW p \in Operaciones, operacion'[p].unidad # Ninguna
               PROVE  IF operacion'[p].estado = "CERRADA"
                      THEN unidad'[operacion'[p].unidad].estado = "VENDIDO"
                      ELSE \E s \in Activas(p)' : s.destino = operacion'[p].unidad
    BY DEF OperacionConReserva
  <2>1. p # o /\ operacion'[p] = operacion[p]
    BY <1>1
  <2>2. operacion[p].unidad \in Unidades \ {u}
    BY <1>1, <2>1 DEF IInv, TypeOK, Fila
  <2>3. QED
    BY <1>2, <1>3, <2>1, <2>2 DEF IInv, Custodia, OperacionConReserva, Activas
<1>7. ReservaUnica'
  BY <1>3 DEF IInv, Custodia, ReservaUnica, Fisica
<1>8. UnidadDeUnaSolaVenta'
  BY <1>1 DEF IInv, Custodia, UnidadDeUnaSolaVenta
<1>9. VendidaEnVentaCerrada'
  BY <1>1, <1>2 DEF IInv, Custodia, VendidaEnVentaCerrada
<1>10. FueraDeCursoSinUnidad' /\ FilasValidas'
  BY <1>1 DEF IInv, Custodia, FueraDeCursoSinUnidad, FilasValidas, FilaValida
<1>11. QED
  BY <1>4, <1>5, <1>6, <1>7, <1>8, <1>9, <1>10 DEF Custodia

\* What closing does: the only reservation of the unit, which is on time, turns
\* into a sold unit.
EfectoVender(o) ==
    /\ operacion[o].unidad \in Unidades
    /\ unidad[operacion[o].unidad].estado = "RESERVADO"
    /\ operacion'[o].estado = "CERRADA"
    /\ operacion'[o].unidad = operacion[o].unidad
    /\ FilaValida(operacion'[o])
    /\ alDia'[o] = {}
    /\ \A p \in Operaciones \ {o} :
          operacion'[p] = operacion[p] /\ operacion[p].unidad # operacion[o].unidad
    /\ unidad'[operacion[o].unidad].estado = "VENDIDO"
    /\ \A w \in Unidades \ {operacion[o].unidad} : unidad'[w] = unidad[w]
    /\ \E r \in reservas : r.op = o /\ r.destino = operacion[o].unidad /\ r.vigente
    /\ reservas' = {r \in reservas : r.destino # operacion[o].unidad}

\* A close sells the unit its operation holds.
LEMMA CloseVende ==
    ASSUME IInv, NEW o \in Operaciones, Close(o)
    PROVE  EfectoVender(o)
<1> DEFINE u == operacion[o].unidad
<1>1. /\ u \in Unidades /\ u # Ninguna /\ unidad[u].estado = "RESERVADO"
      /\ \E r \in reservas : r.op = o /\ r.destino = u /\ r.vigente
  BY DEF IInv, TypeOK, Fila, Close, assertUsableReservation, Activas
<1>2. /\ \A p \in Operaciones : p # o => operacion'[p] = operacion[p]
      /\ FilaValida(operacion'[o])
      /\ alDia'[o] = {}
  BY DEF IInv, TypeOK, Close, Guardar, GuardarFilas
<1>3. operacion'[o].estado = "CERRADA" /\ operacion'[o].unidad = u
  BY DEF IInv, TypeOK, Fila, Close, Guardar, GuardarFilas
<1>4. /\ unidad'[u].estado = "VENDIDO"
      /\ \A w \in Unidades \ {u} : unidad'[w] = unidad[w]
  BY <1>1 DEF IInv, TypeOK, Unidad, Close
<1>5. \A p \in Operaciones \ {o} : operacion[p].unidad # u
  BY <1>1 DEF IInv, Custodia, UnidadDeUnaSolaVenta
<1>6. \A r \in reservas : r.destino = u => r.op = o
  BY <1>1, <1>5 DEF IInv, TypeOK, Reserva, Custodia, ReservaRespaldada, Fisica
<1>7. reservas' = {r \in reservas : r.destino # u}
  BY <1>6 DEF Close
<1>8. QED
  BY <1>1, <1>2, <1>3, <1>4, <1>5, <1>7 DEF EfectoVender

\* Selling a unit keeps the custody of all of them.
LEMMA CustodiaVender ==
    ASSUME IInv, TypeOK', NEW o \in Operaciones, EfectoVender(o)
    PROVE  Custodia'
<1> DEFINE u == operacion[o].unidad
<1>1. /\ u \in Unidades /\ u # Ninguna
      /\ operacion'[o].estado = "CERRADA"
      /\ operacion'[o].unidad = u
      /\ FilaValida(operacion'[o])
      /\ \A p \in Operaciones \ {o} :
            operacion'[p] = operacion[p] /\ operacion[p].unidad # u
  BY NingunaNoEsFila DEF EfectoVender
<1>2. /\ unidad'[u].estado = "VENDIDO"
      /\ \A w \in Unidades \ {u} : unidad'[w] = unidad[w]
  BY DEF EfectoVender
<1>3. reservas' = {r \in reservas : r.destino # u}
  BY DEF EfectoVender
<1>4. ReservaRespaldada'
  <2>1. \A r \in reservas : Fisica(r) /\ r.destino # u => r.op # o
    BY DEF IInv, Custodia, ReservaRespaldada
  <2>2. QED
    BY <1>1, <1>2, <1>3, <2>1
       DEF IInv, TypeOK, Reserva, Custodia, ReservaRespaldada, Fisica
<1>5. UnidadReservadaConReserva'
  BY <1>2, <1>3 DEF IInv, Custodia, UnidadReservadaConReserva, SobreDestino
<1>6. OperacionConReserva'
  <2> SUFFICES ASSUME NEW p \in Operaciones, operacion'[p].unidad # Ninguna
               PROVE  IF operacion'[p].estado = "CERRADA"
                      THEN unidad'[operacion'[p].unidad].estado = "VENDIDO"
                      ELSE \E s \in Activas(p)' : s.destino = operacion'[p].unidad
    BY DEF OperacionConReserva
  <2>1. CASE p = o
    BY <1>1, <1>2, <2>1
  <2>2. CASE p # o
    <3>1. operacion'[p] = operacion[p] /\ operacion[p].unidad \in Unidades \ {u}
      BY <1>1, <2>2 DEF IInv, TypeOK, Fila
    <3>2. QED
      BY <1>2, <1>3, <3>1 DEF IInv, Custodia, OperacionConReserva, Activas
  <2>3. QED
    BY <2>1, <2>2
<1>7. ReservaUnica'
  BY <1>3 DEF IInv, Custodia, ReservaUnica, Fisica
<1>8. UnidadDeUnaSolaVenta'
  BY <1>1 DEF IInv, Custodia, UnidadDeUnaSolaVenta
<1>9. VendidaEnVentaCerrada'
  BY <1>1, <1>2 DEF IInv, Custodia, VendidaEnVentaCerrada
<1>10. FueraDeCursoSinUnidad' /\ FilasValidas'
  BY <1>1 DEF IInv, Custodia, FueraDeCursoSinUnidad, FilasValidas, FilaValida
<1>11. QED
  BY <1>4, <1>5, <1>6, <1>7, <1>8, <1>9, <1>10 DEF Custodia

\* A reservation that expires stays in the table.
LEMMA CustodiaExpires ==
    ASSUME IInv, NEW r \in reservas, ReservationExpires(r)
    PROVE  Custodia'
<1> DEFINE vencida == [r EXCEPT !.vigente = FALSE]
<1>1. r \in Reserva /\ vencida.op = r.op /\ vencida.destino = r.destino
  BY DEF IInv, TypeOK, Reserva
<1>2. /\ reservas' = (reservas \ {r}) \cup {vencida}
      /\ UNCHANGED <<operacion, unidad>>
  BY DEF ReservationExpires
<1>3. ReservaRespaldada' /\ UnidadReservadaConReserva'
  BY <1>1, <1>2 DEF IInv, Custodia, ReservaRespaldada, UnidadReservadaConReserva,
                    SobreDestino, Fisica
<1>4. OperacionConReserva'
  BY <1>1, <1>2 DEF IInv, Custodia, OperacionConReserva, Activas
<1>5. ReservaUnica'
  BY <1>1, <1>2 DEF IInv, Custodia, ReservaUnica, Fisica
<1>6. UnidadDeUnaSolaVenta' /\ VendidaEnVentaCerrada' /\ FueraDeCursoSinUnidad'
      /\ FilasValidas'
  BY <1>2 DEF IInv, Custodia, UnidadDeUnaSolaVenta, VendidaEnVentaCerrada,
              FueraDeCursoSinUnidad, FilasValidas, FilaValida
<1>7. QED
  BY <1>3, <1>4, <1>5, <1>6 DEF Custodia

-------------------------------------------------------------------------------
(* What a step of the sales endpoints is to the units *)

\* The row is written and its unit stays; the units do not change and neither do
\* their reservations.
PasoSinMover(o, fila) ==
    /\ Guardar(o, fila)
    /\ UNCHANGED unidad
    /\ \A r \in Reserva : Fisica(r) => (r \in reservas' <=> r \in reservas)
    /\ fila.unidad = operacion[o].unidad
    /\ fila.estado = "CERRADA" <=> operacion[o].estado = "CERRADA"
    /\ fila.estado \in {"NUEVA", "RECHAZADA", "CANCELADA"} => fila.unidad = Ninguna

\* An operation without a unit takes one.
PasoTomar(o, u, fila, libera) ==
    /\ operacion[o].unidad = Ninguna
    /\ fila.estado \in {"BORRADOR", "PENDIENTE_APROBACION", "APROBADA"}
    /\ \A r \in libera : r.op = o
    /\ reserveUnit(o, u, fila, libera)

\* An operation that is not closed gives up the unit it holds.
PasoSoltar(o, fila) ==
    /\ operacion[o].estado # "CERRADA"
    /\ operacion[o].unidad # Ninguna
    /\ fila.estado # "CERRADA"
    /\ fila.unidad = Ninguna
    /\ SoltarReserva(o)
    /\ Guardar(o, fila)

\* With no unit to give back, only a supplier reservation can end.
LEMMA SoltarSinUnidad ==
    ASSUME IInv, NEW o \in Operaciones, NEW fila \in Fila,
           operacion[o].estado # "CERRADA",
           fila.estado # "CERRADA", fila.unidad = Ninguna,
           SoltarReserva(o), Guardar(o, fila)
    PROVE  PasoSoltar(o, fila) \/ PasoSinMover(o, fila)
<1>1. CASE operacion[o].unidad = Ninguna
  <2>1. UNCHANGED unidad
    BY <1>1 DEF SoltarReserva, releaseActiveReservation
  <2>2. \A r \in Reserva : Fisica(r) => (r \in reservas' <=> r \in reservas)
    BY <1>1 DEF SoltarReserva, releaseActiveReservation
  <2>3. QED
    BY <1>1, <2>1, <2>2 DEF PasoSinMover
<1>2. CASE operacion[o].unidad # Ninguna
  BY <1>2 DEF PasoSoltar
<1>3. QED
  BY <1>1, <1>2

\* Every handler of the sales endpoints is one of these, or closes the sale.
LEMMA ClasesDeVentas ==
    ASSUME IInv, NEW o \in Operaciones,
           \/ Create(o)
           \/ \E s \in Sucursales : UpdateDraft(o, s)
           \/ \E b \in BOOLEAN : UpdateDelivery(o, b)
           \/ EditPaymentSide(o)
           \/ updateLicensing(o)
           \/ \E v \in Versiones, b \in BOOLEAN : correct(o, v, b)
           \/ \E u \in Unidades : assignUnit(o, u)
           \/ \E k \in Solicitudes : requestSupply(o, k)
           \/ \E u \in Unidades : Reserve(o, u)
           \/ ReleaseReservation(o)
           \/ \E e \in {"PENDIENTE_APROBACION", "APROBADA"} : Submit(o, e)
           \/ Approve(o)
           \/ Reject(o)
           \/ Cancel(o)
           \/ Close(o)
    PROVE  \/ \E fila \in Fila : PasoSinMover(o, fila)
           \/ \E u \in Unidades, fila \in Fila, libera \in SUBSET reservas :
                 PasoTomar(o, u, fila, libera)
           \/ \E fila \in Fila : PasoSoltar(o, fila)
           \/ Close(o)
<1> DEFINE fila == operacion[o]
           Clases == \/ \E f \in Fila : PasoSinMover(o, f)
                     \/ \E u \in Unidades, f \in Fila, libera \in SUBSET reservas :
                           PasoTomar(o, u, f, libera)
                     \/ \E f \in Fila : PasoSoltar(o, f)
                     \/ Close(o)
<1>0. fila \in Fila
  BY DEF IInv, TypeOK
<1>1. fila.estado \in {"NUEVA", "RECHAZADA", "CANCELADA"} => fila.unidad = Ninguna
  BY DEF IInv, Custodia, FueraDeCursoSinUnidad
<1>2. fila.unidad # Ninguna /\ fila.estado # "CERRADA" =>
         \E r \in Activas(o) : Fisica(r) /\ r.destino = fila.unidad
  BY DEF IInv, TypeOK, Fila, Custodia, OperacionConReserva, Fisica
<1>3. \A r \in Activas(o) : Fisica(r) => fila.unidad # Ninguna
  BY NingunaNoEsFila DEF IInv, Custodia, ReservaRespaldada, Activas, Fisica
<1>4. UnidadTrasEditar(o) = fila.unidad \/ fila.estado = "CERRADA"
  BY <1>2 DEF UnidadTrasEditar
<1>5. \A a \in Disponibilidades : a \notin Unidades
  BY DestinosDisjuntos
<1>6. ASSUME NEW s \in Sucursales, NEW v \in Versiones, NEW e \in EstadosAlCrear,
             ~Existe(o)
      PROVE  /\ Nueva(o, s, v, e) \in Fila
             /\ fila.unidad = Ninguna
             /\ Nueva(o, s, v, e).unidad = Ninguna
             /\ Nueva(o, s, v, e).estado = e
             /\ e \in {"BORRADOR", "PENDIENTE_APROBACION", "APROBADA"}
             /\ fila.estado = "NUEVA"
  BY <1>0, <1>1, <1>6 DEF Nueva, Fila, EstadosAlCrear, EstadoOperacion, Existe
<1>7. ASSUME NEW s \in Sucursales, NEW v \in Versiones, NEW e \in EstadosAlCrear,
             CreateWithoutUnit(o, s, v, e)
      PROVE  Clases
  BY <1>6, <1>7 DEF CreateWithoutUnit, PasoSinMover
<1>8. ASSUME NEW s \in Sucursales, NEW v \in Versiones, NEW e \in EstadosAlCrear,
             NEW u \in Unidades, CreateWithUnit(o, s, v, e, u)
      PROVE  Clases
  <2>1. PasoTomar(o, u, Nueva(o, s, v, e), {})
    BY <1>6, <1>8 DEF CreateWithUnit, PasoTomar
  <2>2. QED
    BY <1>6, <1>8, <2>1 DEF CreateWithUnit
<1>9. ASSUME NEW s \in Sucursales, NEW v \in Versiones, NEW e \in EstadosAlCrear,
             NEW a \in Disponibilidades, NEW k \in Solicitudes,
             CreateWithAvailability(o, s, v, e, a, k)
      PROVE  Clases
  <2>1. \A r \in Reserva : Fisica(r) => (r \in reservas' <=> r \in reservas)
    BY <1>5, <1>9 DEF CreateWithAvailability, Fisica
  <2>2. QED
    BY <1>6, <1>9, <2>1 DEF CreateWithAvailability, PasoSinMover
<1>10. CASE Create(o)
  BY <1>7, <1>8, <1>9, <1>10 DEF Create
<1>11. ASSUME NEW s \in Sucursales, UpdateDraft(o, s)
       PROVE  Clases
  <2> DEFINE f == [fila EXCEPT !.estado = "BORRADOR", !.sucursal = s,
                               !.unidad = UnidadTrasEditar(o)]
  <2>1. fila.estado \in {"BORRADOR", "RECHAZADA"} /\ UnidadTrasEditar(o) = fila.unidad
    BY <1>4, <1>11 DEF UpdateDraft, Editable
  <2>2. f \in Fila /\ f.unidad = fila.unidad /\ f.estado = "BORRADOR"
    BY <1>0, <2>1 DEF Fila, EstadoOperacion
  <2>3. PasoSinMover(o, f)
    BY <1>11, <2>1, <2>2 DEF UpdateDraft, PasoSinMover
  <2>4. QED
    BY <2>2, <2>3
<1>12. ASSUME NEW b \in BOOLEAN, UpdateDelivery(o, b)
       PROVE  Clases
  <2> DEFINE f == [fila EXCEPT !.entregada = b, !.unidad = UnidadTrasEditar(o)]
  <2>1. fila.estado = "APROBADA" /\ UnidadTrasEditar(o) = fila.unidad
    BY <1>4, <1>12 DEF UpdateDelivery
  <2>2. f \in Fila /\ f.unidad = fila.unidad /\ f.estado = "APROBADA"
    BY <1>0, <2>1 DEF Fila
  <2>3. PasoSinMover(o, f)
    BY <1>12, <2>1, <2>2 DEF UpdateDelivery, PasoSinMover
  <2>4. QED
    BY <2>2, <2>3
<1>13. [fila EXCEPT !.estado = "BORRADOR"] \in Fila
  BY <1>0 DEF Fila, EstadoOperacion
<1>14. /\ [fila EXCEPT !.estado = "BORRADOR"].unidad = fila.unidad
       /\ [fila EXCEPT !.estado = "BORRADOR"].estado = "BORRADOR"
  BY <1>0 DEF Fila
<1>15. CASE EditPaymentSide(o)
  BY <1>0, <1>13, <1>14, <1>15 DEF EditPaymentSide, Editable, PasoSinMover
<1>16. CASE updateLicensing(o)
  BY <1>0, <1>1, <1>16 DEF updateLicensing, PasoSinMover
<1>17. ASSUME NEW v \in Versiones, NEW b \in BOOLEAN, correct(o, v, b)
       PROVE  Clases
  <2> DEFINE f == [fila EXCEPT !.version = v, !.entregada = b]
  <2>1. f \in Fila /\ f.unidad = fila.unidad /\ f.estado = fila.estado
    BY <1>0 DEF Fila
  <2>2. PasoSinMover(o, f)
    BY <1>1, <1>17, <2>1 DEF correct, PasoSinMover
  <2>3. QED
    BY <2>1, <2>2
<1>18. Activas(o) \in SUBSET reservas /\ \A r \in Activas(o) : r.op = o
  BY DEF Activas
<1>19. ASSUME NEW u \in Unidades, assignUnit(o, u)
       PROVE  Clases
  <2>1. PasoTomar(o, u, fila, Activas(o))
    BY <1>18, <1>19 DEF assignUnit, assertAssignable, PasoTomar
  <2>2. QED
    BY <1>0, <1>18, <2>1
<1>20. ASSUME NEW k \in Solicitudes, requestSupply(o, k)
       PROVE  Clases
  <2>1. \A r \in Reserva : Fisica(r) => (r \in reservas' <=> r \in reservas)
    BY <1>20 DEF requestSupply
  <2>2. PasoSinMover(o, fila)
    BY <1>1, <1>20, <2>1 DEF requestSupply, PasoSinMover
  <2>3. QED
    BY <1>0, <2>2
<1>21. ASSUME NEW u \in Unidades, Reserve(o, u)
       PROVE  Clases
  <2> DEFINE f == IF Editable(o) THEN [fila EXCEPT !.estado = "BORRADOR"] ELSE fila
  <2>1. f \in Fila /\ f.estado \in {"BORRADOR", "APROBADA"}
    BY <1>0, <1>13, <1>14, <1>21 DEF Reserve
  <2>2. \A r \in Activas(o) : ~Fisica(r)
    BY <1>21 DEF Reserve, materializeProviderReservation
  <2>3. fila.unidad = Ninguna
    BY <1>2, <1>21, <2>2 DEF Reserve, Editable
  <2>4. reserveUnit(o, u, f, Activas(o))
    BY <1>21 DEF Reserve
  <2>5. PasoTomar(o, u, f, Activas(o))
    BY <1>18, <2>1, <2>3, <2>4 DEF PasoTomar
  <2>6. QED
    BY <1>18, <2>1, <2>5
<1>22. CASE ReleaseReservation(o)
  <2> DEFINE f == [fila EXCEPT !.unidad = Ninguna]
  <2>1. f \in Fila /\ f.unidad = Ninguna /\ f.estado = fila.estado
    BY <1>0 DEF Fila
  <2>2. PasoSoltar(o, f) \/ PasoSinMover(o, f)
    BY <1>22, <2>1, SoltarSinUnidad DEF ReleaseReservation, Editable
  <2>3. QED
    BY <2>1, <2>2
<1>23. ASSUME NEW e \in {"PENDIENTE_APROBACION", "APROBADA"}, 
              fila.estado \in {"BORRADOR", "PENDIENTE_APROBACION"},
              Guardar(o, [fila EXCEPT !.estado = e]), UNCHANGED <<unidad, reservas>>
       PROVE  Clases
  <2> DEFINE f == [fila EXCEPT !.estado = e]
  <2>1. f \in Fila /\ f.unidad = fila.unidad /\ f.estado = e
    BY <1>0 DEF Fila, EstadoOperacion
  <2>2. PasoSinMover(o, f)
    BY <1>23, <2>1 DEF PasoSinMover
  <2>3. QED
    BY <2>1, <2>2
<1>24. ASSUME NEW e \in {"PENDIENTE_APROBACION", "APROBADA"}, Submit(o, e)
       PROVE  Clases
  BY <1>23, <1>24 DEF Submit
<1>25. CASE Approve(o)
  BY <1>23, <1>25 DEF Approve
<1>26. ASSUME NEW e \in {"RECHAZADA", "CANCELADA"}, fila.estado # "CERRADA",
              Abandonar(o, e)
       PROVE  Clases
  <2> DEFINE f == [fila EXCEPT !.estado = e, !.unidad = Ninguna]
  <2>1. f \in Fila /\ f.unidad = Ninguna /\ f.estado = e
    BY <1>0 DEF Fila, EstadoOperacion
  <2>2. PasoSoltar(o, f) \/ PasoSinMover(o, f)
    BY <1>26, <2>1, SoltarSinUnidad DEF Abandonar
  <2>3. QED
    BY <2>1, <2>2
<1>27. CASE Reject(o) \/ Cancel(o)
  BY <1>26, <1>27 DEF Reject, Cancel
<1>28. QED
  BY <1>10, <1>11, <1>12, <1>15, <1>16, <1>17, <1>19, <1>20, <1>21, <1>22, <1>24,
     <1>25, <1>27

-------------------------------------------------------------------------------
(* The invariant *)

\* Nothing is held or sold at first.
LEMMA CustodiaInicial == Init => Custodia
<1>1. CASE InitVacio
  <2>1. /\ \A o \in Operaciones : operacion[o] = OperacionNueva
        /\ \A u \in Unidades : unidad[u] = UnidadInexistente
        /\ reservas = {}
    BY <1>1 DEF InitVacio
  <2>2. QED
    BY <2>1 DEF OperacionNueva, UnidadInexistente, Custodia, ReservaRespaldada,
                UnidadReservadaConReserva, OperacionConReserva, ReservaUnica,
                UnidadDeUnaSolaVenta, VendidaEnVentaCerrada, FueraDeCursoSinUnidad,
                FilasValidas, FilaValida
<1>2. CASE InitFlujoAnterior
  <2>1. /\ \A o \in Operaciones : /\ operacion[o].unidad = Ninguna
                                  /\ operacion[o].estado # "CERRADA"
                                  /\ ~operacion[o].entregada
        /\ \A u \in Unidades : unidad[u].estado \notin {"RESERVADO", "VENDIDO"}
        /\ \A r \in reservas : r.destino \in Disponibilidades
    BY <1>2 DEF InitFlujoAnterior, OperacionNueva, UnidadInexistente
  <2>2. \A r \in reservas : ~Fisica(r)
    BY <2>1, DestinosDisjuntos DEF Fisica
  <2>3. QED
    BY <2>1, <2>2 DEF Custodia, ReservaRespaldada, UnidadReservadaConReserva,
                OperacionConReserva, ReservaUnica, UnidadDeUnaSolaVenta,
                VendidaEnVentaCerrada, FueraDeCursoSinUnidad, FilasValidas, FilaValida
<1>3. QED
  BY <1>1, <1>2 DEF Init

\* Every step of the system is one of six kinds.
EfectoPaso ==
    \/ \E o \in Operaciones, fila \in Fila : PasoSinMover(o, fila)
    \/ \E o \in Operaciones, u \in Unidades, estado \in EstadoOperacion,
          vigente \in BOOLEAN : EfectoTomar(o, u, estado, vigente)
    \/ \E o \in Operaciones, fila \in Fila : EfectoDevolver(o, fila)
    \/ \E o \in Operaciones : EfectoVender(o)
    \/ \E r \in reservas : ReservationExpires(r)
    \/ EfectoSinVentas

\* Every step has one of the six effects.
LEMMA Efectos == IInv /\ [Next]_vars => EfectoPaso
<1> SUFFICES ASSUME IInv, [Next]_vars
             PROVE  EfectoPaso
  OBVIOUS
<1>1. CASE NextVentas
  <2>1. PICK o \in Operaciones :
           \/ \E fila \in Fila : PasoSinMover(o, fila)
           \/ \E u \in Unidades, fila \in Fila, libera \in SUBSET reservas :
                 PasoTomar(o, u, fila, libera)
           \/ \E fila \in Fila : PasoSoltar(o, fila)
           \/ Close(o)
    BY <1>1, ClasesDeVentas DEF NextVentas
  <2>2. ASSUME NEW u \in Unidades, NEW fila \in Fila, NEW libera \in SUBSET reservas,
               PasoTomar(o, u, fila, libera)
        PROVE  EfectoPaso
    <3>1. EfectoTomar(o, u, fila.estado, TRUE)
      BY <2>2, TomarDelStock DEF PasoTomar
    <3>2. fila.estado \in EstadoOperacion
      BY DEF Fila
    <3>3. QED
      BY <3>1, <3>2 DEF EfectoPaso
  <2>3. ASSUME NEW fila \in Fila, PasoSoltar(o, fila)
        PROVE  EfectoPaso
    BY <2>3, SoltarDevuelve DEF PasoSoltar, EfectoPaso
  <2>4. QED
    BY <2>1, <2>2, <2>3, CloseVende DEF EfectoPaso
<1>2. CASE NextAbastecimiento
  <2>1. ASSUME NEW k \in Solicitudes, NEW u \in Unidades, ReceiveForStock(k, u)
        PROVE  EfectoSinVentas
    BY <2>1 DEF IInv, TypeOK, ReceiveForStock, UnidadRecibida, EfectoSinVentas
  <2>2. ASSUME NEW u \in Unidades, NEW s \in Sucursales, NEW v \in Versiones,
               CreateUnit(u, s, v)
        PROVE  EfectoSinVentas
    BY <2>2 DEF IInv, TypeOK, CreateUnit, EfectoSinVentas
  <2>3. ASSUME NEW u \in Unidades, NEW e \in manuallyManagedStatuses,
               UpdateUnitStatus(u, e)
        PROVE  EfectoSinVentas
    BY <2>3 DEF IInv, TypeOK, Unidad, UpdateUnitStatus, manuallyManagedStatuses,
                EfectoSinVentas
  <2>4. ASSUME NEW u \in Unidades, NEW s \in Sucursales, Transfer(u, s)
        PROVE  EfectoSinVentas
    BY <2>4 DEF IInv, TypeOK, Unidad, Transfer, EfectoSinVentas
  <2>5. ASSUME NEW k \in Solicitudes, NEW o \in Operaciones, NEW u \in Unidades,
               NEW b \in BOOLEAN, ReceiveForOperation(k, o, u, b)
        PROVE  EfectoPaso
    <3>1. operacion[o].estado \in EstadoOperacion
      BY DEF IInv, TypeOK, Fila
    <3>2. QED
      BY <2>5, <3>1, TomarDelProveedor DEF EfectoPaso
  <2>6. UNCHANGED <<operacion, unidad, reservas>> => EfectoSinVentas
    BY DEF EfectoSinVentas
  <2>7. QED
    BY <1>2, <2>1, <2>2, <2>3, <2>4, <2>5, <2>6
       DEF NextAbastecimiento, CreateSupply, Transition, UpsertAvailability, EfectoPaso
<1>3. CASE NextEntorno
  BY <1>3 DEF NextEntorno, ReadOperation, AvailabilityExpires, EfectoSinVentas, EfectoPaso
<1>4. CASE UNCHANGED vars
  BY <1>4 DEF vars, EfectoSinVentas, EfectoPaso
<1>5. QED
  BY <1>1, <1>2, <1>3, <1>4 DEF Next

\* Every kind of step keeps the custody of the units.
LEMMA CustodiaPaso == IInv /\ [Next]_vars => Custodia'
<1> SUFFICES ASSUME IInv, [Next]_vars
             PROVE  Custodia'
  OBVIOUS
<1>1. TypeOK'
  BY TipoPaso DEF IInv
<1>2. ASSUME NEW o \in Operaciones, NEW fila \in Fila, PasoSinMover(o, fila)
      PROVE  Custodia'
  BY <1>1, <1>2, CustodiaSinMover DEF PasoSinMover
<1>3. ASSUME NEW o \in Operaciones, NEW u \in Unidades, NEW estado \in EstadoOperacion,
             NEW vigente \in BOOLEAN, EfectoTomar(o, u, estado, vigente)
      PROVE  Custodia'
  BY <1>1, <1>3, CustodiaTomar
<1>4. ASSUME NEW o \in Operaciones, NEW fila \in Fila, EfectoDevolver(o, fila)
      PROVE  Custodia'
  BY <1>1, <1>4, CustodiaDevolver
<1>5. EfectoPaso
  BY Efectos
<1>6. QED
  BY <1>1, <1>2, <1>3, <1>4, <1>5, CustodiaVender, CustodiaExpires, CustodiaSinVentas
     DEF EfectoPaso

\* The inductive invariant: types and custody together.
THEOREM Inductive == Spec => []IInv
<1>1. Init => IInv
  BY TipoInicial, CustodiaInicial DEF IInv
<1>2. IInv /\ [Next]_vars => IInv'
  BY TipoPaso, CustodiaPaso DEF IInv
<1>3. QED
  BY <1>1, <1>2, PTL DEF Spec

\* The operation, the reservation and the unit agree on who holds what, after any
\* sequence of sales, supply, inventory and takeover requests.
THEOREM StockAgrees == Spec => []StockConsistente
<1>1. IInv => StockConsistente
  BY DEF IInv, Custodia, StockConsistente
<1>2. QED
  BY <1>1, Inductive, PTL

\* No unit is held by, or sold in, two operations.
THEOREM NoDoubleSale == Spec => []UnidadDeUnaSolaVenta
<1>1. IInv => UnidadDeUnaSolaVenta
  BY DEF IInv, Custodia
<1>2. QED
  BY <1>1, Inductive, PTL

\* Sold units and closed operations correspond.
THEOREM SoldIffClosed == Spec => []VendidaEnVentaCerrada
<1>1. IInv => VendidaEnVentaCerrada
  BY DEF IInv, Custodia
<1>2. QED
  BY <1>1, Inductive, PTL

-------------------------------------------------------------------------------
(* What a step may never do *)

\* A rowVersion read before a row changed is refused afterwards, whoever changed
\* the row.
THEOREM StaleAfterChange == Spec => CambioDesactualiza
<1>1. ASSUME IInv, [Next]_vars
      PROVE  \A o \in Operaciones : operacion'[o] # operacion[o] => alDia'[o] = {}
  <2>1. ASSUME NEW o \in Operaciones, NEW fila \in Fila, PasoSinMover(o, fila)
        PROVE  \A p \in Operaciones : operacion'[p] # operacion[p] => alDia'[p] = {}
    BY <2>1 DEF IInv, TypeOK, PasoSinMover, Guardar, GuardarFilas
  <2>2. QED
    BY <1>1, <2>1, Efectos
       DEF EfectoPaso, EfectoTomar, EfectoDevolver, EfectoVender, ReservationExpires,
           EfectoSinVentas
<1>2. QED
  BY <1>1, Inductive, PTL DEF Spec, CambioDesactualiza

\* While a sale stays delivered its unit stays: any step that changes the unit
\* of an operation leaves it without one before or after, and a delivered
\* operation has one.
THEOREM DeliveredKeepsUnit == Spec => EntregadaConservaUnidad
<1>1. ASSUME IInv, [Next]_vars, NEW o \in Operaciones
      PROVE  \/ operacion'[o].unidad = operacion[o].unidad
             \/ operacion[o].unidad = Ninguna
             \/ operacion'[o].unidad = Ninguna
  <2>1. ASSUME NEW p \in Operaciones, NEW fila \in Fila, PasoSinMover(p, fila)
        PROVE  operacion'[o].unidad = operacion[o].unidad
    BY <2>1 DEF IInv, TypeOK, PasoSinMover, Guardar, GuardarFilas
  <2>2. QED
    BY <1>1, <2>1, Efectos
       DEF EfectoPaso, EfectoTomar, EfectoDevolver, EfectoVender, ReservationExpires,
           EfectoSinVentas
<1>2. ASSUME IInv, IInv', [Next]_vars
      PROVE  \A o \in Operaciones :
                operacion[o].entregada /\ operacion'[o].entregada =>
                    operacion'[o].unidad = operacion[o].unidad
  <2> SUFFICES ASSUME NEW o \in Operaciones,
                      operacion[o].entregada, operacion'[o].entregada
               PROVE  operacion'[o].unidad = operacion[o].unidad
    OBVIOUS
  <2>1. operacion[o].unidad # Ninguna
    BY <1>2 DEF IInv, Custodia, FilasValidas, FilaValida
  <2>2. operacion'[o].unidad # Ninguna
    BY <1>2 DEF IInv, Custodia, FilasValidas, FilaValida
  <2>3. QED
    BY <1>1, <1>2, <2>1, <2>2
<1>3. QED
  BY <1>2, Inductive, PTL DEF Spec, EntregadaConservaUnidad

-------------------------------------------------------------------------------
(* The tables implement leases of units *)

Posee == [o \in Operaciones |-> operacion[o].unidad]

EnPlazo == {o \in Operaciones : \E r \in reservas : r.op = o /\ Fisica(r) /\ r.vigente}

Vendidas == {u \in Unidades : unidad[u].estado = "VENDIDO"}

\* At first there is no lease, also in the initial states of the previous flow.
LEMMA ArriendoInicial == Init => Arriendo!Init
<1> SUFFICES ASSUME Init
             PROVE  Arriendo!Init
  OBVIOUS
<1>1. /\ \A o \in Operaciones : operacion[o].unidad = Ninguna
      /\ \A u \in Unidades : unidad[u].estado # "VENDIDO"
      /\ \A r \in reservas : r.destino \in Disponibilidades
  BY DEF Init, InitVacio, InitFlujoAnterior, OperacionNueva, UnidadInexistente
<1>2. \A r \in reservas : ~Fisica(r)
  BY <1>1, DestinosDisjuntos DEF Fisica
<1>3. QED
  BY <1>1, <1>2 DEF Arriendo!Init

\* Taking a unit is Tomar: whoever held it had a lease that had run out.
LEMMA TomarArrienda ==
    ASSUME IInv, TypeOK', NEW o \in Operaciones, NEW u \in Unidades, NEW estado,
           NEW vigente \in BOOLEAN, EfectoTomar(o, u, estado, vigente)
    PROVE  Arriendo!Tomar(o, u)
<1> DEFINE nueva == [op |-> o, destino |-> u, vigente |-> vigente]
<1>1. Posee[o] = Ninguna /\ u \notin Vendidas
  BY DEF EfectoTomar, Posee, Vendidas
<1>2. ASSUME NEW p \in Operaciones, Posee[p] = u
      PROVE  p \notin EnPlazo
  BY <1>2 DEF EfectoTomar, Posee, EnPlazo, IInv, Custodia, ReservaRespaldada
<1>3. Posee' = [p \in Operaciones |->
                    IF p = o THEN u ELSE IF Posee[p] = u THEN Ninguna ELSE Posee[p]]
  BY DEF EfectoTomar, Posee
<1>4. EnPlazo' \in {EnPlazo, EnPlazo \cup {o}}
  <2>1. ASSUME NEW p \in Operaciones, p # o
        PROVE  p \in EnPlazo' <=> p \in EnPlazo
    <3>1. ASSUME p \in EnPlazo'
          PROVE  p \in EnPlazo
      BY <2>1, <3>1 DEF EfectoTomar, EnPlazo, Fisica
    <3>2. ASSUME p \in EnPlazo
          PROVE  p \in EnPlazo'
      BY <3>2 DEF EfectoTomar, EnPlazo, Fisica
    <3>3. QED
      BY <3>1, <3>2
  <2>2. o \notin EnPlazo
    BY DEF EfectoTomar, EnPlazo
  <2>3. EnPlazo \subseteq Operaciones /\ EnPlazo' \subseteq Operaciones
    BY DEF EnPlazo
  <2>4. CASE o \in EnPlazo'
    <3>1. EnPlazo' = EnPlazo \cup {o}
      BY <2>1, <2>3, <2>4
    <3>2. QED
      BY <3>1
  <2>5. CASE o \notin EnPlazo'
    <3>1. EnPlazo' = EnPlazo
      BY <2>1, <2>2, <2>3, <2>5
    <3>2. QED
      BY <3>1
  <2>6. QED
    BY <2>4, <2>5
<1>5. Vendidas' = Vendidas
  BY DEF EfectoTomar, Vendidas
<1>6. QED
  BY <1>1, <1>2, <1>3, <1>4, <1>5
     DEF Arriendo!Tomar, Arriendo!Titulares, Posee, EnPlazo, Vendidas

\* Giving a unit back is Soltar.
LEMMA DevolverSuelta ==
    ASSUME IInv, NEW o \in Operaciones, NEW fila \in Fila, EfectoDevolver(o, fila)
    PROVE  Arriendo!Soltar(o)
<1> DEFINE u == operacion[o].unidad
<1>1. Posee[o] \notin Vendidas
  BY DEF EfectoDevolver, Posee, Vendidas
<1>2. Posee' = [Posee EXCEPT ![o] = Ninguna]
  BY DEF EfectoDevolver, Posee
<1>3. EnPlazo' = EnPlazo \ {o}
  <2>1. \A r \in reservas : Fisica(r) => (r.destino = u <=> r.op = o)
    BY DEF EfectoDevolver, IInv, Custodia, ReservaRespaldada
  <2>2. reservas' = {r \in reservas : r.destino # u}
    BY DEF EfectoDevolver
  <2>3. QED
    BY <2>1, <2>2 DEF EnPlazo, Fisica
<1>4. Vendidas' = Vendidas
  BY DEF EfectoDevolver, Vendidas
<1>5. QED
  BY <1>1, <1>2, <1>3, <1>4 DEF Arriendo!Soltar, Posee, EnPlazo, Vendidas

\* Closing is Vender.
LEMMA VenderVende ==
    ASSUME IInv, NEW o \in Operaciones, EfectoVender(o)
    PROVE  Arriendo!Vender(o)
<1> DEFINE u == operacion[o].unidad
<1>1. o \in EnPlazo /\ Posee[o] = u /\ u \in Unidades \ Vendidas
  BY DEF EfectoVender, Posee, EnPlazo, Vendidas, Fisica
<1>2. Posee' = Posee
  BY DEF EfectoVender, Posee
<1>3. EnPlazo' = EnPlazo \ {o}
  <2>1. \A r \in reservas : Fisica(r) => (r.destino = u <=> r.op = o)
    <3>1. \A r \in reservas : Fisica(r) => operacion[r.op].unidad = r.destino /\ r.op \in Operaciones
      BY DEF IInv, TypeOK, Reserva, Custodia, ReservaRespaldada
    <3>2. \A p \in Operaciones \ {o} : operacion[p].unidad # u
      BY DEF EfectoVender
    <3>3. QED
      BY <3>1, <3>2
  <2>2. reservas' = {r \in reservas : r.destino # u}
    BY DEF EfectoVender
  <2>3. QED
    BY <2>1, <2>2 DEF EnPlazo, Fisica
<1>4. Vendidas' = Vendidas \cup {u}
  BY DEF EfectoVender, Vendidas
<1>5. QED
  BY <1>1, <1>2, <1>3, <1>4 DEF Arriendo!Vender, Posee, EnPlazo, Vendidas

\* A reservation that expires is Vencer, or nothing when it was of a supplier.
LEMMA ExpirarVence ==
    ASSUME IInv, NEW r \in reservas, ReservationExpires(r)
    PROVE  Arriendo!Vencer(r.op) \/ UNCHANGED <<Posee, EnPlazo, Vendidas>>
<1> DEFINE vencida == [r EXCEPT !.vigente = FALSE]
<1>1. /\ r \in Reserva /\ vencida.op = r.op /\ vencida.destino = r.destino
      /\ vencida.vigente = FALSE
  BY DEF IInv, TypeOK, Reserva
<1>2. reservas' = (reservas \ {r}) \cup {vencida}
  BY DEF ReservationExpires
<1>3. Posee' = Posee /\ Vendidas' = Vendidas
  BY DEF ReservationExpires, Posee, Vendidas
<1>4. CASE Fisica(r)
  <2>1. \A q \in reservas : Fisica(q) /\ q.op = r.op => q = r
    BY <1>4 DEF IInv, Custodia, ReservaRespaldada, ReservaUnica
  <2>2. EnPlazo' = EnPlazo \ {r.op}
    BY <1>1, <1>2, <2>1 DEF EnPlazo, Fisica
  <2>3. QED
    BY <1>3, <2>2 DEF Arriendo!Vencer, Posee, EnPlazo, Vendidas
<1>5. CASE ~Fisica(r)
  <2>1. EnPlazo' = EnPlazo
    BY <1>1, <1>2, <1>5 DEF EnPlazo, Fisica
  <2>2. QED
    BY <1>3, <2>1
<1>6. QED
  BY <1>4, <1>5

\* The sales, supply and inventory handlers together implement leases: a unit is
\* taken from its holder only when the lease has run out, sold only under one
\* that has not, and never moved again once sold.
THEOREM ImplementsLease == Spec => ImplementaArriendo
<1>1. Init => Arriendo!Init
  BY ArriendoInicial
<1>2. ASSUME IInv, TypeOK', [Next]_vars
      PROVE  [Arriendo!Next]_(Arriendo!leaseVars)
  <2>1. UNCHANGED <<Posee, EnPlazo, Vendidas>> => UNCHANGED Arriendo!leaseVars
    BY DEF Posee, EnPlazo, Vendidas, Arriendo!leaseVars
  <2>2. ASSUME NEW o \in Operaciones, NEW fila \in Fila, PasoSinMover(o, fila)
        PROVE  UNCHANGED <<Posee, EnPlazo, Vendidas>>
    <3>1. Posee' = Posee
      BY <1>2, <2>2 DEF IInv, TypeOK, PasoSinMover, Guardar, GuardarFilas, Posee
    <3>2. EnPlazo' = EnPlazo
      BY <1>2, <2>2 DEF IInv, TypeOK, PasoSinMover, EnPlazo, Fisica
    <3>3. QED
      BY <2>2, <3>1, <3>2 DEF PasoSinMover, Vendidas
  <2>3. ASSUME EfectoSinVentas
        PROVE  UNCHANGED <<Posee, EnPlazo, Vendidas>>
    BY <2>3 DEF EfectoSinVentas, Posee, EnPlazo, Vendidas, Fisica
  <2>4. ASSUME NEW r \in reservas, ReservationExpires(r)
        PROVE  r.op \in Operaciones
    BY <1>2 DEF IInv, TypeOK, Reserva
  <2>5. EfectoPaso
    BY <1>2, Efectos
  <2>6. QED
    BY <1>2, <2>1, <2>2, <2>3, <2>4, <2>5, TomarArrienda, DevolverSuelta, VenderVende,
       ExpirarVence
       DEF EfectoPaso, Arriendo!Next
<1>3. IInv => TypeOK
  BY DEF IInv
<1>4. QED
  BY <1>1, <1>2, <1>3, Inductive, PTL DEF Spec, ImplementaArriendo, Arriendo!Spec

-------------------------------------------------------------------------------
(* Orders and suppliers' stock *)

\* An order that waits for an approval waits for that of a sale.
PedidoEsperaVenta ==
    \A k \in Solicitudes : solicitud[k].estado = "PENDIENTE_APROBACION" =>
        /\ solicitud[k].op \in Operaciones
        /\ operacion[solicitud[k].op].estado \notin {"NUEVA", "APROBADA", "CERRADA"}

\* The unit an order brought is in the inventory for good.
RecibidaExiste ==
    \A k \in Solicitudes : solicitud[k].recibida # Ninguna =>
        unidad[solicitud[k].recibida].estado # "INEXISTENTE"

\* What holds of orders and suppliers' stock.
Abastecimiento ==
    /\ UnidadDeLaOperacion
    /\ PedidoEsperaVenta
    /\ RecibidaExiste
    /\ DisponibilidadMaterializada
    /\ IsFiniteSet(reservas)
    /\ CapacidadRespetada

IInvPedidos == IInv /\ Abastecimiento

-------------------------------------------------------------------------------
(* The unit of an operation is of its branch and of its model *)

\* Units keep where they are and what they are.
UnidadesQuietas ==
    \A w \in Unidades : /\ unidad'[w].sucursal = unidad[w].sucursal
                        /\ unidad'[w].version = unidad[w].version

\* A row that is stored with no unit, or with one of its branch and model.
LEMMA UnidadTrasGuardar ==
    ASSUME IInv, UnidadDeLaOperacion, NEW o \in Operaciones, NEW fila \in Fila,
           Guardar(o, fila), UnidadesQuietas,
           fila.unidad # Ninguna => /\ unidad[fila.unidad].sucursal = fila.sucursal
                                    /\ unidad[fila.unidad].version = fila.version
    PROVE  UnidadDeLaOperacion'
<1>1. /\ operacion'[o] = fila
      /\ \A p \in Operaciones \ {o} : operacion'[p] = operacion[p]
  BY DEF IInv, TypeOK, Guardar, GuardarFilas
<1>2. fila.unidad \in Unidades \cup {Ninguna}
  BY DEF Fila
<1>3. \A p \in Operaciones : operacion[p].unidad \in Unidades \cup {Ninguna}
  BY DEF IInv, TypeOK, Fila
<1>4. ASSUME NEW p \in Operaciones, operacion'[p].unidad # Ninguna
      PROVE  /\ unidad'[operacion'[p].unidad].sucursal = operacion'[p].sucursal
             /\ unidad'[operacion'[p].unidad].version = operacion'[p].version
  BY <1>1, <1>2, <1>3, <1>4 DEF UnidadDeLaOperacion, UnidadesQuietas
<1>5. QED
  BY <1>4 DEF UnidadDeLaOperacion

\* Taking a unit looks at its branch and its model.
LEMMA UnidadTrasReservar ==
    ASSUME IInv, UnidadDeLaOperacion, NEW o \in Operaciones, NEW u \in Unidades,
           NEW fila \in Fila, NEW libera, reserveUnit(o, u, fila, libera)
    PROVE  UnidadDeLaOperacion'
<1>1. UnidadesQuietas
  BY DEF IInv, TypeOK, Unidad, reserveUnit, UnidadesQuietas
<1>2. /\ unidad[u].sucursal = fila.sucursal
      /\ unidad[u].version = fila.version
      /\ operacion' = FilasAlReservar(o, u, fila)
  BY DEF reserveUnit, GuardarFilas
<1>3. \A p \in Operaciones : operacion[p] \in Fila
  BY DEF IInv, TypeOK
<1>4. /\ operacion'[o].unidad = u
      /\ operacion'[o].sucursal = fila.sucursal
      /\ operacion'[o].version = fila.version
  BY <1>2 DEF FilasAlReservar, Fila
<1>5. ASSUME NEW p \in Operaciones \ {o}, operacion'[p].unidad # Ninguna
      PROVE  operacion'[p] = operacion[p] /\ operacion[p].unidad \in Unidades
  BY <1>2, <1>3, <1>5 DEF FilasAlReservar, Fila
<1>6. ASSUME NEW p \in Operaciones, operacion'[p].unidad # Ninguna
      PROVE  /\ unidad'[operacion'[p].unidad].sucursal = operacion'[p].sucursal
             /\ unidad'[operacion'[p].unidad].version = operacion'[p].version
  BY <1>1, <1>2, <1>4, <1>5, <1>6 DEF UnidadDeLaOperacion, UnidadesQuietas
<1>7. QED
  BY <1>6 DEF UnidadDeLaOperacion

\* Giving a reservation back, or not having one, moves no unit.
LEMMA SoltarNoMueve ==
    ASSUME IInv, NEW o \in Operaciones, SoltarReserva(o)
    PROVE  UnidadesQuietas
<1>1. CASE UNCHANGED unidad
  BY <1>1 DEF UnidadesQuietas
<1>2. ASSUME NEW r \in Activas(o), releaseActiveReservation(o, r)
      PROVE  UnidadesQuietas
  BY <1>2 DEF IInv, TypeOK, Unidad, releaseActiveReservation, UnidadesQuietas
<1>3. QED
  BY <1>1, <1>2 DEF SoltarReserva

\* Every handler of the sales endpoints keeps the unit of its operation in the
\* branch and of the model of the operation.
LEMMA UnidadVentas ==
    ASSUME IInv, UnidadDeLaOperacion, NextVentas
    PROVE  UnidadDeLaOperacion'
<1>0. PICK o \in Operaciones :
           \/ Create(o)
           \/ \E s \in Sucursales : UpdateDraft(o, s)
           \/ \E b \in BOOLEAN : UpdateDelivery(o, b)
           \/ EditPaymentSide(o)
           \/ updateLicensing(o)
           \/ \E v \in Versiones, b \in BOOLEAN : correct(o, v, b)
           \/ \E u \in Unidades : assignUnit(o, u)
           \/ \E k \in Solicitudes : requestSupply(o, k)
           \/ \E u \in Unidades : Reserve(o, u)
           \/ ReleaseReservation(o)
           \/ \E e \in {"PENDIENTE_APROBACION", "APROBADA"} : Submit(o, e)
           \/ Approve(o)
           \/ Reject(o)
           \/ Cancel(o)
           \/ Close(o)
  BY DEF NextVentas
<1> DEFINE fila == operacion[o]
<1>1. /\ fila \in Fila
      /\ fila.estado = "NUEVA" => fila.unidad = Ninguna
      /\ fila.unidad # Ninguna => /\ unidad[fila.unidad].sucursal = fila.sucursal
                                  /\ unidad[fila.unidad].version = fila.version
  BY DEF IInv, TypeOK, Custodia, FueraDeCursoSinUnidad, UnidadDeLaOperacion
<1>2. UNCHANGED unidad => UnidadesQuietas
  BY DEF UnidadesQuietas
\* The row is stored with the unit, the branch and the model it had, or with
\* no unit.
<1>3. ASSUME NEW f \in Fila, Guardar(o, f), UnidadesQuietas,
             f.unidad = Ninguna \/ ( /\ f.unidad = fila.unidad
                                     /\ f.sucursal = fila.sucursal
                                     /\ f.version = fila.version )
      PROVE  UnidadDeLaOperacion'
  BY <1>1, <1>3, UnidadTrasGuardar
<1> HIDE DEF fila
<1>4. ASSUME NEW s \in Sucursales, NEW v \in Versiones, NEW e \in EstadosAlCrear
      PROVE  /\ CreateWithoutUnit(o, s, v, e) => UnidadDeLaOperacion'
             /\ \A u \in Unidades : CreateWithUnit(o, s, v, e, u) => UnidadDeLaOperacion'
             /\ \A a \in Disponibilidades, k \in Solicitudes :
                   CreateWithAvailability(o, s, v, e, a, k) => UnidadDeLaOperacion'
  <2> DEFINE f == Nueva(o, s, v, e)
  <2>1. f \in Fila /\ f.unidad = fila.unidad
    BY <1>1 DEF fila, Nueva, Fila, EstadosAlCrear, EstadoOperacion
  <2>2. ~ Existe(o) => f.unidad = Ninguna
    BY <1>1, <2>1 DEF fila, Existe
  <2> HIDE DEF f
  <2>3. CreateWithoutUnit(o, s, v, e) => UnidadDeLaOperacion'
    BY <1>2, <1>3, <2>1, <2>2 DEF f, CreateWithoutUnit
  <2>4. \A u \in Unidades : CreateWithUnit(o, s, v, e, u) => UnidadDeLaOperacion'
    BY <2>1, UnidadTrasReservar DEF f, CreateWithUnit
  <2>5. \A a \in Disponibilidades, k \in Solicitudes :
           CreateWithAvailability(o, s, v, e, a, k) => UnidadDeLaOperacion'
    BY <1>2, <1>3, <2>1, <2>2 DEF f, CreateWithAvailability
  <2>6. QED
    BY <2>3, <2>4, <2>5
<1>5. Create(o) => UnidadDeLaOperacion'
  BY <1>4 DEF Create
<1>6. ASSUME NEW s \in Sucursales, UpdateDraft(o, s)
      PROVE  UnidadDeLaOperacion'
  <2> DEFINE f == [operacion[o] EXCEPT !.estado = "BORRADOR", !.sucursal = s,
                                       !.unidad = UnidadTrasEditar(o)]
  <2>1. UnidadTrasEditar(o) \in {Ninguna, fila.unidad}
    BY DEF fila, UnidadTrasEditar
  <2>2. /\ f \in Fila /\ f.unidad = UnidadTrasEditar(o)
        /\ f.sucursal = s /\ f.version = fila.version
    BY <1>1, <2>1 DEF fila, Fila, EstadoOperacion
  <2>3. s # fila.sucursal => UnidadTrasEditar(o) = Ninguna
    BY <1>6 DEF fila, UpdateDraft, UnidadTrasEditar
  <2>4. Guardar(o, f) /\ UNCHANGED unidad
    BY <1>6 DEF UpdateDraft
  <2> HIDE DEF f
  <2>5. QED
    BY <1>2, <1>3, <2>1, <2>2, <2>3, <2>4
<1>7. ASSUME NEW b \in BOOLEAN, UpdateDelivery(o, b)
      PROVE  UnidadDeLaOperacion'
  <2> DEFINE f == [operacion[o] EXCEPT !.entregada = b, !.unidad = UnidadTrasEditar(o)]
  <2>1. UnidadTrasEditar(o) \in {Ninguna, fila.unidad}
    BY DEF fila, UnidadTrasEditar
  <2>2. /\ f \in Fila /\ f.unidad = UnidadTrasEditar(o)
        /\ f.sucursal = fila.sucursal /\ f.version = fila.version
    BY <1>1, <2>1 DEF fila, Fila
  <2>3. Guardar(o, f) /\ UNCHANGED unidad
    BY <1>7 DEF UpdateDelivery
  <2> HIDE DEF f
  <2>4. QED
    BY <1>2, <1>3, <2>1, <2>2, <2>3
\* Handlers that only write the state of the operation.
<1>8. ASSUME NEW e \in EstadoOperacion, UnidadesQuietas,
             Guardar(o, [operacion[o] EXCEPT !.estado = e])
      PROVE  UnidadDeLaOperacion'
  <2> DEFINE f == [operacion[o] EXCEPT !.estado = e]
  <2>1. /\ f \in Fila /\ f.unidad = fila.unidad
        /\ f.sucursal = fila.sucursal /\ f.version = fila.version
    BY <1>1 DEF fila, Fila
  <2>2. QED
    BY <1>3, <1>8, <2>1
<1>9. ASSUME UNCHANGED unidad, Guardar(o, operacion[o])
      PROVE  UnidadDeLaOperacion'
  BY <1>1, <1>2, <1>3, <1>9 DEF fila
<1>10. EditPaymentSide(o) => UnidadDeLaOperacion'
  <2>1. "BORRADOR" \in EstadoOperacion
    BY DEF EstadoOperacion
  <2>2. QED
    BY <1>2, <1>8, <1>9, <2>1 DEF EditPaymentSide
<1>11. updateLicensing(o) => UnidadDeLaOperacion'
  BY <1>9 DEF updateLicensing
<1>12. ASSUME NEW v \in Versiones, NEW b \in BOOLEAN, correct(o, v, b)
       PROVE  UnidadDeLaOperacion'
  <2> DEFINE f == [operacion[o] EXCEPT !.version = v, !.entregada = b]
  <2>1. /\ f \in Fila /\ f.unidad = fila.unidad
        /\ f.sucursal = fila.sucursal /\ f.version = v
    BY <1>1 DEF fila, Fila
  <2>2. v # fila.version /\ fila.unidad # Ninguna => unidad[fila.unidad].version = v
    BY <1>12 DEF fila, correct, VersionCorregible
  <2>3. Guardar(o, f) /\ UNCHANGED unidad
    BY <1>12 DEF correct
  <2> HIDE DEF f
  <2>4. QED
    BY <1>1, <1>2, <2>1, <2>2, <2>3, UnidadTrasGuardar
<1>13. ASSUME NEW u \in Unidades, assignUnit(o, u) \/ Reserve(o, u)
       PROVE  UnidadDeLaOperacion'
  <2>1. [operacion[o] EXCEPT !.estado = "BORRADOR"] \in Fila
    BY <1>1 DEF fila, Fila, EstadoOperacion
  <2>2. PICK f \in Fila : reserveUnit(o, u, f, Activas(o))
    BY <1>1, <1>13, <2>1 DEF fila, assignUnit, Reserve
  <2>3. QED
    BY <2>2, UnidadTrasReservar
<1>14. ASSUME NEW k \in Solicitudes, requestSupply(o, k)
       PROVE  UnidadDeLaOperacion'
  BY <1>9, <1>14 DEF requestSupply
<1>15. ASSUME NEW f \in Fila, f.unidad = Ninguna, SoltarReserva(o), Guardar(o, f)
       PROVE  UnidadDeLaOperacion'
  BY <1>3, <1>15, SoltarNoMueve
<1>16. ReleaseReservation(o) => UnidadDeLaOperacion'
  <2>1. /\ [operacion[o] EXCEPT !.unidad = Ninguna] \in Fila
        /\ [operacion[o] EXCEPT !.unidad = Ninguna].unidad = Ninguna
    BY <1>1 DEF fila, Fila
  <2>2. QED
    BY <1>15, <2>1 DEF ReleaseReservation
<1>17. ASSUME NEW e \in {"RECHAZADA", "CANCELADA"}, Abandonar(o, e)
       PROVE  UnidadDeLaOperacion'
  <2>1. /\ [operacion[o] EXCEPT !.estado = e, !.unidad = Ninguna] \in Fila
        /\ [operacion[o] EXCEPT !.estado = e, !.unidad = Ninguna].unidad = Ninguna
    BY <1>1 DEF fila, Fila, EstadoOperacion
  <2>2. QED
    BY <1>15, <1>17, <2>1 DEF Abandonar
<1>18. Reject(o) \/ Cancel(o) => UnidadDeLaOperacion'
  BY <1>17 DEF Reject, Cancel
<1>19. ASSUME NEW e \in {"PENDIENTE_APROBACION", "APROBADA"}, Submit(o, e)
       PROVE  UnidadDeLaOperacion'
  BY <1>2, <1>8, <1>19 DEF Submit, EstadoOperacion
<1>20. Approve(o) => UnidadDeLaOperacion'
  BY <1>2, <1>8 DEF Approve, EstadoOperacion
<1>21. Close(o) => UnidadDeLaOperacion'
  <2>1. Close(o) => UnidadesQuietas
    BY DEF IInv, TypeOK, Unidad, Close, UnidadesQuietas
  <2>2. QED
    BY <1>8, <2>1 DEF Close, EstadoOperacion
<1>22. QED
  BY <1>0, <1>5, <1>6, <1>7, <1>10, <1>11, <1>12, <1>13, <1>14, <1>16, <1>18, <1>19,
     <1>20, <1>21

\* Units move, arrive and change by hand only while nobody holds them.
LEMMA UnidadPaso ==
    ASSUME IInv, UnidadDeLaOperacion, [Next]_vars
    PROVE  UnidadDeLaOperacion'
<1>1. \A p \in Operaciones : operacion[p].unidad # Ninguna =>
          /\ operacion[p].unidad \in Unidades
          /\ unidad[operacion[p].unidad].estado \in {"RESERVADO", "VENDIDO"}
  <2>1. \A p \in Operaciones : operacion[p].unidad # Ninguna =>
            operacion[p].unidad \in Unidades
    BY DEF IInv, TypeOK, Fila
  <2>2. QED
    BY <2>1 DEF IInv, Custodia, OperacionConReserva, ReservaRespaldada, Activas, Fisica
<1>2. ASSUME UNCHANGED operacion,
             \A w \in Unidades :
                 \/ unidad[w].estado \notin {"RESERVADO", "VENDIDO"}
                 \/ unidad'[w] = unidad[w]
      PROVE  UnidadDeLaOperacion'
  BY <1>1, <1>2 DEF UnidadDeLaOperacion
<1>3. ASSUME NEW k \in Solicitudes, NEW o \in Operaciones, NEW u \in Unidades,
             NEW b \in BOOLEAN, ReceiveForOperation(k, o, u, b)
      PROVE  UnidadDeLaOperacion'
  <2> DEFINE f == [operacion[o] EXCEPT !.unidad = u]
  <2>1. f \in Fila /\ f.unidad = u /\ f.sucursal = operacion[o].sucursal
                   /\ f.version = operacion[o].version
    BY DEF IInv, TypeOK, Fila
  <2>2. Guardar(o, f) /\ PuedeRecibir(o, k) /\ unidad[u].estado = "INEXISTENTE"
    BY <1>3 DEF ReceiveForOperation
  <2>3. /\ unidad'[u] = UnidadRecibida(k, "RESERVADO")
        /\ \A w \in Unidades \ {u} : unidad'[w] = unidad[w]
    BY <1>3 DEF IInv, TypeOK, ReceiveForOperation
  <2>4. unidad'[u].sucursal = f.sucursal /\ unidad'[u].version = f.version
    BY <2>1, <2>2, <2>3 DEF UnidadRecibida, PuedeRecibir
  <2>5. /\ operacion'[o] = f
        /\ \A p \in Operaciones \ {o} : operacion'[p] = operacion[p]
    BY <2>2 DEF IInv, TypeOK, Guardar, GuardarFilas
  <2> HIDE DEF f
  <2>6. ASSUME NEW p \in Operaciones, operacion'[p].unidad # Ninguna
        PROVE  /\ unidad'[operacion'[p].unidad].sucursal = operacion'[p].sucursal
               /\ unidad'[operacion'[p].unidad].version = operacion'[p].version
    <3>1. CASE p = o
      BY <2>1, <2>4, <2>5, <3>1
    <3>2. CASE p # o
      <4>1. operacion[p].unidad \in Unidades \ {u} /\ operacion'[p] = operacion[p]
        BY <1>1, <2>2, <2>5, <2>6, <3>2
      <4>2. QED
        BY <2>3, <2>6, <4>1 DEF UnidadDeLaOperacion
    <3>3. QED
      BY <3>1, <3>2
  <2>7. QED
    BY <2>6 DEF UnidadDeLaOperacion
<1>4. ASSUME NEW k \in Solicitudes, NEW u \in Unidades, ReceiveForStock(k, u)
      PROVE  UnidadDeLaOperacion'
  BY <1>2, <1>4 DEF IInv, TypeOK, ReceiveForStock
<1>5. ASSUME NEW u \in Unidades, NEW s \in Sucursales, NEW v \in Versiones,
             CreateUnit(u, s, v)
      PROVE  UnidadDeLaOperacion'
  BY <1>2, <1>5 DEF IInv, TypeOK, CreateUnit
<1>6. ASSUME NEW u \in Unidades, NEW e \in manuallyManagedStatuses, UpdateUnitStatus(u, e)
      PROVE  UnidadDeLaOperacion'
  BY <1>2, <1>6 DEF IInv, TypeOK, UpdateUnitStatus, manuallyManagedStatuses
<1>7. ASSUME NEW u \in Unidades, NEW s \in Sucursales, Transfer(u, s)
      PROVE  UnidadDeLaOperacion'
  BY <1>2, <1>7 DEF IInv, TypeOK, Transfer
<1>8. CASE UNCHANGED <<operacion, unidad>>
  BY <1>2, <1>8
<1>9. NextAbastecimiento => UnidadDeLaOperacion'
  BY <1>3, <1>4, <1>5, <1>6, <1>7, <1>8
     DEF NextAbastecimiento, CreateSupply, Transition, UpsertAvailability
<1>10. NextEntorno => UnidadDeLaOperacion'
  BY <1>8 DEF NextEntorno, ReadOperation, ReservationExpires, AvailabilityExpires
<1>11. QED
  BY <1>8, <1>9, <1>10, UnidadVentas DEF Next, vars


-------------------------------------------------------------------------------
(* What a step is to the orders, to the states of the sales and to the
   suppliers' stock *)

\* An order moves on, is placed, or arrives once with a unit that was not in
\* the inventory.
EfectoPedido(k) ==
    \/ solicitud'[k] = solicitud[k]
    \/ /\ solicitud[k].estado # "INEXISTENTE"
       /\ solicitud'[k].estado \notin {"INEXISTENTE", "PENDIENTE_APROBACION"}
       /\ solicitud'[k].op = solicitud[k].op
       /\ solicitud'[k].disp = solicitud[k].disp
       /\ solicitud'[k].recibida = solicitud[k].recibida
    \/ /\ solicitud[k].estado = "INEXISTENTE"
       /\ solicitud'[k].estado # "INEXISTENTE"
       /\ solicitud'[k].recibida = Ninguna
       /\ solicitud'[k].estado = "PENDIENTE_APROBACION" =>
             /\ solicitud'[k].op \in Operaciones
             /\ operacion'[solicitud'[k].op].estado
                   \notin {"NUEVA", "APROBADA", "CERRADA"}
    \/ /\ solicitud[k].recibida = Ninguna
       /\ solicitud[k].estado # "INEXISTENTE"
       /\ solicitud'[k].estado \notin {"INEXISTENTE", "PENDIENTE_APROBACION"}
       /\ solicitud'[k].op = solicitud[k].op
       /\ solicitud'[k].disp = solicitud[k].disp
       /\ solicitud'[k].recibida \in Unidades
       /\ unidad[solicitud'[k].recibida].estado = "INEXISTENTE"
       /\ unidad'[solicitud'[k].recibida].estado # "INEXISTENTE"

\* A sale that no order may wait for comes from one, or takes its orders with it.
EfectoEstado(p) ==
    \/ operacion'[p].estado \notin {"NUEVA", "APROBADA", "CERRADA"}
    \/ operacion[p].estado \in {"NUEVA", "APROBADA", "CERRADA"}
    \/ \A k \in Pedidos(p) : solicitud'[k].estado # "PENDIENTE_APROBACION"

\* At most one reservation is new, of a unit or of what a supplier still has.
EfectoReservas ==
    \/ reservas' \subseteq reservas
    \/ \E x \in Reserva : /\ reservas' \subseteq reservas \cup {x}
                          /\ Fisica(x) \/ HayCapacidad(x.destino)

\* A promise of a supplier's stock that is left is of a sale without unit, or is an
\* old one of a sale with the unit it had.
EfectoPromesas ==
    \A r \in reservas' : ~ Fisica(r) =>
        \/ operacion'[r.op].unidad = Ninguna
        \/ /\ operacion'[r.op].unidad = operacion[r.op].unidad
           /\ \E q \in reservas : q.op = r.op /\ q.destino = r.destino

\* The four together.
EfectoVentas ==
    /\ UNCHANGED disponibilidad
    /\ \A k \in Solicitudes : EfectoPedido(k)
    /\ \A p \in Operaciones : EfectoEstado(p)
    /\ EfectoReservas
    /\ EfectoPromesas

\* Taking a unit leaves the buyer no promise and the displaced one no unit.
LEMMA ReservarEfecto ==
    ASSUME IInv, NEW o \in Operaciones, NEW u \in Unidades, NEW fila \in Fila,
           NEW libera, reserveUnit(o, u, fila, libera),
           \A r \in libera : r.op = o,
           \/ fila.estado \notin {"NUEVA", "APROBADA", "CERRADA"}
           \/ operacion[o].estado \in {"NUEVA", "APROBADA", "CERRADA"}
    PROVE  /\ EfectoReservas
           /\ EfectoPromesas
           /\ \A p \in Operaciones : EfectoEstado(p)
<1>1. operacion' = FilasAlReservar(o, u, fila)
  BY DEF reserveUnit, GuardarFilas
<1>2. /\ operacion'[o].estado = fila.estado
      /\ \A p \in Operaciones \ {o} :
            /\ operacion'[p].estado = operacion[p].estado
            /\ operacion'[p].unidad \in {Ninguna, operacion[p].unidad}
  BY <1>1 DEF FilasAlReservar, Fila, IInv, TypeOK
<1>3. \A p \in Operaciones : EfectoEstado(p)
  BY <1>2 DEF EfectoEstado
<1>4. /\ [op |-> o, destino |-> u, vigente |-> TRUE] \in Reserva
      /\ Fisica([op |-> o, destino |-> u, vigente |-> TRUE])
  BY DEF Reserva, Fisica
<1>5. EfectoReservas
  BY <1>4 DEF reserveUnit, EfectoReservas
<1>6. ASSUME NEW r \in reservas', ~ Fisica(r)
      PROVE  r \in reservas /\ r.op # o
  BY <1>4, <1>6 DEF reserveUnit, Activas
<1>7. EfectoPromesas
  BY <1>2, <1>6 DEF EfectoPromesas, IInv, TypeOK, Reserva
<1>8. QED
  BY <1>3, <1>5, <1>7

\* Storing one row changes the state of that operation only.
LEMMA GuardarEfecto ==
    ASSUME IInv, NEW o \in Operaciones, NEW fila \in Fila, Guardar(o, fila),
           fila.unidad \in {Ninguna, operacion[o].unidad},
           reservas' \subseteq reservas,
           \/ fila.estado \notin {"NUEVA", "APROBADA", "CERRADA"}
           \/ operacion[o].estado \in {"NUEVA", "APROBADA", "CERRADA"}
           \/ \A k \in Pedidos(o) : solicitud'[k].estado # "PENDIENTE_APROBACION"
    PROVE  /\ EfectoReservas
           /\ EfectoPromesas
           /\ \A p \in Operaciones : EfectoEstado(p)
<1>1. /\ operacion'[o] = fila
      /\ \A p \in Operaciones \ {o} : operacion'[p] = operacion[p]
  BY DEF IInv, TypeOK, Guardar, GuardarFilas
<1>2. \A p \in Operaciones : EfectoEstado(p)
  BY <1>1 DEF EfectoEstado
<1>3. EfectoPromesas
  BY <1>1 DEF EfectoPromesas, IInv, TypeOK, Reserva
<1>4. QED
  BY <1>2, <1>3 DEF EfectoReservas

\* Orders that are cancelled, set going or assigned keep what they are about.
LEMMA PedidosEfecto ==
    ASSUME TypeOK, NEW o
    PROVE  /\ solicitud' = SinPedidosEnCurso(o) =>
                 \A k \in Solicitudes : EfectoPedido(k)
           /\ solicitud' = PedidosAprobados(o) =>
                 /\ \A k \in Solicitudes : EfectoPedido(k)
                 /\ \A k \in Pedidos(o) : solicitud'[k].estado # "PENDIENTE_APROBACION"
           /\ \A u, r, j : materializeProviderReservation(o, u, r, j) =>
                 \A k \in Solicitudes : EfectoPedido(k)
           /\ UNCHANGED solicitud => \A k \in Solicitudes : EfectoPedido(k)
<1>1. \A k \in Solicitudes : solicitud[k] \in Solicitud
  BY DEF TypeOK
<1>2. ASSUME NEW k \in Solicitudes, NEW e \in EstadoSolicitud,
             solicitud[k].estado # "INEXISTENTE",
             e \notin {"INEXISTENTE", "PENDIENTE_APROBACION"},
             solicitud'[k] = [solicitud[k] EXCEPT !.estado = e]
      PROVE  EfectoPedido(k) /\ solicitud'[k].estado # "PENDIENTE_APROBACION"
  BY <1>1, <1>2 DEF EfectoPedido, Solicitud
<1>3. ASSUME solicitud' = SinPedidosEnCurso(o)
      PROVE  \A k \in Solicitudes : EfectoPedido(k)
  <2> SUFFICES ASSUME NEW k \in Solicitudes, solicitud'[k] # solicitud[k]
               PROVE  EfectoPedido(k)
    BY DEF EfectoPedido
  <2>1. /\ solicitud[k].estado \in EnCursoEstados
        /\ solicitud'[k] = [solicitud[k] EXCEPT !.estado = "CANCELADA"]
    BY <1>3 DEF SinPedidosEnCurso
  <2>2. QED
    BY <1>2, <2>1, ZenonT(30) DEF EnCursoEstados, EstadoSolicitud
<1>4. ASSUME solicitud' = PedidosAprobados(o), NEW k \in Solicitudes
      PROVE  /\ EfectoPedido(k)
             /\ k \in Pedidos(o) => solicitud'[k].estado # "PENDIENTE_APROBACION"
  <2>1. CASE solicitud'[k] # solicitud[k]
    <3>1. /\ solicitud[k].estado = "PENDIENTE_APROBACION"
          /\ solicitud'[k] = [solicitud[k] EXCEPT !.estado = "PENDIENTE_CONFIRMACION"]
      BY <1>4, <2>1 DEF PedidosAprobados
    <3>2. "PENDIENTE_CONFIRMACION" \in EstadoSolicitud
      BY DEF EnCursoEstados, EstadoSolicitud
    <3>3. EfectoPedido(k) /\ solicitud'[k].estado # "PENDIENTE_APROBACION"
      BY <1>2, <3>1, <3>2
    <3>4. QED
      BY <3>3
  <2>2. CASE solicitud'[k] = solicitud[k]
    <3>1. ASSUME k \in Pedidos(o), solicitud[k].estado = "PENDIENTE_APROBACION"
          PROVE  FALSE
      BY <1>1, <1>4, <2>2, <3>1 DEF PedidosAprobados, Solicitud
    <3>2. QED
      BY <2>2, <3>1 DEF EfectoPedido
  <2>3. QED
    BY <2>1, <2>2
<1>5. ASSUME NEW u, NEW r, NEW j, materializeProviderReservation(o, u, r, j),
             NEW k \in Solicitudes
      PROVE  EfectoPedido(k)
  <2>1. /\ solicitud[j].estado = "RECIBIDO"
        /\ solicitud' = [solicitud EXCEPT ![j].estado = "ASIGNADO"]
    BY <1>5 DEF materializeProviderReservation
  <2>2. CASE k = j
    <3>1. solicitud'[k] = [solicitud[k] EXCEPT !.estado = "ASIGNADO"]
      BY <2>1, <2>2 DEF TypeOK
    <3>2. QED
      BY <1>2, <2>1, <2>2, <3>1 DEF EstadoSolicitud
  <2>3. CASE k # j
    BY <2>1, <2>3 DEF TypeOK, EfectoPedido
  <2>4. QED
    BY <2>2, <2>3
<1>6. UNCHANGED solicitud => \A k \in Solicitudes : EfectoPedido(k)
  BY DEF EfectoPedido
<1>7. QED
  BY <1>3, <1>4, <1>5, <1>6 DEF Pedidos


\* A new sale is saved, with a unit, with the promise of one and the order for
\* it, or with neither.
LEMMA CreateEfecto ==
    ASSUME IInv, NEW o \in Operaciones, Create(o)
    PROVE  EfectoVentas
<1>0. PICK s \in Sucursales, v \in Versiones, e \in EstadosAlCrear :
        \/ CreateWithoutUnit(o, s, v, e)
        \/ \E u \in Unidades : CreateWithUnit(o, s, v, e, u)
        \/ \E a \in Disponibilidades, k \in Solicitudes :
              CreateWithAvailability(o, s, v, e, a, k)
  BY DEF Create
<1> DEFINE f == Nueva(o, s, v, e)
<1>1. ~ Existe(o)
  BY <1>0 DEF CreateWithoutUnit, CreateWithUnit, CreateWithAvailability
<1>2. operacion[o].estado = "NUEVA" /\ operacion[o].unidad = Ninguna
  BY <1>1 DEF Existe, IInv, Custodia, FueraDeCursoSinUnidad
<1>3. f \in Fila /\ f.unidad = Ninguna /\ f.estado = e
  BY <1>2 DEF IInv, TypeOK, Nueva, Fila, EstadosAlCrear, EstadoOperacion
<1> HIDE DEF f
<1>4. CASE CreateWithoutUnit(o, s, v, e)
  <2>1. Guardar(o, f) /\ UNCHANGED <<unidad, reservas, solicitud, disponibilidad>>
    BY <1>4 DEF f, CreateWithoutUnit
  <2>2. EfectoReservas /\ EfectoPromesas /\ \A p \in Operaciones : EfectoEstado(p)
    BY <1>2, <1>3, <2>1, GuardarEfecto
  <2>3. QED
    BY <2>1, <2>2, PedidosEfecto DEF EfectoVentas, IInv
<1>5. ASSUME NEW u \in Unidades, CreateWithUnit(o, s, v, e, u)
      PROVE  EfectoVentas
  <2>1. reserveUnit(o, u, f, {}) /\ UNCHANGED <<solicitud, disponibilidad>>
    BY <1>5 DEF f, CreateWithUnit
  <2>2. EfectoReservas /\ EfectoPromesas /\ \A p \in Operaciones : EfectoEstado(p)
    BY <1>2, <1>3, <2>1, ReservarEfecto
  <2>3. QED
    BY <2>1, <2>2, PedidosEfecto DEF EfectoVentas, IInv
<1>6. ASSUME NEW a \in Disponibilidades, NEW k \in Solicitudes,
             CreateWithAvailability(o, s, v, e, a, k)
      PROVE  EfectoVentas
  <2> DEFINE x == [op |-> o, destino |-> a, vigente |-> TRUE]
             j == [estado |-> IF e = "APROBADA" THEN "PENDIENTE_CONFIRMACION"
                                                ELSE "PENDIENTE_APROBACION",
                   op |-> o, disp |-> a, sucursal |-> s, version |-> v,
                   recibida |-> Ninguna]
  <2>1. /\ Guardar(o, f) /\ UNCHANGED disponibilidad
        /\ reservas' = reservas \cup {x}
        /\ solicitud' = [solicitud EXCEPT ![k] = j]
        /\ solicitud[k].estado = "INEXISTENTE"
        /\ HayCapacidad(a)
    BY <1>6 DEF f, CreateWithAvailability
  <2>2. x \in Reserva /\ x.destino = a /\ x.op = o
    BY DEF Reserva
  <2>3. /\ j.estado # "INEXISTENTE" /\ j.recibida = Ninguna /\ j.op = o
        /\ j.estado = "PENDIENTE_APROBACION" => e # "APROBADA"
    OBVIOUS
  <2> HIDE DEF x, j
  <2>4. /\ operacion'[o] = f
        /\ \A p \in Operaciones \ {o} : operacion'[p] = operacion[p]
    BY <2>1 DEF IInv, TypeOK, Guardar, GuardarFilas
  <2>5. \A p \in Operaciones : EfectoEstado(p)
    BY <1>2, <2>4 DEF EfectoEstado
  <2>6. EfectoReservas
    BY <2>1, <2>2 DEF EfectoReservas
  <2>7. EfectoPromesas
    BY <1>3, <2>1, <2>2, <2>4 DEF EfectoPromesas, IInv, TypeOK, Reserva
  <2>8. EfectoPedido(k)
    <3>1. solicitud'[k] = j
      BY <2>1 DEF IInv, TypeOK
    <3>2. e # "APROBADA" => f.estado \notin {"NUEVA", "APROBADA", "CERRADA"}
      BY <1>3 DEF EstadosAlCrear
    <3>3. QED
      BY <2>1, <2>3, <2>4, <3>1, <3>2 DEF EfectoPedido
  <2>9. \A i \in Solicitudes \ {k} : EfectoPedido(i)
    BY <2>1 DEF EfectoPedido, IInv, TypeOK
  <2>10. QED
    BY <2>1, <2>5, <2>6, <2>7, <2>8, <2>9 DEF EfectoVentas
<1>7. QED
  BY <1>0, <1>4, <1>5, <1>6

\* Handlers that only store the row of their operation.
LEMMA EdicionEfecto ==
    ASSUME IInv, NEW o \in Operaciones,
           \/ \E s \in Sucursales : UpdateDraft(o, s)
           \/ \E b \in BOOLEAN : UpdateDelivery(o, b)
           \/ EditPaymentSide(o)
           \/ updateLicensing(o)
           \/ \E v \in Versiones, b \in BOOLEAN : correct(o, v, b)
           \/ Close(o)
    PROVE  EfectoVentas
<1> DEFINE fila == operacion[o]
<1>1. fila \in Fila
  BY DEF IInv, TypeOK
<1>2. ASSUME NEW f \in Fila, Guardar(o, f), f.unidad \in {Ninguna, fila.unidad},
             reservas' \subseteq reservas, UNCHANGED <<solicitud, disponibilidad>>,
             \/ f.estado \in {"BORRADOR", fila.estado}
             \/ fila.estado = "APROBADA"
      PROVE  EfectoVentas
  <2>1. \/ f.estado \notin {"NUEVA", "APROBADA", "CERRADA"}
        \/ fila.estado \in {"NUEVA", "APROBADA", "CERRADA"}
    BY <1>2
  <2>2. EfectoReservas /\ EfectoPromesas /\ \A p \in Operaciones : EfectoEstado(p)
    BY <1>2, <2>1, GuardarEfecto
  <2>3. QED
    BY <1>2, <2>2, PedidosEfecto DEF EfectoVentas, IInv
<1>3. UnidadTrasEditar(o) \in {Ninguna, fila.unidad}
  BY DEF UnidadTrasEditar
<1> HIDE DEF fila
<1>4. ASSUME NEW s \in Sucursales, UpdateDraft(o, s)
      PROVE  EfectoVentas
  <2> DEFINE f == [operacion[o] EXCEPT !.estado = "BORRADOR", !.sucursal = s,
                                       !.unidad = UnidadTrasEditar(o)]
  <2>1. f \in Fila /\ f.estado = "BORRADOR" /\ f.unidad \in {Ninguna, fila.unidad}
    BY <1>1, <1>3 DEF fila, Fila, EstadoOperacion
  <2>2. Guardar(o, f) /\ UNCHANGED <<reservas, solicitud, disponibilidad>>
    BY <1>4 DEF UpdateDraft
  <2> HIDE DEF f
  <2>3. QED
    BY <1>2, <2>1, <2>2
<1>5. ASSUME NEW b \in BOOLEAN, UpdateDelivery(o, b)
      PROVE  EfectoVentas
  <2> DEFINE f == [operacion[o] EXCEPT !.entregada = b, !.unidad = UnidadTrasEditar(o)]
  <2>1. f \in Fila /\ f.estado = fila.estado /\ f.unidad \in {Ninguna, fila.unidad}
    BY <1>1, <1>3 DEF fila, Fila
  <2>2. Guardar(o, f) /\ UNCHANGED <<reservas, solicitud, disponibilidad>>
    BY <1>5 DEF UpdateDelivery
  <2> HIDE DEF f
  <2>3. QED
    BY <1>2, <2>1, <2>2
<1>6. ASSUME Guardar(o, operacion[o]), UNCHANGED <<reservas, solicitud, disponibilidad>>
      PROVE  EfectoVentas
  BY <1>1, <1>2, <1>6 DEF fila
<1>7. CASE EditPaymentSide(o)
  <2> DEFINE f == [operacion[o] EXCEPT !.estado = "BORRADOR"]
  <2>1. f \in Fila /\ f.estado = "BORRADOR" /\ f.unidad = fila.unidad
    BY <1>1 DEF fila, Fila, EstadoOperacion
  <2>2. /\ Guardar(o, f) \/ Guardar(o, operacion[o])
        /\ UNCHANGED <<reservas, solicitud, disponibilidad>>
    BY <1>7 DEF EditPaymentSide
  <2> HIDE DEF f
  <2>3. QED
    BY <1>2, <1>6, <2>1, <2>2
<1>8. CASE updateLicensing(o)
  BY <1>6, <1>8 DEF updateLicensing
<1>9. ASSUME NEW v \in Versiones, NEW b \in BOOLEAN, correct(o, v, b)
      PROVE  EfectoVentas
  <2> DEFINE f == [operacion[o] EXCEPT !.version = v, !.entregada = b]
  <2>1. f \in Fila /\ f.estado = fila.estado /\ f.unidad = fila.unidad
    BY <1>1 DEF fila, Fila
  <2>2. Guardar(o, f) /\ UNCHANGED <<reservas, solicitud, disponibilidad>>
    BY <1>9 DEF correct
  <2> HIDE DEF f
  <2>3. QED
    BY <1>2, <2>1, <2>2
<1>10. CASE Close(o)
  <2> DEFINE f == [operacion[o] EXCEPT !.estado = "CERRADA"]
  <2>1. f \in Fila /\ f.unidad = fila.unidad
    BY <1>1 DEF fila, Fila, EstadoOperacion
  <2>2. /\ Guardar(o, f) /\ UNCHANGED <<solicitud, disponibilidad>>
        /\ reservas' \subseteq reservas /\ fila.estado = "APROBADA"
    BY <1>10 DEF fila, Close
  <2> HIDE DEF f
  <2>3. QED
    BY <1>2, <2>1, <2>2
<1>11. QED
  BY <1>4, <1>5, <1>7, <1>8, <1>9, <1>10

\* Handlers that take or give up a unit or a promise.
LEMMA AsignacionEfecto ==
    ASSUME IInv, NEW o \in Operaciones,
           \/ \E u \in Unidades : assignUnit(o, u)
           \/ \E k \in Solicitudes : requestSupply(o, k)
           \/ \E u \in Unidades : Reserve(o, u)
           \/ ReleaseReservation(o)
           \/ Reject(o)
           \/ Cancel(o)
    PROVE  EfectoVentas
<1> DEFINE fila == operacion[o]
<1>1. fila \in Fila
  BY DEF IInv, TypeOK
<1>2. SoltarReserva(o) => reservas' \subseteq reservas
  BY DEF SoltarReserva, releaseActiveReservation
<1> HIDE DEF fila
<1>3. ASSUME NEW u \in Unidades, assignUnit(o, u) \/ Reserve(o, u)
      PROVE  EfectoVentas
  <2>1. /\ [operacion[o] EXCEPT !.estado = "BORRADOR"] \in Fila
        /\ [operacion[o] EXCEPT !.estado = "BORRADOR"].estado = "BORRADOR"
    BY <1>1 DEF fila, Fila, EstadoOperacion
  <2>2. PICK f \in Fila : /\ reserveUnit(o, u, f, Activas(o))
                          /\ f.estado \in {"BORRADOR", fila.estado}
    BY <1>1, <1>3, <2>1 DEF fila, assignUnit, Reserve
  <2>3. EfectoReservas /\ EfectoPromesas /\ \A p \in Operaciones : EfectoEstado(p)
    BY <1>1, <2>2, ReservarEfecto DEF fila, Activas
  <2>4. UNCHANGED disponibilidad
    BY <1>3 DEF assignUnit, Reserve
  <2>5. UNCHANGED solicitud \/ \E r, k : materializeProviderReservation(o, u, r, k)
    BY <1>3 DEF assignUnit, Reserve
  <2>6. \A k \in Solicitudes : EfectoPedido(k)
    BY <2>5, PedidosEfecto DEF IInv
  <2>7. QED
    BY <2>3, <2>4, <2>6 DEF EfectoVentas
<1>4. ASSUME NEW k \in Solicitudes, requestSupply(o, k)
      PROVE  EfectoVentas
  <2> DEFINE j == [estado |-> "PEDIDO", op |-> o, disp |-> Ninguna,
                   sucursal |-> operacion[o].sucursal,
                   version |-> operacion[o].version, recibida |-> Ninguna]
  <2>1. /\ Guardar(o, operacion[o]) /\ UNCHANGED disponibilidad
        /\ reservas' \subseteq reservas
        /\ solicitud' = [solicitud EXCEPT ![k] = j]
        /\ solicitud[k].estado = "INEXISTENTE"
    BY <1>4 DEF requestSupply
  <2>2. j.estado = "PEDIDO" /\ j.recibida = Ninguna
    OBVIOUS
  <2> HIDE DEF j
  <2>3. EfectoReservas /\ EfectoPromesas /\ \A p \in Operaciones : EfectoEstado(p)
    <3>1. /\ operacion' = [operacion EXCEPT ![o] = operacion[o]]
      BY <2>1 DEF Guardar, GuardarFilas
    <3>2. \A p \in Operaciones : operacion'[p] = operacion[p]
      BY <3>1 DEF IInv, TypeOK
    <3>3. QED
      BY <2>1, <3>2 DEF EfectoReservas, EfectoPromesas, EfectoEstado, IInv, TypeOK, Reserva
  <2>4. \A i \in Solicitudes : EfectoPedido(i)
    BY <2>1, <2>2 DEF EfectoPedido, IInv, TypeOK
  <2>5. QED
    BY <2>1, <2>3, <2>4 DEF EfectoVentas
<1>5. ASSUME NEW f \in Fila, Guardar(o, f), f.unidad = Ninguna, SoltarReserva(o),
             f.estado \in {"RECHAZADA", "CANCELADA", fila.estado},
             solicitud' \in {solicitud, SinPedidosEnCurso(o)}, UNCHANGED disponibilidad
      PROVE  EfectoVentas
  <2>1. EfectoReservas /\ EfectoPromesas /\ \A p \in Operaciones : EfectoEstado(p)
    BY <1>2, <1>5, GuardarEfecto DEF fila
  <2>2. \A k \in Solicitudes : EfectoPedido(k)
    BY <1>5, PedidosEfecto DEF IInv
  <2>3. QED
    BY <1>5, <2>1, <2>2 DEF EfectoVentas
<1>6. CASE ReleaseReservation(o)
  <2> DEFINE f == [operacion[o] EXCEPT !.unidad = Ninguna]
  <2>1. f \in Fila /\ f.unidad = Ninguna /\ f.estado = fila.estado
    BY <1>1 DEF fila, Fila
  <2>2. /\ Guardar(o, f) /\ SoltarReserva(o) /\ UNCHANGED disponibilidad
        /\ solicitud' \in {solicitud, SinPedidosEnCurso(o)}
    BY <1>6 DEF ReleaseReservation
  <2> HIDE DEF f
  <2>3. QED
    BY <1>5, <2>1, <2>2
<1>7. ASSUME NEW e \in {"RECHAZADA", "CANCELADA"}, Abandonar(o, e)
      PROVE  EfectoVentas
  <2> DEFINE f == [operacion[o] EXCEPT !.estado = e, !.unidad = Ninguna]
  <2>1. f \in Fila /\ f.unidad = Ninguna /\ f.estado = e
    BY <1>1 DEF fila, Fila, EstadoOperacion
  <2>2. /\ Guardar(o, f) /\ SoltarReserva(o) /\ UNCHANGED disponibilidad
        /\ solicitud' \in {solicitud, SinPedidosEnCurso(o)}
    BY <1>7 DEF Abandonar
  <2> HIDE DEF f
  <2>3. QED
    BY <1>5, <2>1, <2>2
<1>8. QED
  BY <1>3, <1>4, <1>6, <1>7 DEF Reject, Cancel

\* Handlers that approve a sale set its orders going.
LEMMA AprobacionEfecto ==
    ASSUME IInv, NEW o \in Operaciones,
           \/ \E e \in {"PENDIENTE_APROBACION", "APROBADA"} : Submit(o, e)
           \/ Approve(o)
    PROVE  EfectoVentas
<1>1. PICK e \in {"PENDIENTE_APROBACION", "APROBADA"} :
        /\ Guardar(o, [operacion[o] EXCEPT !.estado = e])
        /\ solicitud' = IF e = "APROBADA" THEN PedidosAprobados(o) ELSE solicitud
        /\ UNCHANGED <<unidad, reservas, disponibilidad>>
  BY DEF Submit, Approve
<1> DEFINE f == [operacion[o] EXCEPT !.estado = e]
<1>2. f \in Fila /\ f.unidad = operacion[o].unidad /\ f.estado = e
  BY DEF IInv, TypeOK, Fila, EstadoOperacion
<1>3. /\ \A k \in Solicitudes : EfectoPedido(k)
      /\ e = "APROBADA" =>
            \A k \in Pedidos(o) : solicitud'[k].estado # "PENDIENTE_APROBACION"
  BY <1>1, PedidosEfecto DEF IInv
<1>4. Guardar(o, f)
  BY <1>1
<1> HIDE DEF f
<1>5. EfectoReservas /\ EfectoPromesas /\ \A p \in Operaciones : EfectoEstado(p)
  BY <1>1, <1>2, <1>3, <1>4, GuardarEfecto
<1>6. QED
  BY <1>1, <1>3, <1>5 DEF EfectoVentas


\* Every handler of the sales endpoints.
LEMMA VentasEfecto ==
    ASSUME IInv, NextVentas
    PROVE  EfectoVentas
  BY CreateEfecto, EdicionEfecto, AsignacionEfecto, AprobacionEfecto DEF NextVentas

\* Nothing of the sales changes with the other tables.
LEMMA SinVentasEfecto ==
    ASSUME IInv, UNCHANGED <<operacion, reservas>>
    PROVE  /\ EfectoReservas
           /\ EfectoPromesas
           /\ \A p \in Operaciones : EfectoEstado(p)
           /\ UNCHANGED solicitud => \A k \in Solicitudes : EfectoPedido(k)
  BY DEF EfectoReservas, EfectoPromesas, EfectoEstado, EfectoPedido

\* Placing an order, moving it on and receiving it are what they say.
LEMMA PedidosAbastecimiento ==
    ASSUME IInv, NEW k \in Solicitudes,
           \/ \E o \in Operaciones \cup {Ninguna}, a \in Disponibilidades \cup {Ninguna},
                 s \in Sucursales, v \in Versiones : CreateSupply(k, o, a, s, v)
           \/ \E e \in EnCursoEstados \cup {"CANCELADA"} : Transition(k, e)
           \/ \E u \in Unidades : ReceiveForStock(k, u)
           \/ \E o \in Operaciones, u \in Unidades, b \in BOOLEAN :
                 ReceiveForOperation(k, o, u, b)
    PROVE  \A i \in Solicitudes : EfectoPedido(i)
<1>1. solicitud[k] \in Solicitud
  BY DEF IInv, TypeOK
<1>2. ASSUME NEW j, solicitud' = [solicitud EXCEPT ![k] = j], EfectoPedido(k)
      PROVE  \A i \in Solicitudes : EfectoPedido(i)
  BY <1>2 DEF IInv, TypeOK, EfectoPedido
<1>3. ASSUME NEW o \in Operaciones \cup {Ninguna},
             NEW a \in Disponibilidades \cup {Ninguna},
             NEW s \in Sucursales, NEW v \in Versiones, CreateSupply(k, o, a, s, v)
      PROVE  \A i \in Solicitudes : EfectoPedido(i)
  <2> DEFINE j == [estado |-> "PENDIENTE_CONFIRMACION", op |-> o, disp |-> a,
                   sucursal |-> s, version |-> v, recibida |-> Ninguna]
  <2>1. solicitud' = [solicitud EXCEPT ![k] = j] /\ solicitud[k].estado = "INEXISTENTE"
    BY <1>3 DEF CreateSupply
  <2>2. solicitud'[k] = j
    BY <2>1 DEF IInv, TypeOK
  <2>3. EfectoPedido(k)
    BY <2>1, <2>2 DEF EfectoPedido
  <2>4. QED
    BY <1>2, <2>1, <2>3
<1>4. ASSUME NEW e \in EnCursoEstados \cup {"CANCELADA"}, Transition(k, e)
      PROVE  \A i \in Solicitudes : EfectoPedido(i)
  <2> DEFINE j == [solicitud[k] EXCEPT !.estado = e]
  <2>1. solicitud' = [solicitud EXCEPT ![k] = j]
    BY <1>4 DEF Transition
  <2>2. /\ solicitud[k].estado # "INEXISTENTE"
        /\ e \notin {"INEXISTENTE", "PENDIENTE_APROBACION"}
    BY <1>4 DEF Transition, forward, EnCursoEstados
  <2>3. /\ solicitud'[k] = j /\ j.estado = e /\ j.op = solicitud[k].op
        /\ j.disp = solicitud[k].disp /\ j.recibida = solicitud[k].recibida
    BY <1>1, <2>1 DEF IInv, TypeOK, Solicitud
  <2> HIDE DEF j
  <2>4. EfectoPedido(k)
    BY <2>2, <2>3 DEF EfectoPedido
  <2>5. QED
    BY <1>2, <2>1, <2>4
<1>5. ASSUME NEW e \in {"RECIBIDO", "ASIGNADO"}, NEW u \in Unidades, Recibible(k),
             unidad[u].estado = "INEXISTENTE", unidad'[u].estado # "INEXISTENTE",
             solicitud' = [solicitud EXCEPT ![k] =
                              [@ EXCEPT !.estado = e, !.recibida = u]]
      PROVE  \A i \in Solicitudes : EfectoPedido(i)
  <2> DEFINE j == [solicitud[k] EXCEPT !.estado = e, !.recibida = u]
  <2>1. solicitud' = [solicitud EXCEPT ![k] = j]
    BY <1>5
  <2>2. /\ solicitud[k].recibida = Ninguna
        /\ solicitud[k].estado # "INEXISTENTE"
    BY <1>5 DEF Recibible
  <2>3. /\ solicitud'[k] = j /\ j.estado = e /\ j.op = solicitud[k].op
        /\ j.disp = solicitud[k].disp /\ j.recibida = u
    BY <1>1, <2>1 DEF IInv, TypeOK, Solicitud
  <2> HIDE DEF j
  <2>4. EfectoPedido(k)
    BY <1>5, <2>2, <2>3 DEF EfectoPedido
  <2>5. QED
    BY <1>2, <2>1, <2>4
<1>6. ASSUME NEW u \in Unidades, ReceiveForStock(k, u)
      PROVE  \A i \in Solicitudes : EfectoPedido(i)
  <2>1. unidad'[u].estado # "INEXISTENTE"
    BY <1>6 DEF IInv, TypeOK, ReceiveForStock, UnidadRecibida
  <2>2. QED
    BY <1>5, <1>6, <2>1 DEF ReceiveForStock
<1>7. ASSUME NEW o \in Operaciones, NEW u \in Unidades, NEW b \in BOOLEAN,
             ReceiveForOperation(k, o, u, b)
      PROVE  \A i \in Solicitudes : EfectoPedido(i)
  <2>1. unidad'[u].estado # "INEXISTENTE"
    BY <1>7 DEF IInv, TypeOK, ReceiveForOperation, UnidadRecibida
  <2>2. QED
    BY <1>5, <1>7, <2>1 DEF ReceiveForOperation
<1>8. QED
  BY <1>3, <1>4, <1>6, <1>7

\* A reception stores the unit in the row of its sale and nothing else.
LEMMA RecepcionGuarda ==
    ASSUME IInv, NEW k \in Solicitudes, NEW o \in Operaciones, NEW u \in Unidades,
           NEW b \in BOOLEAN, ReceiveForOperation(k, o, u, b)
    PROVE  /\ operacion'[o].unidad = u
           /\ operacion'[o].estado = operacion[o].estado
           /\ \A p \in Operaciones \ {o} : operacion'[p] = operacion[p]
<1>1. operacion' = [operacion EXCEPT ![o] = [operacion[o] EXCEPT !.unidad = u]]
  BY DEF ReceiveForOperation, Guardar, GuardarFilas
<1>2. operacion \in [Operaciones -> Fila]
  BY DEF IInv, TypeOK
<1>3. QED
  BY <1>1, <1>2 DEF Fila

\* What every step is to the orders and to the states of the sales.
LEMMA PedidosPaso ==
    ASSUME IInv, [Next]_vars
    PROVE  /\ \A k \in Solicitudes : EfectoPedido(k)
           /\ \A p \in Operaciones : EfectoEstado(p)
<1> DEFINE P == /\ \A k \in Solicitudes : EfectoPedido(k)
                /\ \A p \in Operaciones : EfectoEstado(p)
<1>1. NextVentas => P
  BY VentasEfecto DEF EfectoVentas
<1>2. UNCHANGED <<operacion, solicitud>> => P
  BY DEF EfectoPedido, EfectoEstado
<1>3. UNCHANGED operacion => \A p \in Operaciones : EfectoEstado(p)
  BY DEF EfectoEstado
<1>4. ASSUME NEW k \in Solicitudes, NEW o \in Operaciones, NEW u \in Unidades,
             NEW b \in BOOLEAN, ReceiveForOperation(k, o, u, b)
      PROVE  \A p \in Operaciones : EfectoEstado(p)
  BY <1>4, RecepcionGuarda DEF EfectoEstado
<1>5. NextAbastecimiento => P
  <2>1. CASE UNCHANGED <<operacion, solicitud>>
    BY <1>2, <2>1
  <2>2. ASSUME NEW k \in Solicitudes,
               \/ \E o \in Operaciones \cup {Ninguna},
                     a \in Disponibilidades \cup {Ninguna},
                     s \in Sucursales, v \in Versiones : CreateSupply(k, o, a, s, v)
               \/ \E e \in EnCursoEstados \cup {"CANCELADA"} : Transition(k, e)
               \/ \E u \in Unidades : ReceiveForStock(k, u)
               \/ \E o \in Operaciones, u \in Unidades, b \in BOOLEAN :
                     ReceiveForOperation(k, o, u, b)
        PROVE  P
    <3>1. \A i \in Solicitudes : EfectoPedido(i)
      BY <2>2, PedidosAbastecimiento
    <3>2. \A p \in Operaciones : EfectoEstado(p)
      BY <1>3, <1>4, <2>2 DEF CreateSupply, Transition, ReceiveForStock
    <3>3. QED
      BY <3>1, <3>2
  <2>3. QED
    BY <2>1, <2>2
       DEF NextAbastecimiento, CreateUnit, UpdateUnitStatus, Transfer, UpsertAvailability
<1>6. NextEntorno => P
  BY <1>2 DEF NextEntorno, ReadOperation, ReservationExpires, AvailabilityExpires
<1>7. QED
  BY <1>1, <1>2, <1>5, <1>6 DEF Next, vars

\* A unit stays in the inventory, and a sold one stays as it is.
LEMMA UnidadesQuedan ==
    ASSUME IInv, [Next]_vars, NEW u \in Unidades
    PROVE  /\ unidad[u].estado # "INEXISTENTE" => unidad'[u].estado # "INEXISTENTE"
           /\ unidad[u].estado = "VENDIDO" => unidad'[u] = unidad[u]
<1> DEFINE P == /\ unidad[u].estado # "INEXISTENTE" => unidad'[u].estado # "INEXISTENTE"
                /\ unidad[u].estado = "VENDIDO" => unidad'[u] = unidad[u]
<1>1. NextVentas => P
  <2>1. ASSUME NEW o \in Operaciones, NEW fila \in Fila, PasoSoltar(o, fila)
        PROVE  P
    <3>1. EfectoDevolver(o, fila)
      BY <2>1, SoltarDevuelve DEF PasoSoltar
    <3>2. QED
      BY <3>1 DEF EfectoDevolver
  <2>2. ASSUME NEW o \in Operaciones, NEW w \in Unidades, NEW fila \in Fila,
               NEW libera \in SUBSET reservas, PasoTomar(o, w, fila, libera)
        PROVE  P
    <3>1. EfectoTomar(o, w, fila.estado, TRUE)
      BY <2>2, TomarDelStock DEF PasoTomar
    <3>2. QED
      BY <3>1 DEF EfectoTomar
  <2>3. ASSUME NEW o \in Operaciones, Close(o)
        PROVE  P
    BY <2>3, CloseVende DEF EfectoVender
  <2>4. ASSUME NEW o \in Operaciones, NEW fila \in Fila, PasoSinMover(o, fila)
        PROVE  P
    BY <2>4 DEF PasoSinMover
  <2>5. QED
    BY <2>1, <2>2, <2>3, <2>4, ClasesDeVentas DEF NextVentas
<1>2. NextAbastecimiento => P
  <2>1. unidad \in [Unidades -> Unidad]
    BY DEF IInv, TypeOK
  <2>2. ASSUME NEW k \in Solicitudes, NEW w \in Unidades,
               \/ ReceiveForStock(k, w)
               \/ \E o \in Operaciones, b \in BOOLEAN : ReceiveForOperation(k, o, w, b)
        PROVE  P
    BY <2>1, <2>2 DEF ReceiveForStock, ReceiveForOperation, UnidadRecibida
  <2>3. ASSUME NEW w \in Unidades, NEW s \in Sucursales, NEW v \in Versiones,
               CreateUnit(w, s, v)
        PROVE  P
    BY <2>1, <2>3 DEF CreateUnit
  <2>4. ASSUME NEW w \in Unidades, NEW e \in manuallyManagedStatuses,
               UpdateUnitStatus(w, e)
        PROVE  P
    BY <2>1, <2>4 DEF UpdateUnitStatus, manuallyManagedStatuses, Unidad
  <2>5. ASSUME NEW w \in Unidades, NEW s \in Sucursales, Transfer(w, s)
        PROVE  P
    BY <2>1, <2>5 DEF Transfer, Unidad
  <2>6. UNCHANGED unidad => P
    OBVIOUS
  <2>7. QED
    BY <2>2, <2>3, <2>4, <2>5, <2>6
       DEF NextAbastecimiento, CreateSupply, Transition, UpsertAvailability
<1>3. NextEntorno \/ UNCHANGED vars => P
  BY DEF NextEntorno, ReadOperation, ReservationExpires, AvailabilityExpires, vars
<1>4. QED
  BY <1>1, <1>2, <1>3 DEF Next


-------------------------------------------------------------------------------
(* Orders, promises and capacity *)

\* An order goes on waiting only for a sale that may still be approved, and what
\* an order brought stays in the inventory.
LEMMA PedidosMantiene ==
    ASSUME IInv, [Next]_vars, PedidoEsperaVenta, RecibidaExiste
    PROVE  PedidoEsperaVenta' /\ RecibidaExiste'
<1>1. ASSUME NEW k \in Solicitudes, solicitud'[k].estado = "PENDIENTE_APROBACION"
      PROVE  /\ solicitud'[k].op \in Operaciones
             /\ operacion'[solicitud'[k].op].estado \notin {"NUEVA", "APROBADA", "CERRADA"}
  <2>1. EfectoPedido(k) /\ \A p \in Operaciones : EfectoEstado(p)
    BY PedidosPaso
  <2>2. CASE solicitud'[k] = solicitud[k]
    <3>1. /\ solicitud[k].op \in Operaciones /\ k \in Pedidos(solicitud[k].op)
          /\ operacion[solicitud[k].op].estado \notin {"NUEVA", "APROBADA", "CERRADA"}
      BY <1>1, <2>2 DEF PedidoEsperaVenta, Pedidos
    <3>2. QED
      BY <1>1, <2>1, <2>2, <3>1 DEF EfectoEstado
  <2>3. CASE solicitud'[k] # solicitud[k]
    BY <1>1, <2>1, <2>3 DEF EfectoPedido
  <2>4. QED
    BY <2>2, <2>3
<1>2. ASSUME NEW k \in Solicitudes, solicitud'[k].recibida # Ninguna
      PROVE  unidad'[solicitud'[k].recibida].estado # "INEXISTENTE"
  <2>1. EfectoPedido(k)
    BY PedidosPaso
  <2>2. CASE solicitud'[k].recibida = solicitud[k].recibida
    <3>1. /\ solicitud[k].recibida \in Unidades
          /\ unidad[solicitud[k].recibida].estado # "INEXISTENTE"
      BY <1>2, <2>2 DEF IInv, TypeOK, Solicitud, RecibidaExiste
    <3>2. QED
      BY <2>2, <3>1, UnidadesQuedan
  <2>3. CASE solicitud'[k].recibida # solicitud[k].recibida
    BY <1>2, <2>1, <2>3 DEF EfectoPedido
  <2>4. QED
    BY <2>2, <2>3
<1>3. QED
  BY <1>1, <1>2 DEF PedidoEsperaVenta, RecibidaExiste

\* Any step but a reception for a sale leaves only promises that were there, of
\* sales with the unit they had, or of sales without one.
LEMMA PromesasPaso ==
    ASSUME IInv, [Next]_vars,
           ~ \E k \in Solicitudes, o \in Operaciones, u \in Unidades, b \in BOOLEAN :
                ReceiveForOperation(k, o, u, b)
    PROVE  EfectoPromesas
<1>1. UNCHANGED <<operacion, reservas>> => EfectoPromesas
  BY DEF EfectoPromesas
<1>2. NextVentas => EfectoPromesas
  BY VentasEfecto DEF EfectoVentas
<1>3. NextAbastecimiento => EfectoPromesas
  BY <1>1 DEF NextAbastecimiento, CreateSupply, Transition, ReceiveForStock, CreateUnit,
              UpdateUnitStatus, Transfer, UpsertAvailability
<1>4. ASSUME NEW r \in reservas, ReservationExpires(r)
      PROVE  EfectoPromesas
  <2>1. r \in Reserva
    BY DEF IInv, TypeOK
  <2>2. /\ [r EXCEPT !.vigente = FALSE].op = r.op
        /\ [r EXCEPT !.vigente = FALSE].destino = r.destino
    BY <2>1 DEF Reserva
  <2>3. /\ reservas' = (reservas \ {r}) \cup {[r EXCEPT !.vigente = FALSE]}
        /\ UNCHANGED operacion
    BY <1>4 DEF ReservationExpires
  <2>4. QED
    BY <2>2, <2>3 DEF EfectoPromesas
<1>5. NextEntorno => EfectoPromesas
  BY <1>1, <1>4 DEF NextEntorno, ReadOperation, AvailabilityExpires
<1>6. QED
  BY <1>1, <1>2, <1>3, <1>5 DEF Next, vars

\* The promise is over when its unit is in the operation: assigning a unit ends
\* every promise of the sale, receiving it the one of its order, and a unit
\* arrives with one order only.
LEMMA PromesasMantiene ==
    ASSUME IInv, [Next]_vars, RecibidaExiste, DisponibilidadMaterializada
    PROVE  DisponibilidadMaterializada'
<1> SUFFICES ASSUME NEW r \in reservas', NEW k \in Solicitudes, ~ Fisica(r),
                    solicitud'[k].op = r.op, solicitud'[k].disp = r.destino,
                    solicitud'[k].recibida # Ninguna,
                    solicitud'[k].recibida = operacion'[r.op].unidad
             PROVE  FALSE
  BY DEF DisponibilidadMaterializada, Fisica
<1>1. EfectoPedido(k)
  BY PedidosPaso
<1>2. \A p \in Operaciones : operacion[p].unidad # Ninguna =>
          unidad[operacion[p].unidad].estado \in {"RESERVADO", "VENDIDO"}
  BY DEF IInv, Custodia, OperacionConReserva, ReservaRespaldada, TypeOK, Fila, Activas,
         Fisica
<1>3. r \in Reserva
  BY TipoPaso DEF IInv, TypeOK
\* The sale has the unit it had: so has the order, for this unit was not new.
<1>4. ASSUME operacion'[r.op].unidad = operacion[r.op].unidad,
             NEW q \in reservas, q.op = r.op, q.destino = r.destino
      PROVE  FALSE
  <2>1. r.op \in Operaciones
    BY <1>3 DEF Reserva
  <2>2. unidad[solicitud'[k].recibida].estado # "INEXISTENTE"
    BY <1>2, <1>4, <2>1
  <2>3. /\ solicitud[k].recibida = solicitud'[k].recibida
        /\ solicitud[k].op = r.op /\ solicitud[k].disp = r.destino
    BY <1>1, <2>2 DEF EfectoPedido
  <2>4. ~ Fisica(q)
    BY <1>4 DEF Fisica
  <2>5. QED
    BY <1>4, <2>3, <2>4 DEF DisponibilidadMaterializada
<1>5. CASE ~ \E j \in Solicitudes, o \in Operaciones, u \in Unidades, b \in BOOLEAN :
                ReceiveForOperation(j, o, u, b)
  <2>1. EfectoPromesas
    BY <1>5, PromesasPaso
  <2>2. QED
    BY <1>4, <2>1 DEF EfectoPromesas
<1>6. ASSUME NEW j \in Solicitudes, NEW o \in Operaciones, NEW u \in Unidades,
             NEW b \in BOOLEAN, ReceiveForOperation(j, o, u, b)
      PROVE  FALSE
  <2>1. /\ operacion'[o].unidad = u
        /\ \A p \in Operaciones \ {o} : operacion'[p] = operacion[p]
    BY <1>6, RecepcionGuarda
  <2>2. /\ reservas' = ReservasTrasRecibir(j, o) \cup
                          {[op |-> o, destino |-> u, vigente |-> b]}
        /\ solicitud' = [solicitud EXCEPT ![j] =
                            [@ EXCEPT !.estado = "ASIGNADO", !.recibida = u]]
        /\ unidad[u].estado = "INEXISTENTE"
        /\ solicitud[j].op = o
    BY <1>6 DEF ReceiveForOperation
  <2>3. r \in reservas /\ ~ (r.op = o /\ r.destino = solicitud[j].disp)
    BY <2>2 DEF ReservasTrasRecibir, Fisica
  <2>4. CASE r.op # o
    BY <1>3, <1>4, <2>1, <2>3, <2>4 DEF Reserva
  <2>5. CASE r.op = o
    <3>1. solicitud'[k].recibida = u /\ u # Ninguna
      BY <2>1, <2>5, NingunaNoEsFila
    <3>2. k # j => solicitud'[k] = solicitud[k]
      BY <2>2 DEF IInv, TypeOK
    <3>3. k # j
      <4>1. solicitud \in [Solicitudes -> Solicitud]
        BY DEF IInv, TypeOK
      <4>2. solicitud'[j].disp = solicitud[j].disp
        BY <2>2, <4>1 DEF Solicitud
      <4>3. QED
        BY <2>3, <2>5, <4>2
    <3>4. QED
      BY <2>2, <3>1, <3>2, <3>3 DEF RecibidaExiste
  <2>6. QED
    BY <2>4, <2>5
<1>7. QED
  BY <1>5, <1>6

\* Fewer reservations are no more promises.
LEMMA MenosPromesas ==
    ASSUME NEW a, IsFiniteSet(SobreDestino(a)), NEW T \in SUBSET SobreDestino(a)
    PROVE  /\ IsFiniteSet(T)
           /\ Cardinality(T) \in Nat
           /\ Cardinality(SobreDestino(a)) \in Nat
           /\ Cardinality(T) <= Cardinality(SobreDestino(a))
  BY FS_Subset, FS_CardinalityType

\* A supplier's stock is never promised twice: a new promise is checked against
\* the quantity, a reception ends the promise it delivers, and the quantity
\* reported does not fall below what is promised.
LEMMA CapacidadMantiene ==
    ASSUME IInv, [Next]_vars, IsFiniteSet(reservas), CapacidadRespetada
    PROVE  IsFiniteSet(reservas') /\ CapacidadRespetada'
<1> DEFINE Finitas == IsFiniteSet(reservas')
           Cabe(a) == Cardinality({r \in reservas' : r.destino = a})
                         <= disponibilidad'[a].cantidad
<1>1. SUFFICES Finitas /\ \A a \in Disponibilidades : Cabe(a)
  BY DEF CapacidadRespetada, SobreDestino
<1>2. \A a : /\ SobreDestino(a) \subseteq reservas
             /\ IsFiniteSet(SobreDestino(a))
  BY FS_Subset DEF SobreDestino
<1>3. \A a \in Disponibilidades :
          /\ Cardinality(SobreDestino(a)) \in Nat
          /\ disponibilidad[a].cantidad \in Nat
          /\ disponibilidad'[a].cantidad \in Nat
          /\ Cardinality(SobreDestino(a)) <= disponibilidad[a].cantidad
  <2>1. /\ disponibilidad \in [Disponibilidades -> Disponibilidad]
        /\ disponibilidad' \in [Disponibilidades -> Disponibilidad]
    BY TipoPaso DEF IInv, TypeOK
  <2>2. \A a \in Disponibilidades : /\ disponibilidad[a].cantidad \in Nat
                                    /\ disponibilidad'[a].cantidad \in Nat
    BY <2>1, CantidadNatural DEF Disponibilidad
  <2>3. QED
    BY <1>2, <2>2, FS_CardinalityType DEF CapacidadRespetada
<1>4. ASSUME NEW T, reservas' \subseteq reservas \cup {T}
      PROVE  Finitas
  <2>1. IsFiniteSet(reservas \cup {T})
    BY FS_AddElement
  <2>2. QED
    BY <1>4, <2>1, FS_Subset
<1>5. reservas' \subseteq reservas => Finitas
  BY FS_Subset
\* No promise is new and the quantity is no less.
<1>6. ASSUME NEW a \in Disponibilidades,
             {r \in reservas' : r.destino = a} \subseteq SobreDestino(a),
             disponibilidad'[a].cantidad >= disponibilidad[a].cantidad
      PROVE  Cabe(a)
  <2> DEFINE T == {r \in reservas' : r.destino = a}
  <2>1. Cardinality(T) \in Nat /\ Cardinality(T) <= Cardinality(SobreDestino(a))
    BY <1>2, <1>6, MenosPromesas
  <2> HIDE DEF T
  <2>2. Cardinality(T) <= disponibilidad'[a].cantidad
    BY <1>3, <1>6, <2>1
  <2>3. QED
    BY <2>2 DEF T
\* One is new, and the quantity has room for it.
<1>7. ASSUME NEW x \in Reserva, reservas' \subseteq reservas \cup {x},
             NEW a \in Disponibilidades, HayCapacidad(a), UNCHANGED disponibilidad
      PROVE  Cabe(a)
  <2> DEFINE T == {r \in reservas' : r.destino = a}
             S == SobreDestino(a) \cup {x}
  <2>1. /\ IsFiniteSet(S)
        /\ Cardinality(S) \in Nat
        /\ Cardinality(S) <= Cardinality(SobreDestino(a)) + 1
    <3>1. /\ IsFiniteSet(S)
          /\ Cardinality(S) = IF x \in SobreDestino(a) THEN Cardinality(SobreDestino(a))
                              ELSE Cardinality(SobreDestino(a)) + 1
      BY <1>2, FS_AddElement
    <3>2. QED
      BY <1>3, <3>1
  <2>2. T \subseteq S
    BY <1>7 DEF SobreDestino
  <2>3. Cardinality(T) \in Nat /\ Cardinality(T) <= Cardinality(S)
    BY <2>1, <2>2, FS_Subset, FS_CardinalityType
  <2> HIDE DEF T, S
  <2>4. Cardinality(T) <= disponibilidad'[a].cantidad
    BY <1>3, <1>7, <2>1, <2>3 DEF HayCapacidad
  <2>5. QED
    BY <2>4 DEF T
<1>8. ASSUME EfectoReservas, UNCHANGED disponibilidad
      PROVE  Finitas /\ \A a \in Disponibilidades : Cabe(a)
  <2>1. CASE reservas' \subseteq reservas
    <3>1. ASSUME NEW a \in Disponibilidades
          PROVE  Cabe(a)
      <4>1. {r \in reservas' : r.destino = a} \subseteq SobreDestino(a)
        BY <2>1 DEF SobreDestino
      <4>2. disponibilidad'[a].cantidad >= disponibilidad[a].cantidad
        BY <1>3, <1>8
      <4>3. QED
        BY <1>6, <4>1, <4>2
    <3>2. QED
      BY <1>5, <2>1, <3>1
  <2>2. ASSUME NEW x \in Reserva, reservas' \subseteq reservas \cup {x},
               Fisica(x) \/ HayCapacidad(x.destino)
        PROVE  Finitas /\ \A a \in Disponibilidades : Cabe(a)
    <3>1. ASSUME NEW a \in Disponibilidades, x.destino = a
          PROVE  Cabe(a)
      <4>1. HayCapacidad(a)
        BY <2>2, <3>1, DestinosDisjuntos DEF Fisica
      <4>2. QED
        BY <1>7, <1>8, <2>2, <4>1
    <3>2. ASSUME NEW a \in Disponibilidades, x.destino # a
          PROVE  Cabe(a)
      <4>1. {r \in reservas' : r.destino = a} \subseteq SobreDestino(a)
        BY <2>2, <3>2 DEF SobreDestino
      <4>2. disponibilidad'[a].cantidad >= disponibilidad[a].cantidad
        BY <1>3, <1>8
      <4>3. QED
        BY <1>6, <4>1, <4>2
    <3>3. QED
      BY <1>4, <2>2, <3>1, <3>2
  <2>3. QED
    BY <1>8, <2>1, <2>2 DEF EfectoReservas
<1>9. NextVentas => Finitas /\ \A a \in Disponibilidades : Cabe(a)
  BY <1>8, VentasEfecto DEF EfectoVentas
<1>10. UNCHANGED <<operacion, reservas, disponibilidad>> =>
          Finitas /\ \A a \in Disponibilidades : Cabe(a)
  BY <1>8, SinVentasEfecto
\* A reception takes one from the quantity, and only if what is left promised
\* still fits.
<1>11. ASSUME NEW k \in Solicitudes, NEW quedan, quedan \subseteq reservas,
              DescontarDisponibilidad(solicitud[k].disp, quedan),
              \A a \in Disponibilidades :
                 {r \in reservas' : r.destino = a} = {r \in quedan : r.destino = a}
       PROVE  \A a \in Disponibilidades : Cabe(a)
  <2> SUFFICES ASSUME NEW a \in Disponibilidades PROVE Cabe(a)
    OBVIOUS
  <2>1. disponibilidad \in [Disponibilidades -> Disponibilidad]
    BY DEF IInv, TypeOK
  <2>2. CASE solicitud[k].disp = a
    <3>1. /\ Cardinality({r \in quedan : r.destino = a})
                <= disponibilidad[a].cantidad - 1
          /\ disponibilidad' = [disponibilidad EXCEPT ![a].cantidad = @ - 1]
      BY <1>11, <2>2, NingunaNoEsFila DEF DescontarDisponibilidad
    <3>2. disponibilidad'[a].cantidad = disponibilidad[a].cantidad - 1
      BY <2>1, <3>1 DEF Disponibilidad
    <3>3. QED
      BY <1>11, <3>1, <3>2
  <2>3. CASE solicitud[k].disp # a
    <3>1. disponibilidad'[a] = disponibilidad[a]
      BY <1>11, <2>1, <2>3 DEF DescontarDisponibilidad
    <3>2. {r \in reservas' : r.destino = a} \subseteq SobreDestino(a)
      BY <1>11 DEF SobreDestino
    <3>3. QED
      BY <1>3, <1>6, <3>1, <3>2
  <2>4. QED
    BY <2>2, <2>3
<1>12. ASSUME NEW k \in Solicitudes, NEW u \in Unidades, ReceiveForStock(k, u)
       PROVE  Finitas /\ \A a \in Disponibilidades : Cabe(a)
  BY <1>5, <1>11, <1>12 DEF ReceiveForStock
<1>13. ASSUME NEW k \in Solicitudes, NEW o \in Operaciones, NEW u \in Unidades,
              NEW b \in BOOLEAN, ReceiveForOperation(k, o, u, b)
       PROVE  Finitas /\ \A a \in Disponibilidades : Cabe(a)
  <2> DEFINE quedan == ReservasTrasRecibir(k, o)
             x == [op |-> o, destino |-> u, vigente |-> b]
  <2>1. /\ reservas' = quedan \cup {x} /\ quedan \subseteq reservas
        /\ DescontarDisponibilidad(solicitud[k].disp, quedan)
    BY <1>13 DEF ReceiveForOperation, ReservasTrasRecibir
  <2>2. \A a \in Disponibilidades : x.destino # a
    BY DestinosDisjuntos
  <2> HIDE DEF quedan, x
  <2>3. \A a \in Disponibilidades :
           {r \in reservas' : r.destino = a} = {r \in quedan : r.destino = a}
    BY <2>1, <2>2
  <2>4. \A a \in Disponibilidades : Cabe(a)
    BY <1>11, <2>1, <2>3
  <2>5. reservas' \subseteq reservas \cup {x}
    BY <2>1
  <2>6. QED
    BY <1>4, <2>4, <2>5
<1>14. ASSUME NEW b \in Disponibilidades, NEW n \in 0..MaxCantidad, NEW v \in BOOLEAN,
              UpsertAvailability(b, n, v)
       PROVE  Finitas /\ \A a \in Disponibilidades : Cabe(a)
  <2>1. ASSUME NEW a \in Disponibilidades
        PROVE  Cabe(a)
    <3>1. /\ disponibilidad'[b].cantidad = n
          /\ a # b => disponibilidad'[a] = disponibilidad[a]
          /\ {r \in reservas' : r.destino = a} = SobreDestino(a)
          /\ n # disponibilidad[b].cantidad => Cardinality(SobreDestino(b)) <= n
      BY <1>14 DEF UpsertAvailability, SobreDestino, IInv, TypeOK
    <3>2. QED
      BY <1>3, <3>1
  <2>2. QED
    BY <1>5, <1>14, <2>1 DEF UpsertAvailability
<1>15. NextAbastecimiento => Finitas /\ \A a \in Disponibilidades : Cabe(a)
  BY <1>10, <1>12, <1>13, <1>14
     DEF NextAbastecimiento, CreateSupply, Transition, CreateUnit, UpdateUnitStatus,
         Transfer
\* A reservation that expires is of the same unit or of the same supplier.
<1>16. ASSUME NEW x \in reservas, ReservationExpires(x)
       PROVE  Finitas /\ \A a \in Disponibilidades : Cabe(a)
  <2> DEFINE y == [x EXCEPT !.vigente = FALSE]
  <2>1. x \in Reserva
    BY DEF IInv, TypeOK
  <2>2. y.destino = x.destino
    BY <2>1 DEF Reserva
  <2>3. reservas' = (reservas \ {x}) \cup {y} /\ UNCHANGED disponibilidad
    BY <1>16 DEF ReservationExpires
  <2> HIDE DEF y
  <2>4. ASSUME NEW a \in Disponibilidades
        PROVE  Cabe(a)
    <3> DEFINE T == {r \in reservas' : r.destino = a}
               S == SobreDestino(a) \ {x}
    <3>1. CASE x.destino # a
      <4>1. T \subseteq SobreDestino(a)
        BY <2>2, <2>3, <3>1 DEF SobreDestino
      <4>2. QED
        BY <1>3, <1>6, <2>3, <4>1
    <3>2. CASE x.destino = a
      <4>1. x \in SobreDestino(a) /\ T = S \cup {y}
        BY <2>2, <2>3, <3>2 DEF SobreDestino
      <4>2. IsFiniteSet(S) /\ Cardinality(S) = Cardinality(SobreDestino(a)) - 1
        BY <1>2, <4>1, FS_RemoveElement
      <4> HIDE DEF T, S
      <4>3. Cardinality(T) = IF y \in S THEN Cardinality(S) ELSE Cardinality(S) + 1
        BY <4>1, <4>2, FS_AddElement
      <4>4. Cardinality(T) <= disponibilidad'[a].cantidad
        BY <1>3, <2>3, <4>2, <4>3
      <4>5. QED
        BY <4>4 DEF T
    <3>3. QED
      BY <3>1, <3>2
  <2>5. QED
    BY <1>4, <2>3, <2>4
<1>17. ASSUME NEW b \in Disponibilidades, AvailabilityExpires(b)
       PROVE  Finitas /\ \A a \in Disponibilidades : Cabe(a)
  <2>1. ASSUME NEW a \in Disponibilidades
        PROVE  Cabe(a)
    <3>1. /\ disponibilidad'[a].cantidad = disponibilidad[a].cantidad
          /\ {r \in reservas' : r.destino = a} = SobreDestino(a)
      BY <1>17 DEF AvailabilityExpires, SobreDestino, IInv, TypeOK, Disponibilidad
    <3>2. QED
      BY <1>3, <3>1
  <2>2. QED
    BY <1>5, <1>17, <2>1 DEF AvailabilityExpires
<1>18. NextEntorno => Finitas /\ \A a \in Disponibilidades : Cabe(a)
  BY <1>10, <1>16, <1>17 DEF NextEntorno, ReadOperation
<1>19. QED
  BY <1>9, <1>10, <1>15, <1>18 DEF Next, vars


-------------------------------------------------------------------------------
(* The invariant *)

\* No order waits at first, and what the previous flow left promised was reported.
LEMMA AbastecimientoInicial == Init => Abastecimiento
<1>1. CASE InitVacio
  <2>1. /\ \A o \in Operaciones : operacion[o] = OperacionNueva
        /\ \A k \in Solicitudes : solicitud[k] = SolicitudInexistente
        /\ \A a \in Disponibilidades : disponibilidad[a].cantidad = 0
        /\ reservas = {}
    BY <1>1 DEF InitVacio
  <2>2. CapacidadRespetada /\ IsFiniteSet(reservas)
    <3>1. \A a \in Disponibilidades : SobreDestino(a) = {}
      BY <2>1 DEF SobreDestino
    <3>2. QED
      BY <2>1, <3>1, FS_EmptySet DEF CapacidadRespetada
  <2>3. QED
    BY <2>1, <2>2 DEF Abastecimiento, UnidadDeLaOperacion, PedidoEsperaVenta,
                      RecibidaExiste, DisponibilidadMaterializada, OperacionNueva,
                      SolicitudInexistente
<1>2. CASE InitFlujoAnterior
  <2>1. PICK o \in Operaciones, u \in Unidades, a \in Disponibilidades,
             k \in Solicitudes, s \in Sucursales, vigente \in BOOLEAN,
             e \in {"BORRADOR", "APROBADA"} :
          /\ MaxCantidad > 0
          /\ operacion = [p \in Operaciones |->
                IF p = o THEN [estado |-> e, sucursal |-> s,
                               version |-> VersionDe[a],
                               unidad |-> Ninguna, entregada |-> FALSE]
                         ELSE OperacionNueva]
          /\ unidad = [w \in Unidades |->
                IF w = u THEN [estado |-> "EN_STOCK", sucursal |-> s,
                               version |-> VersionDe[a]]
                         ELSE UnidadInexistente]
          /\ reservas = {[op |-> o, destino |-> a, vigente |-> vigente]}
          /\ solicitud = [j \in Solicitudes |->
                IF j = k THEN [estado |-> "RECIBIDO", op |-> o, disp |-> a,
                               sucursal |-> s, version |-> VersionDe[a],
                               recibida |-> u]
                         ELSE SolicitudInexistente]
          /\ disponibilidad = [b \in Disponibilidades |->
                [cantidad |-> IF b = a THEN 1 ELSE 0, vigente |-> TRUE]]
    BY <1>2 DEF InitFlujoAnterior
  <2> DEFINE x == [op |-> o, destino |-> a, vigente |-> vigente]
  <2>2. reservas = {x} /\ x.destino = a
    BY <2>1
  <2>3. \A b \in Disponibilidades : disponibilidad[b].cantidad = IF b = a THEN 1 ELSE 0
    BY <2>1
  <2> HIDE DEF x
  <2>4. CapacidadRespetada /\ IsFiniteSet(reservas)
    <3>1. \A b \in Disponibilidades : SobreDestino(b) = IF b = a THEN {x} ELSE {}
      BY <2>2 DEF SobreDestino
    <3>2. /\ IsFiniteSet({x}) /\ Cardinality({x}) = 1
          /\ IsFiniteSet({}) /\ Cardinality({}) = 0
      BY FS_Singleton, FS_EmptySet
    <3>3. QED
      BY <2>2, <2>3, <3>1, <3>2 DEF CapacidadRespetada
  <2>5. UnidadDeLaOperacion /\ DisponibilidadMaterializada
    <3>1. \A p \in Operaciones : operacion[p].unidad = Ninguna
      BY <2>1 DEF OperacionNueva
    <3>2. \A r \in reservas : r.op \in Operaciones
      BY <2>1
    <3>3. QED
      BY <3>1, <3>2 DEF UnidadDeLaOperacion, DisponibilidadMaterializada
  <2>6. PedidoEsperaVenta /\ RecibidaExiste
    BY <2>1 DEF PedidoEsperaVenta, RecibidaExiste, SolicitudInexistente
  <2>7. QED
    BY <2>4, <2>5, <2>6 DEF Abastecimiento
<1>3. QED
  BY <1>1, <1>2 DEF Init

\* The inductive invariant of orders and suppliers' stock, on top of that of the
\* custody of units.
THEOREM InductiveSupply == Spec => []IInvPedidos
<1>1. Init => IInvPedidos
  BY TipoInicial, CustodiaInicial, AbastecimientoInicial DEF IInv, IInvPedidos
<1>2. IInvPedidos /\ [Next]_vars => IInvPedidos'
  <2> SUFFICES ASSUME IInvPedidos, [Next]_vars
               PROVE  IInvPedidos'
    OBVIOUS
  <2>1. IInv'
    BY TipoPaso, CustodiaPaso DEF IInv, IInvPedidos
  <2>2. UnidadDeLaOperacion'
    BY UnidadPaso DEF IInvPedidos, Abastecimiento
  <2>3. PedidoEsperaVenta' /\ RecibidaExiste'
    BY PedidosMantiene DEF IInvPedidos, Abastecimiento
  <2>4. DisponibilidadMaterializada'
    BY PromesasMantiene DEF IInvPedidos, Abastecimiento
  <2>5. IsFiniteSet(reservas') /\ CapacidadRespetada'
    BY CapacidadMantiene DEF IInvPedidos, Abastecimiento
  <2>6. QED
    BY <2>1, <2>2, <2>3, <2>4, <2>5 DEF IInvPedidos, Abastecimiento
<1>3. QED
  BY <1>1, <1>2, PTL DEF Spec

\* An operation never holds a unit of another branch or model, whatever moves,
\* is corrected or arrives.
THEOREM UnitOfTheSale == Spec => []UnidadDeLaOperacion
<1>1. IInvPedidos => UnidadDeLaOperacion
  BY DEF IInvPedidos, Abastecimiento
<1>2. QED
  BY <1>1, InductiveSupply, PTL

\* Suppliers' stock is never promised beyond what was reported.
THEOREM CapacityRespected == Spec => []CapacidadRespetada
<1>1. IInvPedidos => CapacidadRespetada
  BY DEF IInvPedidos, Abastecimiento
<1>2. QED
  BY <1>1, InductiveSupply, PTL

\* A sale never holds a unit together with the promise of that unit.
THEOREM PromiseEndsWithUnit == Spec => []DisponibilidadMaterializada
<1>1. IInvPedidos => DisponibilidadMaterializada
  BY DEF IInvPedidos, Abastecimiento
<1>2. QED
  BY <1>1, InductiveSupply, PTL

\* No order waits for the approval of a sale that is already approved.
THEOREM ApprovedFreesOrders == Spec => []AprobadaSinPedidoBloqueado
<1>1. IInvPedidos => AprobadaSinPedidoBloqueado
  BY DEF IInvPedidos, Abastecimiento, PedidoEsperaVenta, AprobadaSinPedidoBloqueado
<1>2. QED
  BY <1>1, InductiveSupply, PTL

\* An order that does not exist yet has brought nothing.
NuevaSinRecibir ==
    \A k \in Solicitudes : solicitud[k].estado = "INEXISTENTE" =>
        solicitud[k].recibida = Ninguna

\* Orders are placed without a unit, so placing one rewrites nothing.
LEMMA NuevaSinRecibirSiempre == Spec => []NuevaSinRecibir
<1>1. Init => NuevaSinRecibir
  BY DEF Init, InitVacio, InitFlujoAnterior, SolicitudInexistente, NuevaSinRecibir
<1>2. IInv /\ NuevaSinRecibir /\ [Next]_vars => NuevaSinRecibir'
  BY PedidosPaso DEF NuevaSinRecibir, EfectoPedido
<1>3. QED
  BY <1>1, <1>2, Inductive, PTL DEF Spec

\* What an order brought stays what it brought, and a sold unit stays as it is.
THEOREM ReceptionIsFinal == Spec => RecepcionDefinitiva
<1>1. ASSUME IInv, NuevaSinRecibir, [Next]_vars
      PROVE  /\ \A k \in Solicitudes : solicitud[k].recibida # Ninguna =>
                   solicitud'[k].recibida = solicitud[k].recibida
             /\ \A u \in Unidades : unidad[u].estado = "VENDIDO" =>
                   unidad'[u] = unidad[u]
  BY <1>1, PedidosPaso, UnidadesQuedan DEF NuevaSinRecibir, EfectoPedido
<1>2. QED
  BY <1>1, Inductive, NuevaSinRecibirSiempre, PTL DEF Spec, RecepcionDefinitiva

===============================================================================
