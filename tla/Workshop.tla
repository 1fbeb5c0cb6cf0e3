------------------------------- MODULE Workshop -------------------------------
(***************************************************************************)
(* Service orders (src/src/service-orders): received, worked on, signed by *)
(* the mechanic, charged and delivered.  A request reads the order, checks *)
(* it and writes it at the end of its transaction, where the row must      *)
(* still have the version that was read: two steps of a process.  A lost   *)
(* answer and the client's repetition change nothing by themselves: the    *)
(* repetition is one more request.                                         *)
(*                                                                         *)
(* A task is what the mechanic marked: "si", "no" or nothing yet.  Left    *)
(* out: client, mileage, oil, spare parts, notes and branches,             *)
(* that only their own request writes, and the lists that read orders.     *)
(***************************************************************************)
EXTENDS Receipts

CONSTANTS
    Ordenes,   \* ids of orders
    Tipos,     \* types of service
    Otros,     \* names written under "Otro" instead of a type
    Listas,    \* lists of marked tasks a mechanic may send
    PorDefecto,\* number of DEFAULT_SERVICE_TASKS
    Procesos   \* requests in flight

VARIABLES
    tipos,     \* [Tipos -> row or NoHay]        tipos_service
    ordenes,   \* [Ordenes -> row or NoHay]      ordenes_service
    pedidos,   \* [Procesos -> request or NoHay] what it read and will write
    firmado    \* history: the tasks the mechanic signed last

tallerVars == <<tipos, ordenes, pedidos, firmado>>

OPEN_STATES == {"RECIBIDA", "EN_TALLER"}

checklist(n) == [i \in 1..n |-> "pendiente"]

-------------------------------------------------------------------------------
(* Types of service *)

saveType(t, n, activo) ==
    /\ tipos' = [tipos EXCEPT ![t] = [tareas |-> n, activo |-> activo]]
    /\ UNCHANGED <<ordenes, pedidos, firmado>>

createType(t, n) == tipos[t] = NoHay /\ saveType(t, n, TRUE)

updateType(t, n, activo) == tipos[t] # NoHay /\ saveType(t, n, activo)

\* The type of an order and its checklist, when the request changes the type.
ConTipo(tipo) ==
    [tipo |-> tipo,
     tareas |-> checklist(IF tipo \in Otros \/ tipos[tipo].tareas = 0
                          THEN PorDefecto ELSE tipos[tipo].tareas)]

\* The columns of a request that may also give another unit.
ConUnidad(unidad, columnas) ==
    IF unidad = NoHay THEN columnas
    ELSE [k \in DOMAIN columnas \cup {"unidad"} |->
            IF k = "unidad" THEN unidad ELSE columnas[k]]

TipoValido(tipo) == tipo \in Tipos => tipos[tipo] # NoHay /\ tipos[tipo].activo

tipo_service_id(tipo) == IF tipo \in Tipos THEN tipo ELSE NoHay

-------------------------------------------------------------------------------
(* Reading and writing an order *)

Libre(p) == pedidos[p] = NoHay

\* The request p read order o and will change some of its columns, and charge.
load(p, o, columnas, cobro) ==
    /\ Libre(p)
    /\ pedidos' = [pedidos EXCEPT ![p] =
          [orden |-> o, version |-> ordenes[o].version, columnas |-> columnas,
           cobro |-> cobro]]
    /\ UNCHANGED <<tipos, ordenes, firmado>>

\* Mutant of MismaVersion: the write does not look at the version.
MismaVersion_ciega(o, version) == TRUE

MismaVersion(o, version) == ordenes[o].version = version

Nada == [importe |-> 0]

\* Incomes of service orders are charged in full at the delivery.
collect(o, cobro) == Cobra(DeService(o), cobro.importe, cobro.clave)

\* The end of the transaction: its charge and its order, or nothing.
write(p) ==
    /\ ~ Libre(p)
    /\ LET r == pedidos[p]
           o == r.orden
           firma == "mecanico" \in DOMAIN r.columnas /\ r.columnas.mecanico
           fila == [c \in DOMAIN ordenes[o] |->
                      IF c = "version" THEN ordenes[o].version + 1
                      ELSE IF c = "ingreso" /\ r.cobro.importe > 0
                      THEN Len(ingresos) + 1
                      ELSE IF c \in DOMAIN r.columnas THEN r.columnas[c]
                      ELSE ordenes[o][c]]
       IN  /\ MismaVersion(o, r.version)
           /\ ordenes' = [ordenes EXCEPT ![o] = fila]
           /\ firmado' = IF firma THEN [firmado EXCEPT ![o] = r.columnas.tareas]
                         ELSE firmado
           /\ IF r.cobro.importe > 0 THEN collect(o, r.cobro)
              ELSE UNCHANGED recibosVars
    /\ pedidos' = [pedidos EXCEPT ![p] = NoHay]
    /\ UNCHANGED tipos

\* The transaction ends without a trace: a conflict, an error, a restart.
Deshacer(p) ==
    /\ ~ Libre(p)
    /\ pedidos' = [pedidos EXCEPT ![p] = NoHay]
    /\ UNCHANGED <<tipos, ordenes, firmado>>

Esta(o, estados) == ordenes[o] # NoHay /\ ordenes[o].estado \in estados

-------------------------------------------------------------------------------
(* Requests *)

\* The lock of the organization gives each order the next number.
create(o, tipo, unidad) ==
    /\ ordenes[o] = NoHay /\ TipoValido(tipo)
    /\ LET numeros == {ordenes[x].numero : x \in {y \in Ordenes : ordenes[y] # NoHay}}
       IN  ordenes' = [ordenes EXCEPT ![o] =
              [numero |-> Max(numeros \cup {0}) + 1, estado |-> "RECIBIDA",
               tipo |-> tipo, tareas |-> ConTipo(tipo).tareas,
               mecanico |-> FALSE, terminada |-> NoHay, unidad |-> unidad,
               importe |-> NoHay, ingreso |-> NoHay, version |-> 0]]
    /\ UNCHANGED <<tipos, pedidos, firmado>>

\* The reception corrects an order, with another type of service or unit or not.
\* Once the mechanic began the type is locked, if it is one of the list.
update(p, o, tipo, unidad) ==
    /\ Esta(o, OPEN_STATES)
    /\ LET c == ordenes[o]
           otroTipo == IF tipo \in {NoHay, c.tipo} THEN <<>> ELSE ConTipo(tipo)
       IN  /\ tipo # NoHay /\ c.estado # "RECIBIDA" =>
                 tipo_service_id(tipo) = tipo_service_id(c.tipo)
           /\ tipo # NoHay => TipoValido(tipo)
           /\ load(p, o, ConUnidad(unidad, otroTipo), Nada)

cancel(p, o) ==
    /\ Esta(o, OPEN_STATES \cup {"TERMINADA"})
    /\ load(p, o, [estado |-> "CANCELADA"], Nada)

reopen(p, o) ==
    /\ Esta(o, {"TERMINADA"})
    /\ load(p, o, [estado |-> "EN_TALLER", mecanico |-> FALSE,
                   terminada |-> NoHay], Nada)

saveWork(p, o, tareas) ==
    /\ Esta(o, OPEN_STATES)
    /\ load(p, o, [estado |-> "EN_TALLER", tareas |-> tareas], Nada)

Firmable(tareas) ==
    tareas # <<>> /\ \A i \in DOMAIN tareas : tareas[i] # "pendiente"

finish(p, o, tareas, dia) ==
    /\ Esta(o, OPEN_STATES) /\ Firmable(tareas)
    /\ load(p, o, [estado |-> "TERMINADA", tareas |-> tareas, mecanico |-> TRUE,
                   terminada |-> dia], Nada)

\* A repetition of the delivery finds the order delivered and changes nothing.
deliver(p, o, importe, clave) ==
    /\ Esta(o, {"TERMINADA"})
    /\ importe > 0 => ~ Usada(clave)
    /\ load(p, o, [estado |-> "ENTREGADA", importe |-> importe],
            [importe |-> importe, clave |-> clave])

-------------------------------------------------------------------------------
(* Properties *)

Recibidas == {o \in Ordenes : ordenes[o] # NoHay}

TiposOK ==
    \A t \in Tipos : tipos[t] # NoHay =>
        tipos[t].tareas \in Nat /\ tipos[t].activo \in BOOLEAN

OrdenesOK ==
    \A o \in Recibidas :
        /\ ordenes[o].estado \in {"RECIBIDA", "EN_TALLER", "TERMINADA",
                                  "ENTREGADA", "CANCELADA"}
        /\ ordenes[o].version \in Nat
        /\ ordenes[o].estado \in {"TERMINADA", "ENTREGADA"} =>
              ordenes[o].mecanico /\ ordenes[o].terminada # NoHay
        /\ ordenes[o].estado = "ENTREGADA" => ordenes[o].importe \in Nat
        /\ ordenes[o].ingreso # NoHay => ordenes[o].ingreso \in DOMAIN ingresos

TallerOK ==
    /\ TiposOK /\ OrdenesOK
    /\ {ordenes[o].numero : o \in Recibidas} = 1..Cardinality(Recibidas)

\* What is delivered is what the mechanic signed, every task marked: nobody
\* changes the work of an order between the signature and the delivery.
FirmadaSinCambios ==
    \A o \in Recibidas : ordenes[o].estado \in {"TERMINADA", "ENTREGADA"} =>
        ordenes[o].tareas = firmado[o] /\ Firmable(ordenes[o].tareas)

\* What the deliveries of an order charged.
IngresosService(o) == {i \in DOMAIN ingresos : ingresos[i].de.orden = o}

\* An order is charged once, by its delivery: no request that crossed another
\* one left an income behind.  The amount of the income is another matter: the
\* finance office may edit it afterwards.
CobradaUnaVez ==
    \A o \in Ordenes :
        IngresosService(o) =
            IF Esta(o, {"ENTREGADA"}) /\ ordenes[o].importe > 0
            THEN {ordenes[o].ingreso} ELSE {}

\* A delivered order is the work that was signed, charged once.
EntregadaCompleta == FirmadaSinCambios /\ CobradaUnaVez
===============================================================================
