------------------------------- MODULE Reminders -------------------------------
(***************************************************************************)
(* The service reminders (src/src/service-orders, service-reminders): which *)
(* delivered motorbikes the office has to call about today, computed from  *)
(* the deliveries and the service orders, and the calls it already made.   *)
(*                                                                         *)
(* The units are motorbikes; cars have no reminders.  Left out: the channel *)
(* and the note of a call, the name of the service, the filter by branch.  *)
(***************************************************************************)
EXTENDS Workshop, Licensing

CONSTANTS
    FIRST_SERVICE_DAYS,   \* days from the delivery to the first service
    UnAnio,               \* days from a service to the next one
    DAYS_AHEAD, OVERDUE_DAYS   \* the days a reminder is shown before, and after

VARIABLES
    avisos,     \* reminders resolved: unit, stage and due day  avisos_service
    llamadas    \* history: units called about, and nothing happened since

recordatoriosVars == <<avisos, llamadas>>

DONE_STATES == {"TERMINADA", "ENTREGADA"}

OrdenesDe(u, estados) ==
    {o \in Recibidas : ordenes[o].unidad = u /\ ordenes[o].estado \in estados}

VentasDe(u) ==
    {o \in Ventas : ventas[o].unidad = u /\ ventas[o].estado \in {"APROBADA", "CERRADA"}}

Entregas(u) == {ventas[o].entregada : o \in VentasDe(u)} \ {NoHay}

Servicios(u) == {ordenes[o].terminada : o \in OrdenesDe(u, DONE_STATES)}

\* Mutant of Aviso: the due day is counted from today.
Aviso_desdeHoy(u) ==
    [unidad |-> u,
     etapa |-> IF Servicios(u) = {} THEN "PRIMER_SERVICE" ELSE "ANUAL",
     vence |-> hoy + (IF Servicios(u) = {} THEN 0 ELSE UnAnio)]

\* The reminder of a unit: after its delivery, then after its last service.
Aviso(u) ==
    IF Servicios(u) = {}
    THEN [unidad |-> u, etapa |-> "PRIMER_SERVICE",
          vence |-> Max(Entregas(u)) + FIRST_SERVICE_DAYS]
    ELSE [unidad |-> u, etapa |-> "ANUAL", vence |-> Max(Servicios(u)) + UnAnio]

EnVentana(vence) == hoy <= vence + OVERDUE_DAYS /\ vence <= hoy + DAYS_AHEAD

\* The reminders of today; a unit in the workshop has none.
list ==
    {Aviso(u) : u \in {x \in Unidades :
        Entregas(x) # {} /\ OrdenesDe(x, OPEN_STATES) = {}
          /\ EnVentana(Aviso(x).vence)}}

pending == list \ avisos

-------------------------------------------------------------------------------
(* Requests *)

\* The office calls, or not; the day may be one it saw before.
resolve(a) ==
    /\ VentasDe(a.unidad) # {}
    /\ avisos' = avisos \cup {a}
    /\ llamadas' = IF a \in list THEN llamadas \cup {a.unidad} ELSE llamadas

reopenReminder(a) ==
    /\ VentasDe(a.unidad) # {}
    /\ avisos' = avisos \ {a}
    /\ llamadas' = llamadas \ {a.unidad}

\* What another request does to the history: a delivery, a service finished,
\* reopened, cancelled or moved to another unit begins a new reminder.
OlvidaLlamadas ==
    /\ UNCHANGED avisos
    /\ llamadas' = {u \in llamadas : /\ Entregas(u)' = Entregas(u)
                                     /\ Servicios(u)' = Servicios(u)}

-------------------------------------------------------------------------------
(* Properties *)

RecordatoriosOK ==
    \A a \in avisos : a.unidad \in Unidades /\ a.etapa \in {"PRIMER_SERVICE", "ANUAL"}

\* A client who was called is not called again about the same unit, on no later
\* day and whatever the workshop does with its open orders, until a service is
\* finished, undone or delivered, or the office takes the call back.
NoSeLlamaDosVeces == \A a \in pending : a.unidad \notin llamadas
===============================================================================
