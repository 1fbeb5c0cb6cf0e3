--------------------------------- MODULE Desks ---------------------------------
(***************************************************************************)
(* The desks of a branch around a sale: prices, credit inquiries and the   *)
(* clients they create before it; the workshop, the license plates and the *)
(* service reminders after it.  The workshop and the licensing office      *)
(* charge clients through the same incomes and the same keys, that the     *)
(* finance office collects and reverses; the reminders read the deliveries *)
(* of one and the orders of the other.                                     *)
(***************************************************************************)
EXTENDS Reminders, Prices, Inquiries

CONSTANTS
    Escenarios   \* initial rows, with the bounds of their requests

-------------------------------------------------------------------------------
(* Rows *)

Tipo == [tareas : Nat, activo : BOOLEAN]

Tareas == Seq({"pendiente", "si", "no"})

Orden ==
    [numero : Nat \ {0}, tipo : Tipos \cup Otros, tareas : Tareas,
     estado : {"RECIBIDA", "EN_TALLER", "TERMINADA", "ENTREGADA", "CANCELADA"},
     mecanico : BOOLEAN, terminada : 0..MaxDia \cup {NoHay},
     unidad : Unidades \cup {NoHay}, importe : Importes \cup {NoHay},
     ingreso : Nat \cup {NoHay}, version : Nat]

Venta ==
    [estado : OVERDUE_ELIGIBLE_STATES \cup {"BORRADOR", "RECHAZADA", "CANCELADA"},
     unidad : Unidades \cup {NoHay}, importe : Importes \cup {NoHay},
     modalidad : {NoHay, "BONIFICADA", "PAGA_CLIENTE"},
     estimada : Nat \cup {NoHay}, recibida : BOOLEAN,
     entregada : 0..MaxDia \cup {NoHay}]

Cliente == [doc : Documentos \cup {SinDato}, activo : BOOLEAN]

Presupuesto ==
    [tipos : Nat, altas : Nat, taller : Nat, entregas : Nat, ventas : Nat,
     modalidades : Nat, patentes : Nat, stock : Nat, cobros : Nat, dias : Nat,
     avisos : Nat,
     motos : SUBSET Unidades, precios : Nat, consultas : Nat, clientes : Nat]

\* What the requests carry.
ASSUME DatosEnviados ==
    /\ Importes \subseteq Nat /\ {PorDefecto, Plazo, MaxDia, UltimoDia} \subseteq Nat
    /\ Listas \subseteq Tareas
    /\ \A x \in Pedidos : x.doc \in Documentos

\* NULL is no value of a column, and no row.
ASSUME NuloAparte ==
    /\ NoHay \notin Unidades \cup Ordenes \cup Ventas /\ NoHay \notin Nat
    /\ NoHay \notin Orden /\ NoHay \notin Tipo
    /\ SinDato \notin Documentos /\ SinDato \notin Clientes /\ SinDato \notin Cliente

\* The rows an organization starts with: the terms of a plate are those of who
\* pays for it, two units do not have one plate, nor two clients one document.
ASSUME EscenariosPosibles ==
    \A e \in Escenarios :
        /\ e.tipos \in [Tipos -> Tipo \cup {NoHay}]
        /\ e.ventas \in [Ventas -> Venta]
        /\ \A o \in Ventas : e.ventas[o].importe # NoHay =>
              e.ventas[o].modalidad = "PAGA_CLIENTE"
        /\ e.placas \in [Unidades -> Patentes \cup {NoHay}]
        /\ \A u, x \in Unidades :
              (u # x /\ e.placas[u] # NoHay /\ e.placas[x] # NoHay) =>
                  normalizeLicensePlate(e.placas[u]) # normalizeLicensePlate(e.placas[x])
        /\ e.hoy \in 0..MaxDia
        /\ e.clientes \in [Clientes -> Cliente \cup {SinDato}]
        /\ \A c, d \in Clientes :
              (e.clientes[c] # SinDato /\ e.clientes[d] # SinDato
                 /\ e.clientes[c].doc # SinDato /\ e.clientes[c].doc = e.clientes[d].doc)
              => c = d
        /\ e.quedan \in Presupuesto

-------------------------------------------------------------------------------
VARIABLES quedan \* what each kind of request may still do

posventaVars == <<recibosVars, tallerVars, patentesVars>>

vars == <<posventaVars, recordatoriosVars, preciosVars, consultasVars, quedan>>

Gasta(q) == quedan[q] > 0 /\ quedan' = [quedan EXCEPT ![q] = @ - 1]

Init ==
    \E e \in Escenarios :
        /\ tipos = e.tipos /\ ordenes = [o \in Ordenes |-> NoHay]
        /\ pedidos = [p \in Procesos |-> NoHay]
        /\ firmado = [o \in Ordenes |-> NoHay]
        /\ ventas = e.ventas /\ placas = e.placas
        /\ enTramite = [o \in Ventas |-> NoHay] /\ carreras = {}
        /\ hoy = e.hoy
        /\ ingresos = <<>> /\ movimientos = {}
        /\ avisos = {} /\ llamadas = {}
        /\ politicas = {} /\ provision = Siempre
        /\ clientes = e.clientes /\ bloqueos = {} /\ editados = {}
        /\ consultas = {} /\ tramites = [p \in Mostrador |-> SinDato]
        /\ respuestas = {}
        /\ quedan = e.quedan

-------------------------------------------------------------------------------
(* After the sale *)

\* Units the workshop receives; NoHay is one that Luma does not know.
Motos == quedan.motos \cup {NoHay}

\* The rest of the requests on orders read, then write.
Taller ==
    \/ /\ Gasta("tipos") /\ UNCHANGED recibosVars
       /\ \/ \E t \in Tipos, n \in 0..1 : createType(t, n)
          \/ \E t \in Tipos, n \in 0..1, a \in BOOLEAN : updateType(t, n, a)
    \/ /\ Gasta("altas") /\ UNCHANGED recibosVars
       /\ \E o \in Ordenes, tipo \in Tipos \cup Otros, u \in Motos : create(o, tipo, u)
    \/ /\ Gasta("taller") /\ UNCHANGED recibosVars
       /\ \E p \in Procesos, o \in Ordenes :
             \/ \E tipo \in Tipos \cup Otros \cup {NoHay}, u \in Motos :
                   ordenes[o] # NoHay /\ update(p, o, tipo, u)
             \/ cancel(p, o)
             \/ reopen(p, o)
             \/ \E tareas \in Listas : saveWork(p, o, tareas)
             \/ \E tareas \in Listas : finish(p, o, tareas, hoy)
    \/ /\ Gasta("entregas") /\ UNCHANGED recibosVars
       /\ \E p \in Procesos, o \in Ordenes, i \in Importes, k \in Claves :
             deliver(p, o, i, k)
    \/ \E p \in Procesos : write(p) /\ UNCHANGED quedan
    \/ \E p \in Procesos : Deshacer(p) /\ UNCHANGED <<recibosVars, quedan>>

Cobros == {NoHay} \cup [importe : Importes \ {0}, clave : Claves]

Patentamiento ==
    \/ /\ Gasta("ventas")
       /\ \E o \in Ventas :
             \/ \E d \in {"APROBADA", "RECHAZADA"} : Decidir(o, d)
             \/ Cerrar(o)
             \/ CancelarVenta(o)
             \/ Soltar(o)
             \/ \E u \in Unidades : assignUnit(o, u)
             \/ \E entregada \in BOOLEAN : Entregar(o, entregada)
    \/ /\ Gasta("modalidades")
       /\ \E o \in Ventas, i \in Importes \cup {NoHay},
             modalidad \in {"BONIFICADA", "PAGA_CLIENTE"} :
                updateLicensing(o, modalidad, i)
    \/ /\ Gasta("patentes")
       /\ \E o \in Ventas, x \in Patentes, c \in Cobros :
             registerLicensePlate(o, x, c)
    \/ /\ Gasta("stock")
       /\ \E u \in Unidades :
             \/ \E x \in Patentes \cup {NoHay} : updateUnit(u, x)
             \/ \E x \in Patentes : createUnit(u, x)
    \/ /\ Gasta("cobros")
       /\ \E o \in Ventas, i \in Importes, k \in Claves : collectLicensing(o, i, k)
    \/ \E o \in Ventas : RecibePatente(o) /\ UNCHANGED quedan
    \/ \E o \in Ventas : DeshacerPatente(o) /\ UNCHANGED quedan
    \/ Gasta("dias") /\ Dia

Administracion ==
    /\ Gasta("cobros")
    /\ \/ \E o \in Ventas, i \in Importes \ {0} : createIncome(DePatente(o), i)
       \/ \E i \in DOMAIN ingresos, monto \in Importes \ {0}, k \in Claves :
             registerCollection(i, monto, k)
       \/ \E i \in DOMAIN ingresos, v \in Ventas \cup {NoHay},
             importe \in Importes \ {0} : updateIncome(i, v, importe)
       \/ \E m \in movimientos : reverse(m)

Posventa ==
    \/ Taller /\ UNCHANGED patentesVars
    \/ Patentamiento /\ UNCHANGED tallerVars
    \/ Administracion /\ UNCHANGED <<tallerVars, patentesVars>>

\* Reminders the office may name: the ones it may see, and one it may not.
Nombrables ==
    UNION {{Aviso(u), [Aviso(u) EXCEPT !.vence = 0]} :
              u \in {x \in quedan.motos : Entregas(x) # {} \/ Servicios(x) # {}}}

Recordatorios ==
    /\ Gasta("avisos")
    /\ \/ \E a \in Nombrables : resolve(a)
       \/ \E a \in avisos : reopenReminder(a)

-------------------------------------------------------------------------------
(* Before the sale *)

Precios ==
    \/ /\ Gasta("precios")
       /\ \/ \E s \in Alcances, d \in Dias, h \in Dias \cup {Siempre} :
                createPricePolicy(s, d, h)
          \/ \E d \in Dias : provisionVersionWithPolicy(d, hoy)
    \/ Provee /\ UNCHANGED quedan
    \/ DeshaceProvision /\ UNCHANGED quedan

Consultas ==
    \/ /\ Gasta("consultas")
       /\ \E p \in Mostrador, k \in LlavesConsulta, x \in Pedidos : Enviar(p, k, x)
    \/ \E p \in Mostrador : Paso(p) /\ UNCHANGED quedan
    \/ /\ Gasta("clientes") /\ UNCHANGED <<consultas, tramites, respuestas>>
       /\ \E c \in Clientes :
             \/ \E doc \in Documentos \cup {SinDato} :
                   createClient(c, doc) \/ updateClient(c, doc)
             \/ \E activo \in BOOLEAN : updateStatus(c, activo)
             \/ \E doc \in Documentos : resolveClient(c, doc)

Next ==
    \/ Posventa /\ OlvidaLlamadas /\ UNCHANGED <<preciosVars, consultasVars>>
    \/ Recordatorios /\ UNCHANGED <<posventaVars, preciosVars, consultasVars>>
    \/ Precios /\ UNCHANGED <<posventaVars, recordatoriosVars, consultasVars>>
    \/ Consultas /\ UNCHANGED <<posventaVars, recordatoriosVars, preciosVars>>

Spec == Init /\ [][Next]_vars

\* Every row has the shape of its table and obeys its checks.
TypeOK ==
    /\ RecibosOK /\ TallerOK /\ PatentesOK /\ RecordatoriosOK
    /\ PreciosOK /\ ConsultasOK
===============================================================================
