--------------------------- MODULE PaymentPlanProofs ---------------------------
(***************************************************************************)
(* Theorems about PaymentPlan, for any prices, policies, institutions and  *)
(* bounds.                                                                 *)
(*                                                                         *)
(* The status of a component is what its request computed when it read.    *)
(* Between the read and the commit others commit too: what they write is   *)
(* of other incomes, and only a request on the same component, which then  *)
(* is in solapados, changes what was read.  IInv says so of each           *)
(* transaction in flight.  The prices need of the approvals only that the  *)
(* one that waits is the only one.                                         *)
(***************************************************************************)
EXTENDS PaymentPlan, Sums, SequenceTheorems

-------------------------------------------------------------------------------

EstadosComp == {"PENDIENTE", "PAGO_PARCIAL", "PAGADO", "CANCELADA"}

Aprobacion == [id : 1..MaxAprobaciones, lista : Nat, minimo : Nat, acordado : Precios,
               decision : {"PENDIENTE", "APROBADA", "RECHAZADA"}]

Ingreso == [id : 1..MaxIngresos, comp : {0} \cup Ids, importe : Importes]

Movimiento == [id : 1..MaxMovimientos, ingreso : 1..MaxIngresos,
               importe : Importes, revierte : 0..MaxMovimientos]

Transaccion == [tipo : {"COBRO_PLAN", "COBRO", "REVERSA"}, comp : {0} \cup Ids,
                ingreso : 1..MaxIngresos, mov : Movimiento,
                altas : SUBSET Ingreso, estado : {""} \cup EstadosComp]

\* The terms of the sale are those of its platform.
OperacionOK ==
    operacion # <<>> => operacion \in Operacion /\ CondicionesDe(operacion) \in Condiciones

\* A component is of one kind and paid by one institution.
ComponenteOK(f) ==
    f \in Componente /\ (f.tipo = "FINANCIACION" <=> f.financiera # "")

\* The rows have their shape; no component exists before the sale.
TiposOK ==
    /\ OperacionOK
    /\ aprobaciones \subseteq Aprobacion /\ IsFiniteSet(aprobaciones)
    /\ comp \in Seq(Componente) /\ Len(comp) <= MaxComponentes
    /\ \A c \in DOMAIN comp : ComponenteOK(comp[c])
    /\ ingreso \subseteq Ingreso /\ IsFiniteSet(ingreso)
    /\ \A i \in ingreso : i.comp # 0 => i.comp \in DOMAIN comp
    /\ movimientos \subseteq Movimiento
    /\ enCurso \subseteq Transaccion

\* The approvals that wait are one while the sale waits, and none otherwise.
Espera ==
    IF Existe /\ operacion.estado = "PENDIENTE_APROBACION"
    THEN \E a \in aprobaciones : Pendientes(aprobaciones) = {a}
    ELSE Pendientes(aprobaciones) = {}

\* Ids identify rows, those of the transactions in flight too.
IdsUnicos ==
    /\ \A i, j \in ingreso : i.id = j.id => i = j
    /\ \A m, n \in movimientos : m.id = n.id => m = n
    /\ \A t \in enCurso, m \in movimientos : t.mov.id # m.id
    /\ \A t, u \in enCurso : t # u => t.mov.id # u.mov.id /\ t.ingreso # u.ingreso

\* A collection of the plan brings its income; the others hold the lock of one.
IngresoOK(t) ==
    IF t.tipo = "COBRO_PLAN"
    THEN /\ t.comp \in DOMAIN comp
         /\ \E x \in Importes : t.altas = {[id |-> t.ingreso, comp |-> t.comp, importe |-> x]}
         /\ \A i \in ingreso : i.id # t.ingreso
    ELSE /\ t.altas = {}
         /\ \E i \in ingreso : i.id = t.ingreso /\ i.comp = t.comp

\* Its movement is of its income, and takes back one of it or none.
MovimientoOK(t) ==
    /\ t.mov.ingreso = t.ingreso
    /\ t.mov.revierte # 0 =>
          \E m \in movimientos : m.id = t.mov.revierte /\ m.ingreso = t.ingreso

\* Unless another request worked on the component, the status it will write is
\* that of what will be collected when it commits.
EstadoOK(t) ==
    t.comp # 0 /\ t.comp \notin solapados =>
        (IF t.estado = "" THEN comp[t.comp].estado ELSE t.estado) =
            syncComponentPaymentStatus(comp[t.comp],
                componentCollectedAmount(movimientos \cup {t.mov},
                                         ingreso \cup t.altas, t.comp)).estado

EnCursoOK ==
    \A t \in enCurso : /\ IngresoOK(t) /\ MovimientoOK(t) /\ EstadoOK(t)
                       /\ t.comp = 0 => t.estado = ""

\* Two requests on one component are seen.
SolapadosOK ==
    \A t, u \in enCurso : t # u /\ t.comp = u.comp /\ t.comp # 0 => t.comp \in solapados

IInv ==
    /\ TiposOK /\ Espera /\ BajoMinimoAutorizada
    /\ (~Existe => aprobaciones = {})
    /\ IdsUnicos /\ EnCursoOK /\ SolapadosOK /\ EstadoDelComponente
-------------------------------------------------------------------------------
(* Prices and approvals *)

\* The deferred trigger leaves no sale under the minimum without its approval.
LEMMA DisparadorAutoriza ==
    ASSUME Existe', PasaDisparadores(operacion', aprobaciones', comp')
    PROVE  BajoMinimoAutorizada'
BY DEF PasaDisparadores, AprobacionPara, BajoMinimoAutorizada, Existe

\* What a request about the price leaves is enough.
LEMMA SoloOperacion ==
    ASSUME IInv, UNCHANGED <<comp, ingreso, movimientos, enCurso, solapados>>,
           OperacionOK', aprobaciones' \subseteq Aprobacion,
           IsFiniteSet(aprobaciones'), Espera', BajoMinimoAutorizada', Existe'
    PROVE  IInv'
<1>1. TiposOK'
  BY DEF IInv, TiposOK
<1>2. IdsUnicos' /\ SolapadosOK'
  BY DEF IInv, IdsUnicos, SolapadosOK
<1>3. EnCursoOK'
  BY DEF IInv, EnCursoOK, IngresoOK, MovimientoOK, EstadoOK
<1>4. EstadoDelComponente'
  BY DEF IInv, EstadoDelComponente, Vigentes
<1>5. QED
  BY <1>1, <1>2, <1>3, <1>4 DEF IInv

\* An operation is a row: it is not the empty one.
LEMMA OperacionExiste == ASSUME NEW o \in Operacion PROVE o # <<>>
<1>1. DOMAIN o # {}
  BY DEF Operacion
<1>2. DOMAIN <<>> = {}
  OBVIOUS
<1>3. QED
  BY <1>1, <1>2

\* The terms of a sale and the policy that quotes it make an operation.
LEMMA ConTerminos ==
    ASSUME NEW o \in Operacion, NEW c \in Condiciones,
           NEW pol, pol.lista \in Nat, pol.minimo \in Nat
    PROVE  LET f == ConPrecios(ConCondiciones(o, c), pol)
           IN  /\ f \in Operacion /\ CondicionesDe(f) = c /\ CondicionesDe(f) \in Condiciones
               /\ f.estado = o.estado /\ f.precio = c.precio
<1>1. c \in Condicion
  BY DEF Condiciones
<1>2. PICK g : g = ConCondiciones(o, c)
  OBVIOUS
<1>3. g \in Operacion /\ CondicionesDe(g) = c /\ g.estado = o.estado
  BY <1>1, <1>2 DEF ConCondiciones, Operacion, Condicion, CondicionesDe
<1>4. PICK f : f = ConPrecios(g, pol)
  OBVIOUS
<1>5. f \in Operacion /\ f.estado = g.estado /\ CondicionesDe(f) = CondicionesDe(g)
  BY <1>3, <1>4 DEF ConPrecios, Operacion, CondicionesDe
<1>6. f.precio = c.precio
  BY <1>3, <1>5 DEF CondicionesDe
<1>7. QED
  BY <1>2, <1>3, <1>4, <1>5, <1>6

\* The policies, and the prices an operation has.
LEMMA PreciosDePolitica ==
    ASSUME IInv, Existe, NEW pol \in Politicas \cup {PreciosDe(operacion)}
    PROVE  pol.lista \in Nat /\ pol.minimo \in Nat
<1>1. CASE pol \in Politicas
  BY <1>1, ConstantesValidas
<1>2. CASE pol = PreciosDe(operacion)
  BY <1>2 DEF IInv, TiposOK, OperacionOK, Existe, Operacion, PreciosDe
<1>3. QED
  BY <1>1, <1>2

\* A submission waits for an approval of its own, the only one.
LEMMA EnviarMantiene ==
    ASSUME IInv, NEW o \in Operacion, o.estado = "BORRADOR",
           CondicionesDe(o) \in Condiciones, NEW pol \in Politicas,
           Cardinality(aprobaciones) < MaxAprobaciones,
           Pendientes(aprobaciones) = {},
           operacion' = submitLockedOperation(o, pol),
           aprobaciones' = AprobacionesTrasEnviar(o, pol),
           PasaDisparadores(operacion', aprobaciones', comp),
           UNCHANGED <<comp, ingreso, movimientos, enCurso, solapados>>
    PROVE  IInv'
<1>1. pol.lista \in Nat /\ pol.minimo \in Nat
  BY ConstantesValidas
<1>2. /\ operacion' \in Operacion /\ CondicionesDe(operacion') \in Condiciones
      /\ operacion'.estado = IF NecesitaAprobacion(o, pol)
                             THEN "PENDIENTE_APROBACION" ELSE "APROBADA"
  BY <1>1 DEF submitLockedOperation, Operacion, Estados, CondicionesDe
<1>3. Existe' /\ OperacionOK'
  BY <1>2, OperacionExiste DEF Existe, OperacionOK
<1>4. aprobaciones \subseteq Aprobacion /\ IsFiniteSet(aprobaciones)
  BY DEF IInv, TiposOK
<1>5. PICK n : n = Cardinality(aprobaciones) + 1
  OBVIOUS
<1>6. n \in 1..MaxAprobaciones
  BY <1>4, <1>5, FS_CardinalityType, Cotas
<1>7. PICK a : a = [id |-> n, lista |-> pol.lista, minimo |-> pol.minimo,
                    acordado |-> o.precio, decision |-> "PENDIENTE"]
  OBVIOUS
<1>8. a \in Aprobacion /\ a.decision = "PENDIENTE"
  BY <1>1, <1>6, <1>7 DEF Aprobacion, Operacion
<1>9. BajoMinimoAutorizada'
  BY <1>3, DisparadorAutoriza
<1>10. CASE NecesitaAprobacion(o, pol)
  <2>1. aprobaciones' = aprobaciones \cup {a}
    BY <1>5, <1>7, <1>10 DEF AprobacionesTrasEnviar
  <2>2. Pendientes(aprobaciones') = {a}
    BY <1>8, <2>1 DEF Pendientes
  <2>3. Espera'
    BY <1>2, <1>3, <1>10, <2>1, <2>2 DEF Espera
  <2>4. aprobaciones' \subseteq Aprobacion /\ IsFiniteSet(aprobaciones')
    BY <1>4, <1>8, <2>1, FS_AddElement
  <2>5. QED
    BY <1>3, <1>9, <2>3, <2>4, SoloOperacion
<1>11. CASE ~ NecesitaAprobacion(o, pol)
  <2>1. aprobaciones' = aprobaciones
    BY <1>11 DEF AprobacionesTrasEnviar
  <2>2. Espera'
    BY <1>2, <1>11, <2>1 DEF Espera
  <2>3. QED
    BY <1>3, <1>4, <1>9, <2>1, <2>2, SoloOperacion
<1>12. QED
  BY <1>10, <1>11

\* A sale is created, as a draft or sent.
LEMMA CrearMantiene ==
    ASSUME IInv, NEW c \in Condiciones, NEW pol \in Politicas, NEW enviar \in BOOLEAN,
           create(c, pol, enviar)
    PROVE  IInv'
<1>1. pol.lista \in Nat /\ pol.minimo \in Nat
  BY ConstantesValidas
<1>2. PICK o : o = [estado |-> "BORRADOR", precio |-> c.precio, lista |-> pol.lista,
                    minimo |-> pol.minimo, plataforma |-> c.plataforma,
                    credito |-> c.credito]
  OBVIOUS
<1>3. o \in Operacion /\ o.estado = "BORRADOR" /\ CondicionesDe(o) \in Condiciones
  <2>1. c \in Condicion
    BY DEF Condiciones
  <2>2. o \in Operacion /\ o.estado = "BORRADOR"
    BY <1>1, <1>2, <2>1 DEF Operacion, Estados, Condicion
  <2>3. CondicionesDe(o) = c
    BY <1>2, <2>1 DEF CondicionesDe, Condicion
  <2>4. QED
    BY <2>2, <2>3
<1>4. /\ ~Existe /\ aprobaciones = {}
      /\ operacion' = IF enviar THEN submitLockedOperation(o, pol) ELSE o
      /\ aprobaciones' = IF enviar THEN AprobacionesTrasEnviar(o, pol) ELSE aprobaciones
      /\ PasaDisparadores(operacion', aprobaciones', comp)
      /\ UNCHANGED <<comp, ingreso, movimientos, enCurso, solapados>>
  BY <1>2 DEF create, IInv
<1>5. Pendientes(aprobaciones) = {}
  BY <1>4 DEF Pendientes
<1>6. CASE enviar
  <2>1. Cardinality(aprobaciones) < MaxAprobaciones
    BY <1>4, FS_EmptySet, Cotas
  <2>2. QED
    BY <1>3, <1>4, <1>5, <1>6, <2>1, EnviarMantiene
<1>7. CASE ~enviar
  <2>1. operacion' = o /\ aprobaciones' = aprobaciones
    BY <1>4, <1>7
  <2>2. Existe' /\ OperacionOK'
    BY <1>3, <2>1, OperacionExiste DEF Existe, OperacionOK
  <2>3. Espera'
    BY <1>3, <1>5, <2>1 DEF Espera
  <2>4. BajoMinimoAutorizada'
    BY <1>4, <2>2, DisparadorAutoriza
  <2>5. aprobaciones' \subseteq Aprobacion /\ IsFiniteSet(aprobaciones')
    BY <2>1 DEF IInv, TiposOK
  <2>6. QED
    BY <1>4, <2>2, <2>3, <2>4, <2>5, SoloOperacion
<1>8. QED
  BY <1>6, <1>7

\* The one approval that waits is decided; if none waits, nothing is.
LEMMA DecididaEs ==
    ASSUME IInv, NEW d \in {"APROBADA", "RECHAZADA"}
    PROVE  /\ Decidida(aprobaciones, d) \subseteq Aprobacion
           /\ IsFiniteSet(Decidida(aprobaciones, d))
           /\ Pendientes(Decidida(aprobaciones, d)) = {}
<1>1. aprobaciones \subseteq Aprobacion /\ IsFiniteSet(aprobaciones)
  BY DEF IInv, TiposOK
<1>2. CASE Pendientes(aprobaciones) = {}
  BY <1>1, <1>2 DEF Decidida
<1>3. CASE Pendientes(aprobaciones) # {}
  <2>1. PICK a \in aprobaciones : Pendientes(aprobaciones) = {a}
    BY <1>3 DEF IInv, Espera
  <2>2. a \in Aprobacion /\ a.id <= a.id
    BY <1>1 DEF Aprobacion
  <2>3. (CHOOSE x \in {a} : \A y \in {a} : y.id <= x.id) = a
    BY <2>2
  <2>4. PICK b : b = [a EXCEPT !.decision = d]
    OBVIOUS
  <2>5. Decidida(aprobaciones, d) = (aprobaciones \ {a}) \cup {b}
    BY <1>3, <2>1, <2>3, <2>4 DEF Decidida
  <2>6. b \in Aprobacion /\ b.decision # "PENDIENTE"
    BY <2>2, <2>4 DEF Aprobacion
  <2>7. Pendientes((aprobaciones \ {a}) \cup {b}) = {}
    BY <2>1, <2>6 DEF Pendientes
  <2>8. IsFiniteSet((aprobaciones \ {a}) \cup {b})
    BY <1>1, FS_RemoveElement, FS_AddElement
  <2>9. QED
    BY <1>1, <2>5, <2>6, <2>7, <2>8
<1>4. QED
  BY <1>2, <1>3

\* The rest of the requests about the price and the state of a sale.
LEMMA VentaMantiene ==
    ASSUME IInv,
           \/ \E c \in Condiciones, pol \in Politicas, enviar \in BOOLEAN :
                 create(c, pol, enviar)
           \/ Existe /\ \E c \in Condiciones, pol \in Politicas \cup {PreciosDe(operacion)} :
                           update(c, pol)
           \/ \E pol \in Politicas : submit(pol) \/ CorrectVersion(pol)
           \/ \E aprobada \in BOOLEAN : decide(aprobada)
           \/ cancel \/ close
    PROVE  IInv'
<1>1. aprobaciones \subseteq Aprobacion /\ IsFiniteSet(aprobaciones)
  BY DEF IInv, TiposOK
<1>2. Existe => operacion \in Operacion /\ CondicionesDe(operacion) \in Condiciones
  BY DEF IInv, TiposOK, OperacionOK, Existe
<1>3. ASSUME Existe, NEW c \in Condiciones,
             NEW pol \in Politicas \cup {PreciosDe(operacion)}, update(c, pol)
      PROVE  IInv'
  <2>1. pol.lista \in Nat /\ pol.minimo \in Nat
    BY <1>3, PreciosDePolitica
  <2>2. PICK f : f = ConPrecios(ConCondiciones(operacion, c), pol)
    OBVIOUS
  <2>3. f \in Operacion /\ CondicionesDe(f) \in Condiciones
    BY <1>2, <1>3, <2>1, <2>2, ConTerminos
  <2>4. /\ operacion' = [f EXCEPT !.estado = "BORRADOR"]
        /\ operacion.estado \in {"BORRADOR", "RECHAZADA"}
        /\ UNCHANGED <<aprobaciones, comp, ingreso, movimientos, enCurso, solapados>>
    BY <1>3, <2>2 DEF update
  <2>5. /\ operacion' \in Operacion /\ CondicionesDe(operacion') \in Condiciones
        /\ operacion'.estado = "BORRADOR"
    BY <2>3, <2>4 DEF Operacion, Estados, CondicionesDe
  <2>6. Existe' /\ OperacionOK'
    BY <2>5, OperacionExiste DEF Existe, OperacionOK
  <2>7. Espera'
    BY <2>4, <2>5 DEF IInv, Espera
  <2>8. BajoMinimoAutorizada'
    BY <2>5 DEF BajoMinimoAutorizada
  <2>9. QED
    BY <1>1, <2>4, <2>6, <2>7, <2>8, SoloOperacion
<1>4. ASSUME NEW pol \in Politicas, submit(pol)
      PROVE  IInv'
  <2>1. Existe /\ operacion.estado = "BORRADOR"
    BY <1>4 DEF submit, Libre
  <2>2. Pendientes(aprobaciones) = {}
    BY <2>1 DEF IInv, Espera
  <2>3. QED
    BY <1>2, <1>4, <2>1, <2>2, EnviarMantiene DEF submit
<1>5. ASSUME NEW pol \in Politicas, CorrectVersion(pol)
      PROVE  IInv'
  <2>1. pol.lista \in Nat /\ pol.minimo \in Nat
    BY ConstantesValidas
  <2>2. /\ Existe /\ operacion' = ConPrecios(operacion, pol)
        /\ PasaDisparadores(operacion', aprobaciones, comp)
        /\ UNCHANGED <<aprobaciones, comp, ingreso, movimientos, enCurso, solapados>>
    BY <1>5 DEF CorrectVersion, Libre
  <2>3. /\ operacion' \in Operacion /\ operacion'.estado = operacion.estado
        /\ CondicionesDe(operacion') \in Condiciones
    BY <1>2, <2>1, <2>2 DEF ConPrecios, Operacion, CondicionesDe
  <2>4. Existe' /\ OperacionOK'
    BY <2>3, OperacionExiste DEF Existe, OperacionOK
  <2>5. Espera'
    BY <2>2, <2>3, <2>4 DEF IInv, Espera
  <2>6. BajoMinimoAutorizada'
    BY <2>2, <2>4, DisparadorAutoriza
  <2>7. QED
    BY <1>1, <2>2, <2>4, <2>5, <2>6, SoloOperacion
\* A decision, or a cancellation, leaves no approval waiting.
<1>6. ASSUME NEW d \in {"APROBADA", "RECHAZADA"},
             NEW e \in {"APROBADA", "RECHAZADA", "CANCELADA"},
             Existe, aprobaciones' = Decidida(aprobaciones, d),
             operacion' = [operacion EXCEPT !.estado = e],
             e # "CANCELADA" => PasaDisparadores(operacion', aprobaciones', comp),
             UNCHANGED <<comp, ingreso, movimientos, enCurso, solapados>>
      PROVE  IInv'
  <2>1. /\ operacion' \in Operacion /\ CondicionesDe(operacion') \in Condiciones
        /\ operacion'.estado = e
    BY <1>2, <1>6 DEF Operacion, Estados, CondicionesDe
  <2>2. Existe' /\ OperacionOK'
    BY <2>1, OperacionExiste DEF Existe, OperacionOK
  <2>3. /\ aprobaciones' \subseteq Aprobacion /\ IsFiniteSet(aprobaciones')
        /\ Pendientes(aprobaciones') = {}
    BY <1>6, DecididaEs
  <2>4. Espera'
    BY <2>1, <2>3 DEF Espera
  <2>5. BajoMinimoAutorizada'
    <3>1. CASE e = "CANCELADA"
      BY <2>1, <3>1 DEF BajoMinimoAutorizada
    <3>2. CASE e # "CANCELADA"
      BY <1>6, <2>2, <3>2, DisparadorAutoriza
    <3>3. QED
      BY <3>1, <3>2
  <2>6. QED
    BY <1>6, <2>2, <2>3, <2>4, <2>5, SoloOperacion
<1>7. ASSUME NEW aprobada \in BOOLEAN, decide(aprobada)
      PROVE  IInv'
  <2>1. PICK d \in {"APROBADA", "RECHAZADA"} :
            /\ aprobaciones' = Decidida(aprobaciones, d)
            /\ operacion' = [operacion EXCEPT !.estado = d]
    BY <1>7 DEF decide
  <2>2. /\ Existe /\ PasaDisparadores(operacion', aprobaciones', comp)
        /\ UNCHANGED <<comp, ingreso, movimientos, enCurso, solapados>>
    BY <1>7 DEF decide, Libre
  <2>3. QED
    BY <1>6, <2>1, <2>2
<1>8. CASE cancel
  <2>1. /\ Existe /\ aprobaciones' = Decidida(aprobaciones, "RECHAZADA")
        /\ operacion' = [operacion EXCEPT !.estado = "CANCELADA"]
        /\ UNCHANGED <<comp, ingreso, movimientos, enCurso, solapados>>
    BY <1>8 DEF cancel, AlCancelar, Libre
  <2>2. QED
    BY <1>6, <2>1
<1>9. CASE close
  <2>1. /\ Existe /\ operacion.estado = "APROBADA"
        /\ operacion' = [operacion EXCEPT !.estado = "CERRADA"]
        /\ PasaDisparadores(operacion', aprobaciones, comp)
        /\ UNCHANGED <<aprobaciones, comp, ingreso, movimientos, enCurso, solapados>>
    BY <1>9 DEF close, Libre
  <2>2. /\ operacion' \in Operacion /\ CondicionesDe(operacion') \in Condiciones
        /\ operacion'.estado = "CERRADA"
    BY <1>2, <2>1 DEF Operacion, Estados, CondicionesDe
  <2>3. Existe' /\ OperacionOK'
    BY <2>2, OperacionExiste DEF Existe, OperacionOK
  <2>4. Espera'
    BY <2>1, <2>2 DEF IInv, Espera
  <2>5. BajoMinimoAutorizada'
    BY <2>1, <2>3, DisparadorAutoriza
  <2>6. QED
    BY <1>1, <2>1, <2>3, <2>4, <2>5, SoloOperacion
<1>10. QED
  BY <1>3, <1>4, <1>5, <1>7, <1>8, <1>9, CrearMantiene

-------------------------------------------------------------------------------
(* What is collected of a component *)

MovimientosDe(movs, id) == {m \in Vivos(movs) : m.ingreso = id}

IngresosDe(ings, c) == {i \in ings : i.comp = c}

\* It is the sum, over its incomes, of what each collected.
LEMMA CobradoEsSuma ==
    ASSUME NEW movs, NEW ings, NEW c
    PROVE  componentCollectedAmount(movs, ings, c) =
               Suma([i \in ings |-> Cobrado(movs, i.id)], IngresosDe(ings, c))
<1> DEFINE S == IngresosDe(ings, c)
<1>1. S \subseteq ings
  BY DEF IngresosDe
<1>2. MapThenSumSet(LAMBDA i : Cobrado(movs, i.id), S) =
          Suma([i \in ings |-> Cobrado(movs, i.id)], S)
  <2> HIDE DEF S
  <2> QED BY <1>1 DEF Suma, MapThenSumSet, MapThenFoldSet
<1>3. QED
  BY <1>2 DEF componentCollectedAmount, IngresosDe

\* It depends on its incomes and on their movements only.
LEMMA MismoCobrado ==
    ASSUME NEW movs, NEW otros, NEW ings, NEW demas, NEW c,
           IsFiniteSet(IngresosDe(ings, c)),
           IngresosDe(ings, c) = IngresosDe(demas, c),
           \A i \in IngresosDe(ings, c) :
              MovimientosDe(movs, i.id) = MovimientosDe(otros, i.id)
    PROVE  componentCollectedAmount(movs, ings, c) =
               componentCollectedAmount(otros, demas, c)
<1> DEFINE S == IngresosDe(ings, c)
           F == [i \in ings |-> Cobrado(movs, i.id)]
           G == [i \in demas |-> Cobrado(otros, i.id)]
<1>1. \A i \in S : F[i] = G[i]
  BY DEF Cobrado, MovimientosDe, IngresosDe
<1>2. /\ componentCollectedAmount(movs, ings, c) = Suma(F, S)
      /\ componentCollectedAmount(otros, demas, c) = Suma(G, S)
  BY CobradoEsSuma
<1>3. IsFiniteSet(S)
  OBVIOUS
<1>4. Suma(F, S) = Suma(G, S)
  <2> HIDE DEF S, F, G
  <2> QED BY <1>1, <1>3, SumaIgual
<1>5. QED
  BY <1>2, <1>4

\* Nothing is collected of a component without incomes.
LEMMA SinIngresos ==
    ASSUME NEW movs, NEW ings, NEW c, IngresosDe(ings, c) = {}
    PROVE  componentCollectedAmount(movs, ings, c) = 0
BY CobradoEsSuma, SumaVacia

\* A movement and new incomes that are not of the component.
DeOtro(movs, ings, mov, altas, c) ==
    /\ \A a \in altas : a.comp # c
    /\ \A i \in ings : i.comp = c => i.id # mov.ingreso
    /\ \A m \in movs, i \in ings :
          (i.comp = c /\ m.ingreso = i.id) => m.id # mov.revierte

\* The income and the movement of another component do not count.
LEMMA Ajeno ==
    ASSUME NEW movs, NEW ings, IsFiniteSet(ings), NEW mov, NEW altas, NEW c,
           DeOtro(movs, ings, mov, altas, c)
    PROVE  componentCollectedAmount(movs \cup {mov}, ings \cup altas, c) =
               componentCollectedAmount(movs, ings, c)
<1>1. IngresosDe(ings \cup altas, c) = IngresosDe(ings, c)
  BY DEF IngresosDe, DeOtro
<1>2. IsFiniteSet(IngresosDe(ings, c))
  BY FS_Subset, IngresosDe(ings, c) \subseteq ings DEF IngresosDe
<1>3. ASSUME NEW i \in IngresosDe(ings, c)
      PROVE  MovimientosDe(movs \cup {mov}, i.id) = MovimientosDe(movs, i.id)
  <2>1. i \in ings /\ i.comp = c
    BY DEF IngresosDe
  <2>2. ASSUME NEW m
        PROVE  m \in MovimientosDe(movs \cup {mov}, i.id) <=> m \in MovimientosDe(movs, i.id)
    BY <2>1 DEF MovimientosDe, Vivos, DeOtro
  <2>3. QED
    BY <2>2
<1>4. PICK despues, mas : despues = movs \cup {mov} /\ mas = ings \cup altas
  OBVIOUS
<1>5. /\ IngresosDe(ings, c) = IngresosDe(mas, c)
      /\ \A i \in IngresosDe(ings, c) :
            MovimientosDe(movs, i.id) = MovimientosDe(despues, i.id)
  BY <1>1, <1>3, <1>4
<1>6. componentCollectedAmount(movs, ings, c) = componentCollectedAmount(despues, mas, c)
  BY <1>2, <1>5, MismoCobrado
<1>7. QED
  BY <1>4, <1>6

\* The status of a component that is synchronised.
LEMMA Sincronizada ==
    ASSUME NEW f \in Componente, NEW n
    PROVE  LET g == syncComponentPaymentStatus(f, n)
           IN  /\ g \in Componente /\ g = [f EXCEPT !.estado = g.estado]
               /\ g.tipo = f.tipo /\ g.importe = f.importe
               /\ g.financiera = f.financiera /\ g.informado = f.informado
               /\ g.estado = "CANCELADA" <=> f.estado = "CANCELADA"
               /\ f.estado # "CANCELADA" =>
                     g.estado = IF f.informado THEN "PAGADO"
                                ELSE paymentStatus(n, f.importe)
<1>1. paymentStatus(n, f.importe) \in {"PENDIENTE", "PAGO_PARCIAL", "PAGADO"}
  BY DEF paymentStatus
<1>2. PICK e : e = IF f.estado = "CANCELADA" THEN f.estado
                   ELSE IF f.informado THEN "PAGADO" ELSE paymentStatus(n, f.importe)
  OBVIOUS
<1>3. e \in EstadosComp /\ (e = "CANCELADA" <=> f.estado = "CANCELADA")
  BY <1>1, <1>2 DEF EstadosComp
<1>4. PICK g : g = syncComponentPaymentStatus(f, n)
  OBVIOUS
<1>5. g = [f EXCEPT !.estado = e]
  BY <1>2, <1>4 DEF syncComponentPaymentStatus
<1>6. /\ g \in Componente /\ g.estado = e
      /\ g.tipo = f.tipo /\ g.importe = f.importe
      /\ g.financiera = f.financiera /\ g.informado = f.informado
  BY <1>3, <1>5 DEF Componente, EstadosComp
<1>7. g = [f EXCEPT !.estado = g.estado]
  BY <1>5, <1>6
<1>8. QED
  BY <1>2, <1>3, <1>4, <1>6, <1>7

\* Between two transactions in flight, or one in flight and what is committed,
\* ids tell incomes and movements apart.
LEMMA OtroComponente ==
    ASSUME IInv, NEW t \in enCurso, NEW c, c # 0, t.comp # c
    PROVE  DeOtro(movimientos, ingreso, t.mov, t.altas, c)
<1>1. IngresoOK(t) /\ MovimientoOK(t)
  BY DEF IInv, EnCursoOK
<1>2. \A a \in t.altas : a.comp # c
  BY <1>1 DEF IngresoOK
<1>3. \A i \in ingreso : i.comp = c => i.id # t.ingreso
  BY <1>1 DEF IngresoOK, IInv, IdsUnicos
<1>4. ASSUME NEW m \in movimientos, NEW i \in ingreso, i.comp = c, m.ingreso = i.id
      PROVE  m.id # t.mov.revierte
  <2>1. SUFFICES ASSUME m.id = t.mov.revierte PROVE FALSE
    OBVIOUS
  <2>2. m.id # 0
    BY DEF IInv, TiposOK, Movimiento
  <2>3. PICK n \in movimientos : n.id = t.mov.revierte /\ n.ingreso = t.ingreso
    BY <1>1, <2>1, <2>2 DEF MovimientoOK
  <2>4. n = m
    BY <2>1, <2>3 DEF IInv, IdsUnicos
  <2>5. QED
    BY <1>3, <1>4, <2>3, <2>4
<1>5. QED
  BY <1>1, <1>2, <1>3, <1>4 DEF MovimientoOK, DeOtro

-------------------------------------------------------------------------------
(* The transactions *)

\* A request opens its transaction.
LEMMA AbrirMantiene ==
    ASSUME IInv, NEW tipo \in {"COBRO_PLAN", "COBRO", "REVERSA"},
           NEW c \in {0} \cup DOMAIN comp, NEW i \in 1..MaxIngresos,
           NEW mov \in Movimiento, NEW altas \in SUBSET Ingreso,
           mov.id \notin MovimientosTomados, mov.ingreso = i,
           mov.revierte # 0 =>
              \E m \in movimientos : m.id = mov.revierte /\ m.ingreso = i,
           \A u \in enCurso : u.ingreso # i,
           IF tipo = "COBRO_PLAN"
           THEN /\ c # 0
                /\ \E x \in Importes : altas = {[id |-> i, comp |-> c, importe |-> x]}
                /\ \A j \in ingreso : j.id # i
           ELSE altas = {} /\ \E j \in ingreso : j.id = i /\ j.comp = c,
           Abrir(tipo, c, i, mov, altas)
    PROVE  IInv'
<1>1. /\ comp \in Seq(Componente) /\ Len(comp) <= MaxComponentes
      /\ \A k \in DOMAIN comp : comp[k] \in Componente
  BY DEF IInv, TiposOK, ComponenteOK
<1>2. DOMAIN comp \subseteq Ids /\ 0 \notin DOMAIN comp
  BY <1>1, Cotas DEF Ids
<1>3. PICK n : n = componentCollectedAmount(movimientos \cup {mov}, ingreso \cup altas, c)
  OBVIOUS
<1>4. PICK g : g = syncComponentPaymentStatus(comp[c], n)
  OBVIOUS
<1>5. PICK e : e = IF c = 0 \/ g.estado = comp[c].estado THEN "" ELSE g.estado
  OBVIOUS
<1>6. PICK t : t = [tipo |-> tipo, comp |-> c, ingreso |-> i, mov |-> mov,
                    altas |-> altas, estado |-> e]
  OBVIOUS
<1>7. /\ t.tipo = tipo /\ t.comp = c /\ t.ingreso = i /\ t.mov = mov
      /\ t.altas = altas /\ t.estado = e
  BY <1>6
<1>8. /\ enCurso' = enCurso \cup {t}
      /\ solapados' = solapados \cup {k \in {c} \ {0} : \E u \in enCurso : u.comp = k}
      /\ UNCHANGED <<operacion, aprobaciones, comp, ingreso, movimientos>>
  BY <1>3, <1>4, <1>5, <1>6 DEF Abrir
<1>9. c # 0 => g.estado \in EstadosComp
  BY <1>1, <1>4, Sincronizada DEF Componente, EstadosComp
<1>10. t \in Transaccion
  BY <1>2, <1>5, <1>6, <1>9 DEF Transaccion
<1>11. TiposOK'
  BY <1>8, <1>10 DEF IInv, TiposOK, OperacionOK
<1>12. Espera' /\ BajoMinimoAutorizada' /\ (~Existe => aprobaciones = {})'
  BY <1>8 DEF IInv, Espera, BajoMinimoAutorizada, Existe
<1>13. IdsUnicos'
  <2>1. \A m \in movimientos : t.mov.id # m.id
    BY <1>7 DEF MovimientosTomados
  <2>2. \A u \in enCurso : t.mov.id # u.mov.id /\ t.ingreso # u.ingreso
    BY <1>7 DEF MovimientosTomados
  <2>3. IdsUnicos
    BY DEF IInv
  <2>4. QED
    BY <1>8, <2>1, <2>2, <2>3 DEF IdsUnicos
<1>14. EnCursoOK'
  <2>1. ASSUME NEW u \in enCurso
        PROVE  /\ IngresoOK(u)' /\ MovimientoOK(u)' /\ EstadoOK(u)'
               /\ u.comp = 0 => u.estado = ""
    <3>1. IngresoOK(u) /\ MovimientoOK(u) /\ EstadoOK(u) /\ (u.comp = 0 => u.estado = "")
      BY DEF IInv, EnCursoOK
    <3>2. IngresoOK(u)' /\ MovimientoOK(u)'
      BY <1>8, <3>1 DEF IngresoOK, MovimientoOK
    <3>3. EstadoOK(u)'
      BY <1>8, <3>1 DEF EstadoOK
    <3>4. QED
      BY <3>1, <3>2, <3>3
  <2>2. IngresoOK(t)' /\ MovimientoOK(t)'
    BY <1>7, <1>8 DEF IngresoOK, MovimientoOK
  <2>3. EstadoOK(t)'
    <3>1. c # 0 => (IF e = "" THEN comp[c].estado ELSE e) = g.estado
      BY <1>5, <1>9 DEF EstadosComp
    <3>2. QED
      BY <1>3, <1>4, <1>7, <1>8, <3>1 DEF EstadoOK
  <2>4. t.comp = 0 => t.estado = ""
    BY <1>5, <1>7
  <2>5. QED
    BY <1>8, <2>1, <2>2, <2>3, <2>4 DEF EnCursoOK
<1>15. SolapadosOK'
  BY <1>7, <1>8 DEF IInv, SolapadosOK
<1>16. EstadoDelComponente'
  BY <1>8 DEF IInv, EstadoDelComponente, Vigentes
<1>17. QED
  BY <1>11, <1>12, <1>13, <1>14, <1>15, <1>16 DEF IInv

\* While some of the n ids are not taken, the least one is new.
LEMMA IdNuevo ==
    ASSUME NEW n \in Nat, NEW T, T \subseteq 1..n, Cardinality(T) < n
    PROVE  Menor((1..n) \ T) \in (1..n) \ T
<1> DEFINE libres == (1..n) \ T
<1>1. libres # {}
  <2>1. Cardinality(1..n) = n
    BY FS_Interval
  <2>2. T # 1..n
    BY <2>1
  <2>3. QED
    BY <2>2
<1>2. PICK i \in libres : \A m \in libres : i <= m
  BY <1>1, HayMenor, libres \subseteq Nat
<1>3. QED
  BY <1>2 DEF Menor

\* The new movement of an income, and the ids that are taken.
LEMMA MovimientoNuevo ==
    ASSUME IInv, HayLugar, NEW i \in 1..MaxIngresos, NEW x \in Importes,
           NEW r \in 0..MaxMovimientos
    PROVE  LET mov == NuevoMovimiento(i, x, r)
           IN  /\ mov \in Movimiento /\ mov.id \notin MovimientosTomados
               /\ mov.ingreso = i /\ mov.revierte = r
<1>1. MovimientosTomados \subseteq 1..MaxMovimientos
  BY DEF IInv, TiposOK, MovimientosTomados, Movimiento, Transaccion
<1>2. PICK k : k = Menor((1..MaxMovimientos) \ MovimientosTomados)
  OBVIOUS
<1>3. k \in (1..MaxMovimientos) \ MovimientosTomados
  BY <1>1, <1>2, IdNuevo, Cotas DEF HayLugar
<1>4. PICK mov : mov = NuevoMovimiento(i, x, r)
  OBVIOUS
<1>5. mov = [id |-> k, ingreso |-> i, importe |-> x, revierte |-> r]
  BY <1>2, <1>4 DEF NuevoMovimiento
<1>6. QED
  BY <1>3, <1>4, <1>5 DEF Movimiento

\* A component is collected, with an income of its own.
LEMMA CobroDelPlanMantiene ==
    ASSUME IInv, NEW c \in DOMAIN comp, NEW x \in Importes,
           collectPaymentComponent(c, x)
    PROVE  IInv'
<1>1. /\ comp \in Seq(Componente) /\ Len(comp) <= MaxComponentes
      /\ ingreso \subseteq Ingreso /\ enCurso \subseteq Transaccion
  BY DEF IInv, TiposOK
<1>2. c \in Ids /\ c # 0
  BY <1>1, Cotas DEF Ids
<1>3. IngresosTomados \subseteq 1..MaxIngresos
  BY <1>1 DEF IngresosTomados, Ingreso, Transaccion
<1>4. PICK i : i = Menor((1..MaxIngresos) \ IngresosTomados)
  OBVIOUS
<1>5. i \in (1..MaxIngresos) \ IngresosTomados
  BY <1>3, <1>4, IdNuevo, Cotas DEF collectPaymentComponent
<1>6. (\A j \in ingreso : j.id # i) /\ (\A u \in enCurso : u.ingreso # i)
  BY <1>5 DEF IngresosTomados
<1>7. PICK altas : altas = {[id |-> i, comp |-> c, importe |-> x]}
  OBVIOUS
<1>8. altas \in SUBSET Ingreso
  BY <1>2, <1>5, <1>7 DEF Ingreso
<1>9. PICK mov : mov = NuevoMovimiento(i, x, 0)
  OBVIOUS
<1>10. /\ mov \in Movimiento /\ mov.id \notin MovimientosTomados
       /\ mov.ingreso = i /\ mov.revierte = 0
  BY <1>5, <1>9, MovimientoNuevo, Cotas DEF collectPaymentComponent
<1>11. Abrir("COBRO_PLAN", c, i, mov, altas)
  BY <1>4, <1>7, <1>9 DEF collectPaymentComponent
<1>12. QED
  BY <1>2, <1>5, <1>6, <1>7, <1>8, <1>10, <1>11, AbrirMantiene

\* An income is collected, or a movement of it taken back.
LEMMA CobroMantiene ==
    ASSUME IInv, NEW i \in ingreso, NEW x \in Importes, NEW r \in 0..MaxMovimientos,
           NEW tipo \in {"COBRO", "REVERSA"}, FilaLibre(i), HayLugar,
           r # 0 => \E m \in movimientos : m.id = r /\ m.ingreso = i.id,
           Abrir(tipo, i.comp, i.id, NuevoMovimiento(i.id, x, r), {})
    PROVE  IInv'
<1>1. i.id \in 1..MaxIngresos /\ i.comp \in {0} \cup DOMAIN comp
  BY DEF IInv, TiposOK, Ingreso
<1>2. PICK mov : mov = NuevoMovimiento(i.id, x, r)
  OBVIOUS
<1>3. /\ mov \in Movimiento /\ mov.id \notin MovimientosTomados
      /\ mov.ingreso = i.id /\ mov.revierte = r
  BY <1>1, <1>2, MovimientoNuevo
<1>4. \A u \in enCurso : u.ingreso # i.id
  BY DEF FilaLibre
<1>5. Abrir(tipo, i.comp, i.id, mov, {}) /\ {} \in SUBSET Ingreso
  BY <1>2
<1>6. QED
  BY <1>1, <1>3, <1>4, <1>5, AbrirMantiene, ZenonT(30)

\* A transaction is lost.
LEMMA DeshacerMantiene ==
    ASSUME IInv, NEW t \in enCurso, Deshacer(t)
    PROVE  IInv'
<1>1. /\ enCurso' \subseteq enCurso
      /\ UNCHANGED <<operacion, aprobaciones, comp, ingreso, movimientos, solapados>>
  BY DEF Deshacer
<1>2. TiposOK' /\ Espera' /\ BajoMinimoAutorizada' /\ (~Existe => aprobaciones = {})'
  BY <1>1 DEF IInv, TiposOK, OperacionOK, Espera, BajoMinimoAutorizada, Existe
<1>3. IdsUnicos' /\ SolapadosOK'
  BY <1>1 DEF IInv, IdsUnicos, SolapadosOK
<1>4. EnCursoOK'
  BY <1>1 DEF IInv, EnCursoOK, IngresoOK, MovimientoOK, EstadoOK
<1>5. EstadoDelComponente'
  BY <1>1 DEF IInv, EstadoDelComponente, Vigentes
<1>6. QED
  BY <1>2, <1>3, <1>4, <1>5 DEF IInv

\* What one transaction in flight will write does not count for what another
\* one, of another component, read.
LEMMA OtraTransaccion ==
    ASSUME IInv, NEW t \in enCurso, NEW u \in enCurso, t.comp # u.comp, u.comp # 0
    PROVE  componentCollectedAmount((movimientos \cup {t.mov}) \cup {u.mov},
                                    (ingreso \cup t.altas) \cup u.altas, u.comp) =
               componentCollectedAmount(movimientos \cup {u.mov},
                                        ingreso \cup u.altas, u.comp)
<1>1. PICK c, movs, ings : /\ c = u.comp /\ movs = movimientos \cup {u.mov}
                           /\ ings = ingreso \cup u.altas
  OBVIOUS
<1>2. /\ \A a \in t.altas : a.comp # c
      /\ \A i \in ingreso : i.comp = c => i.id # t.mov.ingreso
      /\ \A m \in movimientos, i \in ingreso :
            (i.comp = c /\ m.ingreso = i.id) => m.id # t.mov.revierte
  BY <1>1, OtroComponente DEF DeOtro
<1>3. /\ IngresoOK(t) /\ MovimientoOK(t) /\ IngresoOK(u) /\ MovimientoOK(u)
      /\ IdsUnicos /\ ingreso \subseteq Ingreso /\ IsFiniteSet(ingreso)
      /\ movimientos \subseteq Movimiento /\ u \in Transaccion
  BY DEF IInv, EnCursoOK, TiposOK
<1>4. t.ingreso # u.ingreso /\ t.mov.ingreso = t.ingreso /\ u.mov.ingreso = u.ingreso
  BY <1>3 DEF IdsUnicos, MovimientoOK
<1>5. \A a \in u.altas : a.id = u.ingreso
  BY <1>3 DEF IngresoOK
<1>6. IsFiniteSet(ings)
  <2>1. u.altas = {} \/ \E a : u.altas = {a}
    BY <1>3 DEF IngresoOK
  <2>2. IsFiniteSet(u.altas)
    BY <2>1, FS_EmptySet, FS_Singleton, ZenonT(30)
  <2>3. QED
    BY <1>1, <1>3, <2>2, FS_Union
<1>7. \A i \in ings : i.comp = c => i.id # t.mov.ingreso
  BY <1>1, <1>2, <1>4, <1>5
<1>8. ASSUME NEW m \in movs, NEW i \in ings, i.comp = c, m.ingreso = i.id
      PROVE  m.id # t.mov.revierte
  <2>1. SUFFICES ASSUME m.id = t.mov.revierte PROVE FALSE
    OBVIOUS
  <2>2. m.id # 0
    <3>1. u.mov \in Movimiento
      BY <1>3 DEF Transaccion
    <3>2. m \in Movimiento
      BY <1>1, <1>3, <3>1
    <3>3. QED
      BY <3>2 DEF Movimiento
  <2>3. PICK n \in movimientos : n.id = t.mov.revierte /\ n.ingreso = t.ingreso
    BY <1>3, <2>1, <2>2 DEF MovimientoOK
  <2>4. m \in movimientos
    BY <1>1, <1>3, <2>1, <2>3 DEF IdsUnicos
  <2>5. n = m
    BY <1>3, <2>1, <2>3, <2>4 DEF IdsUnicos
  <2>6. QED
    BY <1>4, <1>7, <1>8, <2>3, <2>5
<1>9. PICK mov, altas : mov = t.mov /\ altas = t.altas
  OBVIOUS
<1>10. DeOtro(movs, ings, mov, altas, c)
  BY <1>2, <1>7, <1>8, <1>9 DEF DeOtro
<1>11. componentCollectedAmount(movs \cup {mov}, ings \cup altas, c) =
          componentCollectedAmount(movs, ings, c)
  BY <1>6, <1>10, Ajeno
<1>12. /\ movs \cup {mov} = (movimientos \cup {t.mov}) \cup {u.mov}
       /\ ings \cup altas = (ingreso \cup t.altas) \cup u.altas
  BY <1>1, <1>9
<1>13. QED
  BY <1>1, <1>11, <1>12

\* A transaction commits: its component says what is collected now, and what
\* the others read of theirs is still so.
LEMMA ConfirmarMantiene ==
    ASSUME IInv, NEW t \in enCurso, Confirmar(t)
    PROVE  IInv'
<1>1. /\ enCurso' = enCurso \ {t} /\ ingreso' = ingreso \cup t.altas
      /\ movimientos' = movimientos \cup {t.mov}
      /\ comp' = IF t.estado = "" THEN comp
                 ELSE [comp EXCEPT ![t.comp].estado = t.estado]
      /\ UNCHANGED <<operacion, aprobaciones, solapados>>
  BY DEF Confirmar
<1>2. /\ TiposOK /\ IdsUnicos /\ SolapadosOK /\ EstadoDelComponente
      /\ \A u \in enCurso : /\ IngresoOK(u) /\ MovimientoOK(u) /\ EstadoOK(u)
                            /\ u.comp = 0 => u.estado = ""
  BY DEF IInv, EnCursoOK
<1>3. /\ comp \in Seq(Componente) /\ Len(comp) <= MaxComponentes
      /\ ingreso \subseteq Ingreso /\ IsFiniteSet(ingreso) /\ t \in Transaccion
      /\ \A c \in DOMAIN comp : ComponenteOK(comp[c])
      /\ \A i \in ingreso : i.comp # 0 => i.comp \in DOMAIN comp
  BY <1>2 DEF TiposOK
<1>a. DOMAIN comp = 1..Len(comp) /\ 0 \notin DOMAIN comp
  BY <1>3
<1>4. t.comp # 0 => t.comp \in DOMAIN comp
  BY <1>2, <1>3 DEF IngresoOK
<1>b. /\ \A a, b \in t.altas : a = b
      /\ \A a \in t.altas : a.id = t.ingreso /\ a.comp = t.comp
      /\ t.altas # {} => \A i \in ingreso : i.id # t.ingreso
      /\ (t.altas = {} \/ \E a : t.altas = {a})
  <2>1. CASE t.altas = {}
    BY <2>1
  <2>2. CASE t.altas # {}
    <3>1. /\ \E x \in Importes : t.altas = {[id |-> t.ingreso, comp |-> t.comp, importe |-> x]}
          /\ \A i \in ingreso : i.id # t.ingreso
      BY <1>2, <2>2 DEF IngresoOK
    <3>2. PICK x \in Importes :
              t.altas = {[id |-> t.ingreso, comp |-> t.comp, importe |-> x]}
      BY <3>1
    <3>3. PICK a : a = [id |-> t.ingreso, comp |-> t.comp, importe |-> x]
      OBVIOUS
    <3>4. t.altas = {a} /\ a.id = t.ingreso /\ a.comp = t.comp
      BY <3>2, <3>3
    <3>5. QED
      BY <3>1, <3>4
  <2>3. QED
    BY <2>1, <2>2
<1>5. t.estado # "" => t.comp \in DOMAIN comp /\ t.estado \in EstadosComp
  BY <1>2, <1>3, <1>4 DEF Transaccion
<1>6. /\ DOMAIN comp' = DOMAIN comp
      /\ \A c \in DOMAIN comp : c # t.comp => comp'[c] = comp[c]
  BY <1>1
<1>7. t.comp # 0 =>
         comp'[t.comp] = [comp[t.comp] EXCEPT !.estado = IF t.estado = "" THEN @ ELSE t.estado]
  <2>1. SUFFICES ASSUME t.comp # 0
                 PROVE  comp'[t.comp] = [comp[t.comp] EXCEPT
                            !.estado = IF t.estado = "" THEN @ ELSE t.estado]
    OBVIOUS
  <2>2. comp[t.comp] \in Componente
    BY <1>3, <1>4, <2>1 DEF ComponenteOK
  <2>3. CASE t.estado = ""
    BY <1>1, <2>2, <2>3 DEF Componente
  <2>4. CASE t.estado # ""
    BY <1>1, <1>4, <2>1, <2>4
  <2>5. QED
    BY <2>3, <2>4
<1>8. \A c \in DOMAIN comp : ComponenteOK(comp'[c])
  <2>1. SUFFICES ASSUME NEW c \in DOMAIN comp PROVE ComponenteOK(comp'[c])
    OBVIOUS
  <2>2. CASE c # t.comp
    BY <1>3, <1>6, <2>2
  <2>3. CASE c = t.comp
    <3>1. PICK e : e = IF t.estado = "" THEN comp[c].estado ELSE t.estado
      OBVIOUS
    <3>2. c # 0 /\ comp'[c] = [comp[c] EXCEPT !.estado = e]
      BY <1>a, <1>7, <2>3, <3>1
    <3>3. ComponenteOK(comp[c])
      BY <1>3
    <3>4. e \in EstadosComp
      BY <1>5, <3>1, <3>3 DEF ComponenteOK, Componente, EstadosComp
    <3>5. QED
      BY <3>2, <3>3, <3>4 DEF ComponenteOK, Componente, EstadosComp
  <2>4. QED
    BY <2>2, <2>3
<1>9. TiposOK'
  <2>1. comp' \in Seq(Componente) /\ Len(comp') <= MaxComponentes
    <3>1. comp' \in [1..Len(comp) -> Componente]
      <4>1. \A c \in DOMAIN comp : comp'[c] \in Componente
        BY <1>8 DEF ComponenteOK
      <4>2. comp \in [1..Len(comp) -> Componente]
        BY <1>3
      <4>3. CASE t.estado = ""
        BY <1>1, <4>2, <4>3
      <4>4. CASE t.estado # ""
        BY <1>1, <1>a, <4>1, <4>4
      <4>5. QED
        BY <4>3, <4>4
    <3>2. QED
      BY <1>3, <3>1
  <2>2. /\ ingreso' \subseteq Ingreso /\ IsFiniteSet(ingreso')
        /\ \A i \in ingreso' : i.comp # 0 => i.comp \in DOMAIN comp'
    <3>2. IsFiniteSet(t.altas)
      <4>1. CASE t.altas = {}
        BY <4>1, FS_EmptySet
      <4>2. CASE \E a : t.altas = {a}
        BY <4>2, FS_Singleton
      <4>3. QED
        BY <1>b, <4>1, <4>2
    <3>3. IsFiniteSet(ingreso')
      BY <1>1, <1>3, <3>2, FS_Union
    <3>4. t.altas \subseteq Ingreso
      BY <1>3 DEF Transaccion
    <3>5. \A i \in t.altas : i.comp # 0 => i.comp \in DOMAIN comp
      BY <1>4, <1>b
    <3>6. QED
      BY <1>1, <1>3, <1>6, <3>3, <3>4, <3>5
  <2>3. movimientos' \subseteq Movimiento
    BY <1>1, <1>2, <1>3 DEF TiposOK, Transaccion
  <2>4. QED
    BY <1>1, <1>2, <1>6, <1>8, <2>1, <2>2, <2>3 DEF TiposOK, OperacionOK
<1>10. Espera' /\ BajoMinimoAutorizada' /\ (~Existe => aprobaciones = {})'
  BY <1>1 DEF IInv, Espera, BajoMinimoAutorizada, Existe
<1>11. IdsUnicos'
  <2>1. \A i, j \in ingreso' : i.id = j.id => i = j
    <3>1. \A i, j \in ingreso : i.id = j.id => i = j
      BY <1>2 DEF IdsUnicos
    <3>2. QED
      BY <1>1, <1>b, <3>1
  <2>2. \A m, n \in movimientos' : m.id = n.id => m = n
    <3>1. /\ \A m, n \in movimientos : m.id = n.id => m = n
          /\ \A m \in movimientos : t.mov.id # m.id
      BY <1>2 DEF IdsUnicos
    <3>2. PICK mov : mov = t.mov
      OBVIOUS
    <3>3. QED
      BY <1>1, <3>1, <3>2
  <2>3. \A u \in enCurso', m \in movimientos' : u.mov.id # m.id
    BY <1>1, <1>2, ZenonT(30) DEF IdsUnicos
  <2>4. \A u, v \in enCurso' : u # v => u.mov.id # v.mov.id /\ u.ingreso # v.ingreso
    BY <1>1, <1>2 DEF IdsUnicos
  <2>5. QED
    BY <2>1, <2>2, <2>3, <2>4 DEF IdsUnicos
<1>12. SolapadosOK'
  BY <1>1, <1>2 DEF SolapadosOK
<1>13. EnCursoOK'
  <2>1. SUFFICES ASSUME NEW u \in enCurso, u # t
                 PROVE  /\ IngresoOK(u)' /\ MovimientoOK(u)' /\ EstadoOK(u)'
                        /\ u.comp = 0 => u.estado = ""
    BY <1>1 DEF EnCursoOK
  <2>2. IngresoOK(u)'
    <3>1. IngresoOK(u) /\ u.ingreso # t.ingreso /\ IngresoOK(t)
      BY <1>2, <2>1 DEF IdsUnicos
    <3>2. \A i \in t.altas : i.id = t.ingreso
      BY <3>1 DEF IngresoOK
    <3>3. QED
      BY <1>1, <1>6, <3>1, <3>2 DEF IngresoOK
  <2>3. MovimientoOK(u)'
    BY <1>1, <1>2 DEF MovimientoOK
  <2>4. EstadoOK(u)'
    <3>1. SUFFICES ASSUME u.comp # 0, u.comp \notin solapados
                   PROVE  (IF u.estado = "" THEN comp'[u.comp].estado ELSE u.estado) =
                              syncComponentPaymentStatus(comp'[u.comp],
                                  componentCollectedAmount(movimientos' \cup {u.mov},
                                      ingreso' \cup u.altas, u.comp)).estado
      BY <1>1 DEF EstadoOK
    <3>2. u.comp # t.comp
      BY <1>2, <2>1, <3>1 DEF SolapadosOK
    <3>3. u.comp \in DOMAIN comp
      BY <1>2, <1>3, <3>1 DEF IngresoOK
    <3>4. comp'[u.comp] = comp[u.comp]
      BY <1>6, <3>2, <3>3
    <3>5. componentCollectedAmount(movimientos' \cup {u.mov}, ingreso' \cup u.altas, u.comp) =
              componentCollectedAmount(movimientos \cup {u.mov}, ingreso \cup u.altas, u.comp)
      BY <1>1, <3>1, <3>2, OtraTransaccion
    <3>6. QED
      BY <1>2, <3>1, <3>4, <3>5 DEF EstadoOK
  <2>5. QED
    BY <1>2, <2>2, <2>3, <2>4
<1>14. EstadoDelComponente'
  <2>1. SUFFICES ASSUME NEW c \in DOMAIN comp, comp'[c].estado # "CANCELADA",
                        c \notin solapados
                 PROVE  comp'[c].estado =
                            IF comp'[c].informado THEN "PAGADO"
                            ELSE paymentStatus(componentCollectedAmount(
                                     movimientos', ingreso', c), comp'[c].importe)
    BY <1>1, <1>6 DEF EstadoDelComponente, Vigentes
  <2>2. c # 0 /\ comp[c] \in Componente
    BY <1>3, <1>a DEF ComponenteOK
  <2>3. CASE c # t.comp
    <3>1. comp'[c] = comp[c]
      BY <1>6, <2>3
    <3>2. DeOtro(movimientos, ingreso, t.mov, t.altas, c)
      BY <2>2, <2>3, OtroComponente
    <3>3. componentCollectedAmount(movimientos', ingreso', c) =
              componentCollectedAmount(movimientos, ingreso, c)
      <4>1. PICK mov, altas : mov = t.mov /\ altas = t.altas
        OBVIOUS
      <4>2. DeOtro(movimientos, ingreso, mov, altas, c)
        BY <3>2, <4>1
      <4>3. componentCollectedAmount(movimientos \cup {mov}, ingreso \cup altas, c) =
                componentCollectedAmount(movimientos, ingreso, c)
        BY <1>3, <4>2, Ajeno
      <4>4. QED
        BY <1>1, <4>1, <4>3
    <3>4. QED
      BY <1>2, <2>1, <3>1, <3>3 DEF EstadoDelComponente, Vigentes
  <2>4. CASE c = t.comp
    <3>1. PICK n : n = componentCollectedAmount(movimientos', ingreso', c)
      OBVIOUS
    <3>2. PICK g : g = syncComponentPaymentStatus(comp[c], n)
      OBVIOUS
    <3>3. EstadoOK(t)
      BY <1>2
    <3>4. (IF t.estado = "" THEN comp[c].estado ELSE t.estado) = g.estado
      BY <1>1, <2>1, <2>2, <2>4, <3>1, <3>2, <3>3 DEF EstadoOK
    <3>5. /\ comp'[c].estado = g.estado /\ comp'[c].informado = comp[c].informado
          /\ comp'[c].importe = comp[c].importe
      <4>1. comp'[c] = [comp[c] EXCEPT !.estado = g.estado]
        BY <1>7, <2>2, <2>4, <3>4
      <4>2. QED
        BY <2>2, <4>1 DEF Componente
    <3>6. /\ g.estado = "CANCELADA" <=> comp[c].estado = "CANCELADA"
          /\ comp[c].estado # "CANCELADA" =>
                g.estado = IF comp[c].informado THEN "PAGADO"
                           ELSE paymentStatus(n, comp[c].importe)
      BY <2>2, <3>2, Sincronizada
    <3>7. QED
      BY <2>1, <3>1, <3>5, <3>6
  <2>5. QED
    BY <2>3, <2>4
<1>15. QED
  BY <1>9, <1>10, <1>11, <1>12, <1>13, <1>14 DEF IInv

-------------------------------------------------------------------------------
(* The plan *)

\* Whatever changes the components gives each the status of what is collected
\* of it; the request in flight that read another row is seen.
LEMMA PlanCambia ==
    ASSUME IInv, comp' \in Seq(Componente), Len(comp') <= MaxComponentes,
           DOMAIN comp \subseteq DOMAIN comp',
           \A c \in DOMAIN comp' : ComponenteOK(comp'[c]),
           ingreso' \subseteq Ingreso, IsFiniteSet(ingreso'),
           \A i \in ingreso' : i.comp # 0 => i.comp \in DOMAIN comp',
           \A i, j \in ingreso' : i.id = j.id => i = j,
           \A t \in enCurso, i \in ingreso \cup ingreso' :
              i.id = t.ingreso => i \in ingreso \cap ingreso',
           \A c \in DOMAIN comp' : comp'[c].estado # "CANCELADA" =>
              IngresosDe(ingreso', c) = IngresosDe(ingreso, c),
           \A c \in DOMAIN comp' : comp'[c].estado # "CANCELADA" /\ c \notin solapados' =>
              comp'[c].estado = IF comp'[c].informado THEN "PAGADO"
                                ELSE paymentStatus(componentCollectedAmount(
                                         movimientos, ingreso', c), comp'[c].importe),
           solapados' = solapados \cup Pisados(comp'),
           OperacionOK', Espera', BajoMinimoAutorizada', Existe',
           UNCHANGED <<aprobaciones, movimientos, enCurso>>
    PROVE  IInv'
<1>1. /\ TiposOK /\ IdsUnicos /\ SolapadosOK /\ IsFiniteSet(ingreso)
      /\ comp \in Seq(Componente)
      /\ \A u \in enCurso : /\ IngresoOK(u) /\ MovimientoOK(u) /\ EstadoOK(u)
                            /\ u.comp = 0 => u.estado = ""
  BY DEF IInv, EnCursoOK, TiposOK
<1>2. TiposOK'
  BY <1>1 DEF TiposOK
<1>3. IdsUnicos' /\ SolapadosOK'
  BY <1>1 DEF IdsUnicos, SolapadosOK
<1>4. EnCursoOK'
  <2>1. SUFFICES ASSUME NEW u \in enCurso
                 PROVE  /\ IngresoOK(u)' /\ MovimientoOK(u)' /\ EstadoOK(u)'
                        /\ u.comp = 0 => u.estado = ""
    BY DEF EnCursoOK
  <2>2. IngresoOK(u)' /\ MovimientoOK(u)'
    BY <1>1 DEF IngresoOK, MovimientoOK
  <2>3. EstadoOK(u)'
    <3>1. PICK c, movs, altas : /\ c = u.comp /\ movs = movimientos \cup {u.mov}
                                /\ altas = u.altas
      OBVIOUS
    <3>2. SUFFICES ASSUME c # 0, c \notin solapados'
                   PROVE  (IF u.estado = "" THEN comp'[c].estado ELSE u.estado) =
                              syncComponentPaymentStatus(comp'[c],
                                  componentCollectedAmount(movs, ingreso' \cup altas, c)).estado
      BY <3>1 DEF EstadoOK
    <3>3. c \in DOMAIN comp
      BY <1>1, <3>1, <3>2 DEF IngresoOK, TiposOK
    <3>4. comp'[c] = comp[c]
      BY <3>1, <3>2, <3>3 DEF Pisados
    <3>5. (IF u.estado = "" THEN comp[c].estado ELSE u.estado) =
              syncComponentPaymentStatus(comp[c],
                  componentCollectedAmount(movs, ingreso \cup altas, c)).estado
      BY <1>1, <3>1, <3>2 DEF EstadoOK
    <3>6. comp[c] \in Componente
      BY <1>1, <3>3 DEF TiposOK, ComponenteOK
    <3>7. CASE comp[c].estado = "CANCELADA"
      <4>1. \A n : syncComponentPaymentStatus(comp[c], n).estado = "CANCELADA"
        BY <3>6, <3>7, Sincronizada
      <4>2. QED
        BY <3>4, <3>5, <4>1
    <3>8. CASE comp[c].estado # "CANCELADA"
      <4>1. PICK mas, demas : mas = ingreso \cup altas /\ demas = ingreso' \cup altas
        OBVIOUS
      <4>2. IngresosDe(ingreso', c) = IngresosDe(ingreso, c)
        BY <3>3, <3>4, <3>8
      <4>3. IngresosDe(mas, c) = IngresosDe(demas, c)
        BY <4>1, <4>2 DEF IngresosDe
      <4>4. IsFiniteSet(IngresosDe(mas, c))
        <5>1. CASE altas = {}
          BY <1>1, <4>1, <5>1, FS_Subset, IngresosDe(mas, c) \subseteq ingreso DEF IngresosDe
        <5>2. CASE altas # {}
          <6>1. PICK x \in Importes :
                    altas = {[id |-> u.ingreso, comp |-> u.comp, importe |-> x]}
            BY <1>1, <3>1, <5>2 DEF IngresoOK
          <6>2. IsFiniteSet(altas)
            BY <6>1, FS_Singleton
          <6>3. IsFiniteSet(mas)
            BY <1>1, <4>1, <6>2, FS_Union
          <6>4. QED
            BY <6>3, FS_Subset, IngresosDe(mas, c) \subseteq mas DEF IngresosDe
        <5>3. QED
          BY <5>1, <5>2
      <4>5. componentCollectedAmount(movs, mas, c) = componentCollectedAmount(movs, demas, c)
        BY <4>3, <4>4, MismoCobrado
      <4>6. QED
        BY <3>4, <3>5, <4>1, <4>5
    <3>9. QED
      BY <3>7, <3>8
  <2>4. QED
    BY <1>1, <2>2, <2>3
<1>5. EstadoDelComponente'
  BY DEF EstadoDelComponente, Vigentes
<1>6. QED
  BY <1>2, <1>3, <1>4, <1>5 DEF IInv

\* The institution reports that it paid, or takes the report back.
LEMMA InformarMantiene ==
    ASSUME IInv, NEW c \in DOMAIN comp, NEW informado \in BOOLEAN, Informar(c, informado)
    PROVE  IInv'
<1>1. /\ comp \in Seq(Componente) /\ Len(comp) <= MaxComponentes
      /\ \A k \in DOMAIN comp : ComponenteOK(comp[k])
      /\ ingreso \subseteq Ingreso /\ IsFiniteSet(ingreso)
      /\ \A i \in ingreso : i.comp # 0 => i.comp \in DOMAIN comp
      /\ \A i, j \in ingreso : i.id = j.id => i = j
      /\ OperacionOK /\ Espera /\ BajoMinimoAutorizada /\ EstadoDelComponente
  BY DEF IInv, TiposOK, IdsUnicos
<1>2. PICK f : f = [comp[c] EXCEPT !.informado = informado]
  OBVIOUS
<1>3. PICK n : n = componentCollectedAmount(movimientos, ingreso, c)
  OBVIOUS
<1>4. PICK g : g = syncComponentPaymentStatus(f, n)
  OBVIOUS
<1>5. /\ Existe /\ comp' = [comp EXCEPT ![c] = g]
      /\ solapados' = solapados \cup Pisados(comp')
      /\ UNCHANGED <<operacion, aprobaciones, ingreso, movimientos, enCurso>>
  BY <1>2, <1>3, <1>4 DEF Informar, Libre
<1>6. ComponenteOK(f)
  BY <1>1, <1>2 DEF ComponenteOK, Componente
<1>7. /\ ComponenteOK(g)
      /\ g.estado # "CANCELADA" =>
            g.estado = IF g.informado THEN "PAGADO" ELSE paymentStatus(n, g.importe)
  <2>1. /\ g \in Componente /\ g.tipo = f.tipo /\ g.importe = f.importe
        /\ g.financiera = f.financiera /\ g.informado = f.informado
        /\ g.estado = "CANCELADA" <=> f.estado = "CANCELADA"
        /\ f.estado # "CANCELADA" =>
              g.estado = IF f.informado THEN "PAGADO" ELSE paymentStatus(n, f.importe)
    BY <1>4, <1>6, Sincronizada DEF ComponenteOK
  <2>2. QED
    BY <1>6, <2>1 DEF ComponenteOK
<1>8. /\ DOMAIN comp' = DOMAIN comp /\ comp'[c] = g
      /\ \A k \in DOMAIN comp : k # c => comp'[k] = comp[k]
  BY <1>5
<1>9. comp' \in Seq(Componente) /\ Len(comp') <= MaxComponentes
  <2>1. comp \in [1..Len(comp) -> Componente]
    BY <1>1
  <2>2. comp' \in [1..Len(comp) -> Componente]
    BY <1>5, <1>7, <2>1 DEF ComponenteOK
  <2>3. QED
    BY <1>1, <2>2
<1>10. \A k \in DOMAIN comp' : ComponenteOK(comp'[k])
  BY <1>1, <1>7, <1>8
<1>11. \A k \in DOMAIN comp' : comp'[k].estado # "CANCELADA" /\ k \notin solapados' =>
          comp'[k].estado = IF comp'[k].informado THEN "PAGADO"
                            ELSE paymentStatus(componentCollectedAmount(
                                     movimientos, ingreso', k), comp'[k].importe)
  <2>1. SUFFICES ASSUME NEW k \in DOMAIN comp, comp'[k].estado # "CANCELADA",
                        k \notin solapados
                 PROVE  comp'[k].estado =
                            IF comp'[k].informado THEN "PAGADO"
                            ELSE paymentStatus(componentCollectedAmount(
                                     movimientos, ingreso, k), comp'[k].importe)
    BY <1>5, <1>8
  <2>2. CASE k = c
    BY <1>3, <1>7, <1>8, <2>1, <2>2
  <2>3. CASE k # c
    BY <1>1, <1>8, <2>1, <2>3 DEF EstadoDelComponente, Vigentes
  <2>4. QED
    BY <2>2, <2>3
<1>12. OperacionOK' /\ Espera' /\ BajoMinimoAutorizada' /\ Existe'
  BY <1>1, <1>5 DEF OperacionOK, Espera, BajoMinimoAutorizada, Existe
<1>13. QED
  BY <1>1, <1>5, <1>8, <1>9, <1>10, <1>11, <1>12, PlanCambia

\* The plan is written again, while nothing was collected of it.
LEMMA ReplaceMantiene ==
    ASSUME IInv, NEW plan \in Planes, replacePaymentPlan(plan)
    PROVE  IInv'
<1>1. /\ Libre /\ operacion.estado \in {"BORRADOR", "RECHAZADA", "APROBADA"}
      /\ ~ConCobros /\ comp' = plan
      /\ operacion' = [operacion EXCEPT
                          !.estado = IF @ = "APROBADA" THEN @ ELSE "BORRADOR"]
      /\ UNCHANGED <<aprobaciones, ingreso, movimientos, enCurso, solapados>>
  BY DEF replacePaymentPlan
<1>2. Existe /\ \A t \in enCurso : t.tipo # "COBRO_PLAN"
  BY <1>1 DEF Libre
<1>3. \A i \in ingreso : i.comp = 0
  BY <1>1 DEF ConCobros
<1>4. /\ TiposOK /\ IdsUnicos /\ SolapadosOK
      /\ \A u \in enCurso : /\ IngresoOK(u) /\ MovimientoOK(u) /\ EstadoOK(u)
                            /\ u.comp = 0 => u.estado = ""
  BY DEF IInv, EnCursoOK
<1>5. \A u \in enCurso : u.comp = 0
  BY <1>2, <1>3, <1>4 DEF IngresoOK
<1>6. PICK n \in 1..MaxEntradas : plan \in [1..n -> Entradas]
  BY DEF Planes
<1>7. \A e \in Entradas : ComponenteOK(e) /\ e.estado = "PENDIENTE" /\ e.informado = FALSE
  <2>1. SUFFICES ASSUME NEW e \in Entradas
                 PROVE  ComponenteOK(e) /\ e.estado = "PENDIENTE" /\ e.informado = FALSE
    OBVIOUS
  <2>2. /\ e \in [tipo : TiposEnviados, importe : Importes,
                  financiera : Financieras \cup {""}, estado : {"PENDIENTE"},
                  informado : {FALSE}]
        /\ (e.tipo = "FINANCIACION" <=> e.financiera # "")
    BY DEF Entradas
  <2>3. e \in Componente
    BY <2>2, ConstantesValidas DEF Componente
  <2>4. QED
    BY <2>2, <2>3 DEF ComponenteOK
<1>8. /\ \A c \in DOMAIN comp' : /\ ComponenteOK(comp'[c]) /\ comp'[c].estado = "PENDIENTE"
                                 /\ comp'[c].informado = FALSE
      /\ DOMAIN comp' = 1..n
  BY <1>1, <1>6, <1>7
<1>9. comp' \in Seq(Componente) /\ Len(comp') <= MaxComponentes
  <2>1. comp' \in [1..n -> Componente]
    BY <1>1, <1>6, <1>7 DEF ComponenteOK
  <2>2. n \in Nat /\ n <= MaxComponentes
    BY Cotas
  <2>3. QED
    BY <2>1, <2>2
<1>10. operacion \in Operacion /\ CondicionesDe(operacion) \in Condiciones
  BY <1>2, <1>4 DEF TiposOK, OperacionOK, Existe
<1>11. PICK e : e = IF operacion.estado = "APROBADA" THEN "APROBADA" ELSE "BORRADOR"
  OBVIOUS
<1>12. operacion' = [operacion EXCEPT !.estado = e]
  BY <1>1, <1>11
<1>13. /\ operacion' \in Operacion /\ CondicionesDe(operacion') \in Condiciones
       /\ operacion'.estado = e /\ operacion'.precio = operacion.precio
       /\ operacion'.minimo = operacion.minimo
  BY <1>10, <1>11, <1>12 DEF Operacion, Estados, CondicionesDe
<1>14. Existe' /\ OperacionOK'
  BY <1>13, OperacionExiste DEF Existe, OperacionOK
<1>15. Espera'
  <2>1. Pendientes(aprobaciones) = {}
    BY <1>1 DEF IInv, Espera
  <2>2. QED
    BY <1>1, <1>11, <1>13, <2>1 DEF Espera
<1>16. BajoMinimoAutorizada'
  BY <1>1, <1>2, <1>11, <1>13 DEF IInv, BajoMinimoAutorizada, Existe
<1>17. TiposOK'
  BY <1>1, <1>3, <1>4, <1>8, <1>9, <1>14 DEF TiposOK
<1>18. IdsUnicos' /\ SolapadosOK'
  BY <1>1, <1>4 DEF IdsUnicos, SolapadosOK
<1>19. EnCursoOK'
  <2>1. SUFFICES ASSUME NEW u \in enCurso
                 PROVE  /\ IngresoOK(u)' /\ MovimientoOK(u)' /\ EstadoOK(u)'
                        /\ u.comp = 0 => u.estado = ""
    BY <1>1 DEF EnCursoOK
  <2>2. IngresoOK(u)' /\ MovimientoOK(u)'
    BY <1>1, <1>2, <1>4 DEF IngresoOK, MovimientoOK
  <2>3. EstadoOK(u)'
    BY <1>5 DEF EstadoOK
  <2>4. QED
    BY <1>4, <2>2, <2>3
<1>20. EstadoDelComponente'
  <2>1. SUFFICES ASSUME NEW c \in DOMAIN comp'
                 PROVE  comp'[c].estado =
                            IF comp'[c].informado THEN "PAGADO"
                            ELSE paymentStatus(componentCollectedAmount(
                                     movimientos', ingreso', c), comp'[c].importe)
    BY DEF EstadoDelComponente, Vigentes
  <2>2. IngresosDe(ingreso', c) = {}
    BY <1>1, <1>3, <1>8 DEF IngresosDe
  <2>3. componentCollectedAmount(movimientos', ingreso', c) = 0
    BY <2>2, SinIngresos
  <2>4. QED
    BY <1>8, <2>3 DEF paymentStatus
<1>21. QED
  BY <1>14, <1>15, <1>16, <1>17, <1>18, <1>19, <1>20 DEF IInv

-------------------------------------------------------------------------------
(* The correction: what a corrected plan adds up to *)

\* The places of the elements of a set of integers, from the least.
LEMMA Lugares ==
    ASSUME NEW S, IsFiniteSet(S), S \subseteq Int
    PROVE  /\ Cardinality(S) \in Nat
           /\ \A i \in S : Lugar(i, S) \in 1..Cardinality(S)
           /\ \A i, j \in S : Lugar(i, S) = Lugar(j, S) => i = j
           /\ \A k \in 1..Cardinality(S) : \E i \in S : Lugar(i, S) = k
<1> DEFINE Hasta(i) == {j \in S : j <= i}
<1>1. \A i \in S : /\ IsFiniteSet(Hasta(i)) /\ Cardinality(Hasta(i)) \in Nat
                   /\ Cardinality(Hasta(i)) <= Cardinality(S)
                   /\ Cardinality(Hasta(i)) # 0
  <2>1. SUFFICES ASSUME NEW i \in S
                 PROVE  /\ IsFiniteSet(Hasta(i)) /\ Cardinality(Hasta(i)) \in Nat
                        /\ Cardinality(Hasta(i)) <= Cardinality(S)
                        /\ Cardinality(Hasta(i)) # 0
    OBVIOUS
  <2>2. Hasta(i) \in SUBSET S /\ i \in Hasta(i)
    OBVIOUS
  <2> HIDE DEF Hasta
  <2>3. QED
    BY <2>2, FS_Subset, FS_CardinalityType, FS_EmptySet
<1>2. Cardinality(S) \in Nat
  BY FS_CardinalityType
<1>3. \A i \in S : Lugar(i, S) = Cardinality(Hasta(i))
  BY DEF Lugar
<1>4. ASSUME NEW i \in S, NEW j \in S, i < j
      PROVE  Lugar(i, S) # Lugar(j, S)
  <2>1. i \in Int /\ j \in Int /\ \A k \in S : k \in Int
    OBVIOUS
  <2>2. j <= j /\ ~ (j <= i) /\ \A k \in Int : k <= i => k <= j
    BY <1>4, <2>1
  <2>3. \A k \in Hasta(i) : k \in Hasta(j)
    BY <2>1, <2>2
  <2>4. j \in Hasta(j) /\ j \notin Hasta(i)
    BY <2>2
  <2> HIDE DEF Hasta
  <2>5. Hasta(i) \in SUBSET Hasta(j) /\ Hasta(i) # Hasta(j)
    BY <2>3, <2>4
  <2>6. Cardinality(Hasta(j)) # Cardinality(Hasta(i))
    BY <1>1, <2>5, FS_Subset
  <2>7. QED
    BY <1>3, <2>6
<1>5. \A i, j \in S : Lugar(i, S) = Lugar(j, S) => i = j
  BY <1>4
<1> DEFINE n == Cardinality(S)
           g == [i \in S |-> Lugar(i, S)]
<1>6. \A i \in S : Lugar(i, S) \in 1..n
  <2> HIDE DEF Hasta
  <2> QED BY <1>1, <1>2, <1>3
<1>7. g \in Injection(S, 1..n)
  BY <1>5, <1>6 DEF Injection, IsInjective
<1>8. IsFiniteSet(1..n) /\ Cardinality(1..n) = n
  BY <1>2, FS_Interval
<1>9. g \in Surjection(S, 1..n)
  <2> HIDE DEF g, n
  <2>1. n = Cardinality(S)
    BY DEF n
  <2> QED BY <1>7, <1>8, <2>1, FS_Injection
<1>10. \A k \in 1..n : \E i \in S : Lugar(i, S) = k
  BY <1>9 DEF Surjection
<1>11. QED
  BY <1>2, <1>5, <1>6, <1>10

\* What each platform is made of.
LEMMA ReglasSon ==
    ASSUME NEW p \in DOMAIN Reglas
    PROVE  /\ Reglas[p].credito \in 0..2 /\ Reglas[p].toma \in BOOLEAN
           /\ Reglas[p].resto \in Medios \cup {""}
<1> DEFINE Buena(r) == /\ r.credito \in 0..2 /\ r.toma \in BOOLEAN
                       /\ r.resto \in Medios \cup {""}
<1>1. /\ Buena(Regla(0, FALSE, "EFECTIVO"))
      /\ Buena(Regla(0, FALSE, "TRANSFERENCIA_BANCARIA"))
      /\ Buena(Regla(0, FALSE, "TARJETA"))
      /\ Buena(Regla(1, FALSE, ""))
      /\ Buena(Regla(2, FALSE, ""))
      /\ Buena(Regla(1, FALSE, "EFECTIVO"))
      /\ Buena(Regla(1, FALSE, "TRANSFERENCIA_BANCARIA"))
      /\ Buena(Regla(0, TRUE, "EFECTIVO"))
      /\ Buena(Regla(1, TRUE, ""))
      /\ Buena(Regla(1, TRUE, "EFECTIVO"))
  BY DEF Regla, Medios
<1>2. /\ Reglas["EFECTIVO"] = Regla(0, FALSE, "EFECTIVO")
      /\ Reglas["TRANSFERENCIA"] = Regla(0, FALSE, "TRANSFERENCIA_BANCARIA")
      /\ Reglas["TARJETA"] = Regla(0, FALSE, "TARJETA")
      /\ Reglas["CREDITO"] = Regla(1, FALSE, "")
      /\ Reglas["CREDITO_CREDITO"] = Regla(2, FALSE, "")
      /\ Reglas["EFECTIVO_CREDITO"] = Regla(1, FALSE, "EFECTIVO")
      /\ Reglas["TRANSFERENCIA_CREDITO"] = Regla(1, FALSE, "TRANSFERENCIA_BANCARIA")
      /\ Reglas["MOTO_EFECTIVO"] = Regla(0, TRUE, "EFECTIVO")
      /\ Reglas["MOTO_CREDITO"] = Regla(1, TRUE, "")
      /\ Reglas["MOTO_EFECTIVO_CREDITO"] = Regla(1, TRUE, "EFECTIVO")
  BY DEF Reglas
<1>3. DOMAIN Reglas =
          {"EFECTIVO", "TRANSFERENCIA", "TARJETA", "CREDITO", "CREDITO_CREDITO",
           "EFECTIVO_CREDITO", "TRANSFERENCIA_CREDITO", "MOTO_EFECTIVO",
           "MOTO_CREDITO", "MOTO_EFECTIVO_CREDITO"}
  BY DEF Reglas
<1>4. Buena(Reglas[p])
  <2> HIDE DEF Buena
  <2> QED BY <1>1, <1>2, <1>3
<1>5. QED
  BY <1>4

\* The sum of the amounts of components of a plan.
LEMMA SumarEs ==
    ASSUME NEW c, NEW S, S \subseteq DOMAIN c
    PROVE  Sumar(c, S) = Suma([i \in DOMAIN c |-> c[i].importe], S)
BY DEF Sumar, Suma, MapThenSumSet, MapThenFoldSet

\* The financings a correction asks for.
LEMMA DeseadosSon ==
    ASSUME NEW c \in Condiciones, NEW d \in Deseados(c)
    PROVE  /\ d \in Seq([importe : 1..c.credito, financiera : Financieras])
           /\ Len(d) = Reglas[c.plataforma].credito /\ Len(d) \in 0..2
           /\ Len(d) = 0 => c.credito = 0
           /\ Len(d) = 1 => d[1].importe = c.credito
           /\ Len(d) = 2 => /\ d[1].importe + d[2].importe = c.credito
                            /\ d[1].financiera # d[2].financiera
<1>1. c \in Condicion /\ c.plataforma \in DOMAIN Reglas
  BY ConstantesValidas DEF Condiciones, Condicion
<1>2. PICK n : n = Reglas[c.plataforma].credito
  OBVIOUS
<1>3. n \in 0..2
  BY <1>1, <1>2, ReglasSon
<1>4. PICK D : D = [importe : 1..c.credito, financiera : Financieras]
  OBVIOUS
<1>5. CASE n = 2
  <2>1. d \in [1..2 -> D] /\ d[1].importe + d[2].importe = c.credito
                          /\ d[1].financiera # d[2].financiera
    BY <1>2, <1>4, <1>5 DEF Deseados
  <2>2. d \in Seq(D) /\ Len(d) = 2
    <3>1. d \in [1..n -> D] /\ n \in Nat
      BY <1>5, <2>1
    <3>2. d \in Seq(D) /\ Len(d) = n
      BY <3>1
    <3>3. QED
      BY <1>5, <3>2
  <2>3. QED
    BY <1>2, <1>4, <1>5, <2>1, <2>2
<1>6. CASE n = 1
  <2>1. d \in [1..1 -> D] /\ d[1].importe = c.credito
    BY <1>2, <1>4, <1>6 DEF Deseados
  <2>2. d \in Seq(D) /\ Len(d) = 1
    BY <2>1
  <2>3. QED
    BY <1>2, <1>4, <1>6, <2>1, <2>2
<1>7. CASE n = 0
  <2>1. d = <<>>
    BY <1>2, <1>7 DEF Deseados
  <2>2. d \in Seq(D) /\ Len(d) = 0
    BY <2>1
  <2>3. c.credito = 0
    <3>1. ~ (Reglas[c.plataforma].credito > 0)
      BY <1>2, <1>7
    <3>2. QED
      BY <3>1 DEF Condiciones
  <2>4. QED
    BY <1>2, <1>4, <1>7, <2>2, <2>3
<1>8. QED
  BY <1>3, <1>5, <1>6, <1>7

\* The parts of the plan that is corrected.
Creditos == DeTipo(comp, {"FINANCIACION"})
EnEfectivo == DeTipo(comp, Medios)
EnParte == DeTipo(comp, {"TOMA_PARTE_PAGO"})
Otros == IF EnEfectivo = {} THEN {} ELSE EnEfectivo \ {Menor(EnEfectivo)}
Faltan(d) == SubSeq(d, Cardinality(Creditos) + 1, Len(d))

\* The row i of the plan once corrected, and the rows that are added to it.
Fila(i, o, d) ==
    CASE i \in Creditos -> Financiacion(comp[i], Lugar(i, Creditos), d)
      [] i \in EnEfectivo -> Efectivo(comp[i], i \notin Otros, o, Otros)
      [] OTHER -> comp[i]
Agregados(d) ==
    [k \in DOMAIN Faltan(d) |->
        Nuevo("FINANCIACION", Faltan(d)[k].importe, Faltan(d)[k].financiera)]
Saldo(o) ==
    IF Resto(o) > 0 /\ EnEfectivo = {}
    THEN <<Nuevo(Reglas[o.plataforma].resto, Resto(o), "")>> ELSE <<>>

\* An operation as corrected, and the financings asked for.
Corregida(o, d) ==
    /\ o \in Operacion /\ CondicionesDe(o) \in Condiciones
    /\ d \in Seq([importe : 1..o.credito, financiera : Financieras])
    /\ Len(d) = Reglas[o.plataforma].credito /\ Len(d) \in 0..2
    /\ Len(d) = 0 => o.credito = 0
    /\ Len(d) = 1 => d[1].importe = o.credito
    /\ Len(d) = 2 => /\ d[1].importe + d[2].importe = o.credito
                     /\ d[1].financiera # d[2].financiera
    /\ Correccion(o)

\* A correction is one of such an operation.
LEMMA CorreccionEs ==
    ASSUME IInv, NEW c \in Condiciones, CorrectPlan(c)
    PROVE  /\ Libre
           /\ \E o, d : /\ Corregida(o, d) /\ correct(o, d)
                        /\ o.estado = operacion.estado
<1>1. PICK d \in Deseados(c), pol \in Politicas \cup {PreciosDe(operacion)} :
          correct(ConPrecios(ConCondiciones(operacion, c), pol), d)
  BY DEF CorrectPlan
<1>2. Libre /\ Existe
  BY DEF CorrectPlan, Libre
<1>3. PICK o : o = ConPrecios(ConCondiciones(operacion, c), pol)
  OBVIOUS
<1>4. operacion \in Operacion
  BY <1>2 DEF IInv, TiposOK, OperacionOK, Existe
<1>5. pol.lista \in Nat /\ pol.minimo \in Nat
  BY <1>2, PreciosDePolitica
<1>6. /\ o \in Operacion /\ CondicionesDe(o) = c /\ CondicionesDe(o) \in Condiciones
      /\ o.estado = operacion.estado
  BY <1>3, <1>4, <1>5, ConTerminos
<1>7. c.credito = o.credito /\ c.plataforma = o.plataforma
  BY <1>6 DEF CondicionesDe
<1>8. /\ d \in Seq([importe : 1..c.credito, financiera : Financieras])
      /\ Len(d) = Reglas[c.plataforma].credito /\ Len(d) \in 0..2
      /\ Len(d) = 0 => c.credito = 0
      /\ Len(d) = 1 => d[1].importe = c.credito
      /\ Len(d) = 2 => /\ d[1].importe + d[2].importe = c.credito
                       /\ d[1].financiera # d[2].financiera
  BY DeseadosSon
<1>9. correct(o, d)
  BY <1>1, <1>3
<1>10. Correccion(o)
  BY <1>9 DEF correct
<1>11. Corregida(o, d)
  BY <1>6, <1>7, <1>8, <1>10 DEF Corregida
<1>12. QED
  BY <1>2, <1>6, <1>9, <1>11

\* The parts of the plan: they share nothing and are all its components in force.
LEMMA PartesSon ==
    ASSUME IInv
    PROVE  /\ IsFiniteSet(DOMAIN comp) /\ DOMAIN comp = 1..Len(comp) /\ Len(comp) \in Nat
           /\ Creditos \cup EnEfectivo \cup EnParte = Vigentes(comp)
           /\ Vigentes(comp) \subseteq DOMAIN comp
           /\ Creditos \cap EnEfectivo = {} /\ Creditos \cap EnParte = {}
           /\ EnEfectivo \cap EnParte = {}
           /\ IsFiniteSet(Creditos) /\ IsFiniteSet(EnEfectivo) /\ IsFiniteSet(EnParte)
           /\ \A i \in DOMAIN comp : comp[i].importe \in Nat \ {0}
<1>1. comp \in Seq(Componente) /\ \A i \in DOMAIN comp : comp[i] \in Componente
  BY DEF IInv, TiposOK, ComponenteOK
<1>2. DOMAIN comp = 1..Len(comp) /\ Len(comp) \in Nat
  BY <1>1
<1>3. IsFiniteSet(DOMAIN comp)
  BY <1>2, FS_Interval
<1>4. Vigentes(comp) \subseteq DOMAIN comp
  BY DEF Vigentes
<1>5. /\ Creditos \cup EnEfectivo \cup EnParte = Vigentes(comp)
      /\ Creditos \cap EnEfectivo = {} /\ Creditos \cap EnParte = {}
      /\ EnEfectivo \cap EnParte = {}
  <2>1. \A i \in Vigentes(comp) : comp[i].tipo \in Tipos
    BY <1>1, <1>4 DEF Componente
  <2>2. QED
    BY <2>1 DEF Creditos, EnEfectivo, EnParte, DeTipo, Tipos, Medios
<1>6. IsFiniteSet(Creditos) /\ IsFiniteSet(EnEfectivo) /\ IsFiniteSet(EnParte)
  <2>1. /\ Creditos \in SUBSET (DOMAIN comp) /\ EnEfectivo \in SUBSET (DOMAIN comp)
        /\ EnParte \in SUBSET (DOMAIN comp)
    BY DEF Creditos, EnEfectivo, EnParte, DeTipo, Vigentes
  <2>2. QED
    BY <1>3, <2>1, FS_Subset
<1>7. \A i \in DOMAIN comp : comp[i].importe \in Nat \ {0}
  <2>1. Importes \subseteq Nat \ {0}
    <3>1. SUFFICES ASSUME NEW x \in Importes PROVE x \in Nat \ {0}
      OBVIOUS
    <3>2. PICK p \in Precios : x \in 1..p
      BY DEF Importes
    <3>3. p \in Nat
      BY ConstantesValidas
    <3>4. QED
      BY <3>2, <3>3
  <2>2. QED
    BY <1>1, <2>1 DEF Componente
<1>8. QED
  BY <1>2, <1>3, <1>4, <1>5, <1>6, <1>7

\* Amounts of the plan add up to a natural number.
LEMMA SumarNatural ==
    ASSUME IInv, NEW S, S \subseteq DOMAIN comp
    PROVE  Sumar(comp, S) \in Nat
<1> DEFINE F == [i \in DOMAIN comp |-> comp[i].importe]
<1>1. IsFiniteSet(DOMAIN comp) /\ Naturales(F, DOMAIN comp)
  BY PartesSon DEF Naturales
<1>2. Sumar(comp, S) = Suma(F, S)
  BY SumarEs
<1> HIDE DEF F
<1>3. QED
  BY <1>1, <1>2, SumaParte

\* What is left to pay is no more than the price; its amounts are amounts.
LEMMA RestoEs ==
    ASSUME IInv, NEW o, NEW d, Corregida(o, d)
    PROVE  /\ Resto(o) \in Nat /\ o.precio \in Nat /\ o.credito \in Nat
           /\ Sumar(comp, EnParte) \in Nat
           /\ o.precio = o.credito + Resto(o) + Sumar(comp, EnParte)
           /\ 1..Resto(o) \subseteq Importes /\ 1..o.credito \subseteq Importes
<1>1. EnParte \subseteq DOMAIN comp
  BY DEF EnParte, DeTipo, Vigentes
<1>2. PICK s : s = Sumar(comp, EnParte)
  OBVIOUS
<1>3. s \in Nat
  BY <1>1, <1>2, SumarNatural
<1>4. Resto(o) = o.precio - o.credito - s
  BY <1>2 DEF Resto, EnParte
<1>5. Resto(o) >= 0
  BY DEF Corregida, Correccion
<1>6. o.precio \in Precios /\ o.precio \in Nat
  BY ConstantesValidas DEF Corregida, Operacion
<1>7. o.credito \in Nat /\ o.credito <= o.precio
  <2>1. CondicionesDe(o) \in Condiciones /\ CondicionesDe(o).credito = o.credito
        /\ CondicionesDe(o).precio = o.precio
    BY DEF Corregida, CondicionesDe
  <2>2. o.credito \in 1..o.precio \/ o.credito = 0
    BY <2>1 DEF Condiciones
  <2>3. QED
    BY <1>6, <2>2
<1>8. Resto(o) \in Nat /\ Resto(o) <= o.precio /\ o.precio = o.credito + Resto(o) + s
  <2> HIDE DEF Resto
  <2>1. PICK r : r = Resto(o)
    OBVIOUS
  <2>2. QED
    BY <1>3, <1>4, <1>5, <1>6, <1>7, <2>1
<1>9. \A n \in Nat : n <= o.precio => 1..n \subseteq Importes
  BY <1>6 DEF Importes
<1>10. QED
  BY <1>2, <1>3, <1>6, <1>7, <1>8, <1>9

\* What a correction does of each row.
LEMMA FilaEs ==
    ASSUME IInv, NEW o, NEW d, Corregida(o, d), NEW i \in DOMAIN comp,
           NEW f, f = Fila(i, o, d)
    PROVE  /\ ComponenteOK(f)
           /\ i \in Creditos /\ Lugar(i, Creditos) <= Len(d) =>
                 /\ f.estado # "CANCELADA" /\ f.tipo = "FINANCIACION"
                 /\ f.importe = d[Lugar(i, Creditos)].importe
                 /\ f.financiera = d[Lugar(i, Creditos)].financiera
           /\ i \in Creditos /\ ~ (Lugar(i, Creditos) <= Len(d)) => f.estado = "CANCELADA"
           /\ i \in EnEfectivo /\ (Resto(o) = 0 \/ (i \in Otros /\ Resto(o) <= Sumar(comp, Otros)))
                 => f.estado = "CANCELADA"
           /\ i \in EnEfectivo /\ i \notin Otros /\ Resto(o) # 0 =>
                 /\ f.estado # "CANCELADA" /\ f.tipo \in Medios
                 /\ f.importe = ImporteDelResto(o, Otros)
           /\ i \in Otros /\ Resto(o) # 0 /\ ~ (Resto(o) <= Sumar(comp, Otros)) => f = comp[i]
           /\ i \notin Creditos /\ i \notin EnEfectivo => f = comp[i]
<1>1. ComponenteOK(comp[i]) /\ comp[i] \in Componente
  BY DEF IInv, TiposOK, ComponenteOK
<1>2. /\ Creditos \cap EnEfectivo = {} /\ IsFiniteSet(Creditos) /\ Creditos \subseteq Int
      /\ Otros \subseteq EnEfectivo /\ Otros \subseteq DOMAIN comp
  <2>1. Otros \subseteq EnEfectivo
    BY DEF Otros
  <2>2. Creditos \subseteq DOMAIN comp /\ EnEfectivo \subseteq DOMAIN comp
    BY DEF Creditos, EnEfectivo, DeTipo, Vigentes
  <2>3. DOMAIN comp \subseteq Int
    BY PartesSon
  <2>4. QED
    BY <2>1, <2>2, <2>3, PartesSon
<1>3. CASE i \in Creditos
  <2>1. PICK k : k = Lugar(i, Creditos)
    OBVIOUS
  <2>2. k \in Nat /\ k >= 1
    <3>1. PICK n : n = Cardinality(Creditos)
      OBVIOUS
    <3>2. n \in Nat /\ k \in 1..n
      BY <1>2, <1>3, <2>1, <3>1, Lugares
    <3>3. QED
      BY <3>2
  <2>3. comp[i].tipo = "FINANCIACION" /\ comp[i].estado # "CANCELADA"
    BY <1>3 DEF Creditos, DeTipo, Vigentes
  <2>4. f = Financiacion(comp[i], k, d)
    <3>1. f = Financiacion(comp[i], Lugar(i, Creditos), d)
      BY <1>2, <1>3, Zenon DEF Fila
    <3>2. QED
      BY <2>1, <3>1, Zenon
  <2>5. CASE k <= Len(d)
    <3>1. PICK e : e = d[k]
      OBVIOUS
    <3>2. e \in [importe : 1..o.credito, financiera : Financieras]
      <4>1. PICK D : D = [importe : 1..o.credito, financiera : Financieras]
        OBVIOUS
      <4>2. d \in Seq(D)
        BY <4>1 DEF Corregida
      <4>3. e \in D
        BY <2>2, <2>5, <3>1, <4>2
      <4>4. QED
        BY <4>1, <4>3
    <3>3. e.importe \in Importes /\ e.financiera \in Financieras /\ e.financiera # ""
      BY <3>2, RestoEs, ConstantesValidas
    <3>4. f = [comp[i] EXCEPT !.importe = e.importe, !.financiera = e.financiera]
      BY <2>4, <2>5, <3>1 DEF Financiacion
    <3>5. /\ f \in Componente /\ f.tipo = "FINANCIACION" /\ f.estado # "CANCELADA"
          /\ f.importe = e.importe /\ f.financiera = e.financiera
      BY <1>1, <2>3, <3>3, <3>4 DEF Componente
    <3>6. ComponenteOK(f)
      BY <3>3, <3>5 DEF ComponenteOK
    <3>7. QED
      BY <1>2, <1>3, <2>1, <2>5, <3>1, <3>5, <3>6
  <2>6. CASE ~ (k <= Len(d))
    <3>1. f = [comp[i] EXCEPT !.estado = "CANCELADA"]
      BY <2>4, <2>6 DEF Financiacion
    <3>2. ComponenteOK(f) /\ f.estado = "CANCELADA"
      BY <1>1, <3>1 DEF ComponenteOK, Componente
    <3>3. QED
      BY <1>2, <1>3, <2>1, <2>6, <3>2
  <2>7. QED
    BY <2>5, <2>6
<1>4. CASE i \in EnEfectivo
  <2>1. i \notin Creditos
    BY <1>2, <1>4
  <2>2. comp[i].tipo \in Medios /\ comp[i].estado # "CANCELADA"
    BY <1>4 DEF EnEfectivo, DeTipo, Vigentes
  <2>3. f = Efectivo(comp[i], i \notin Otros, o, Otros)
    BY <1>4, <2>1 DEF Fila
  <2>4. CASE Resto(o) = 0 \/ (i \in Otros /\ Resto(o) <= Sumar(comp, Otros))
    <3>1. f = [comp[i] EXCEPT !.estado = "CANCELADA"]
      BY <2>3, <2>4 DEF Efectivo
    <3>2. ComponenteOK(f) /\ f.estado = "CANCELADA"
      BY <1>1, <3>1 DEF ComponenteOK, Componente
    <3>3. QED
      BY <2>1, <2>4, <1>4, <3>2
  <2>5. CASE Resto(o) # 0 /\ i \in Otros /\ ~ (Resto(o) <= Sumar(comp, Otros))
    <3>1. f = comp[i]
      BY <2>3, <2>5 DEF Efectivo
    <3>2. QED
      BY <1>1, <1>4, <2>1, <2>5, <3>1
  <2>6. CASE Resto(o) # 0 /\ i \notin Otros
    <3>1. PICK n, t : /\ n = ImporteDelResto(o, Otros)
                      /\ t = IF o.plataforma # operacion.plataforma
                             THEN Reglas[o.plataforma].resto ELSE comp[i].tipo
      OBVIOUS
    <3>2. f = [comp[i] EXCEPT !.importe = n, !.tipo = t]
      BY <2>3, <2>6, <3>1 DEF Efectivo
    <3>3. Sumar(comp, Otros) \in Nat /\ Resto(o) \in Nat /\ 1..Resto(o) \subseteq Importes
      BY <1>2, SumarNatural, RestoEs
    <3>4. n \in Importes
      <4>1. PICK r, s : r = Resto(o) /\ s = Sumar(comp, Otros)
        OBVIOUS
      <4>2. n = IF r > s THEN r - s ELSE r
        BY <3>1, <4>1 DEF ImporteDelResto
      <4>3. n \in 1..r
        BY <2>6, <3>3, <4>1, <4>2
      <4>4. QED
        BY <3>3, <4>1, <4>3
    <3>5. t \in Medios
      <4>1. o.plataforma \in DOMAIN Reglas
        BY ConstantesValidas DEF Corregida, Operacion
      <4>2. Reglas[o.plataforma].resto \in Medios \cup {""}
        BY <4>1, ReglasSon
      <4>3. Resto(o) > 0
        BY <2>6, <3>3
      <4>4. Reglas[o.plataforma].resto # ""
        BY <4>3 DEF Corregida, Correccion
      <4>5. QED
        BY <2>2, <3>1, <4>2, <4>4
    <3>6. /\ f \in Componente /\ f.tipo = t /\ f.importe = n
          /\ f.financiera = comp[i].financiera /\ f.estado = comp[i].estado
      BY <1>1, <3>2, <3>4, <3>5 DEF Componente, Tipos
    <3>7. "FINANCIACION" \notin Medios
      BY DEF Medios
    <3>8. ComponenteOK(f)
      BY <1>1, <2>2, <3>5, <3>6, <3>7 DEF ComponenteOK
    <3>9. QED
      BY <1>4, <2>1, <2>2, <2>6, <3>1, <3>5, <3>6, <3>8
  <2>7. QED
    BY <2>4, <2>5, <2>6
<1>5. CASE i \notin Creditos /\ i \notin EnEfectivo
  <2>1. f = comp[i] /\ i \notin Otros
    BY <1>2, <1>5 DEF Fila
  <2>2. QED
    BY <1>1, <1>5, <2>1
<1>6. QED
  BY <1>3, <1>4, <1>5

\* The rows that are added.
LEMMA AgregadosSon ==
    ASSUME IInv, NEW o, NEW d, Corregida(o, d), NEW k, k = Cardinality(Creditos)
    PROVE  /\ k \in Nat
           /\ Agregados(d) \in Seq(Componente)
           /\ Len(Agregados(d)) = IF k < Len(d) THEN Len(d) - k ELSE 0
           /\ \A j \in 1..Len(Agregados(d)) :
                 /\ k + j \in 1..Len(d)
                 /\ Agregados(d)[j] = Nuevo("FINANCIACION", d[k + j].importe, d[k + j].financiera)
                 /\ ComponenteOK(Agregados(d)[j])
<1>1. PICK D : D = [importe : 1..o.credito, financiera : Financieras]
  OBVIOUS
<1>2. d \in Seq(D) /\ Len(d) \in Nat
  BY <1>1 DEF Corregida
<1>3. k \in Nat
  BY PartesSon, FS_CardinalityType
<1>4. PICK t : t = SubSeq(d, k + 1, Len(d))
  OBVIOUS
<1>5. PICK n : n = IF k < Len(d) THEN Len(d) - k ELSE 0
  OBVIOUS
<1>6. /\ n \in Nat /\ Len(t) = n /\ DOMAIN t = 1..n
      /\ \A j \in 1..n : k + j \in 1..Len(d) /\ t[j] = d[k + j]
  <2>1. CASE k < Len(d)
    <3>1. k + 1 \in 1..(Len(d) + 1) /\ Len(d) \in k..Len(d)
      BY <1>2, <1>3, <2>1
    <3>2. Len(t) = Len(d) - (k + 1) + 1 /\ t \in Seq(D)
      BY <1>2, <1>3, <1>4, <2>1, <3>1, SubSeqProperties
    <3>3. Len(t) = n /\ n \in Nat
      BY <1>2, <1>3, <1>5, <2>1, <3>2
    <3>4. \A j \in 1..n : k + j \in 1..Len(d) /\ t[j] = d[k + j]
      BY <1>2, <1>3, <1>4, <1>5, <2>1
    <3>5. QED
      BY <3>2, <3>3, <3>4
  <2>2. CASE ~ (k < Len(d))
    BY <1>2, <1>3, <1>4, <1>5, <2>2
  <2>3. QED
    BY <2>1, <2>2
<1>7. PICK a : a = [j \in 1..n |-> Nuevo("FINANCIACION", d[k + j].importe, d[k + j].financiera)]
  OBVIOUS
<1>8. Agregados(d) = a
  BY <1>4, <1>6, <1>7 DEF Agregados, Faltan
<1>9. ASSUME NEW j \in 1..n PROVE ComponenteOK(a[j])
  <2>1. PICK e : e = d[k + j]
    OBVIOUS
  <2>2. e \in D
    BY <1>2, <1>6, <2>1
  <2>3. e.importe \in Importes /\ e.financiera \in Financieras /\ e.financiera # ""
    BY <1>1, <2>2, RestoEs, ConstantesValidas
  <2>4. PICK g : g = a[j]
    OBVIOUS
  <2>5. g = Nuevo("FINANCIACION", e.importe, e.financiera)
    BY <1>7, <2>1, <2>4
  <2>6. g \in Componente /\ g.tipo = "FINANCIACION" /\ g.financiera # ""
    BY <2>3, <2>5 DEF Nuevo, Componente, Tipos
  <2>7. ComponenteOK(g)
    BY <2>6 DEF ComponenteOK
  <2>8. QED
    BY <2>4, <2>7
<1>10. a \in [1..n -> Componente]
  BY <1>7, <1>9 DEF ComponenteOK
<1>11. a \in Seq(Componente) /\ Len(a) = n
  BY <1>6, <1>10
<1>12. QED
  BY <1>3, <1>5, <1>6, <1>7, <1>8, <1>9, <1>11

\* The row of what is left to pay, when no row of the plan can take it.
LEMMA SaldoEs ==
    ASSUME IInv, NEW o, NEW d, Corregida(o, d)
    PROVE  /\ Saldo(o) \in Seq(Componente)
           /\ Len(Saldo(o)) = IF Resto(o) > 0 /\ EnEfectivo = {} THEN 1 ELSE 0
           /\ Len(Saldo(o)) = 1 =>
                 /\ ComponenteOK(Saldo(o)[1]) /\ Saldo(o)[1].estado = "PENDIENTE"
                 /\ Saldo(o)[1].tipo \in Medios /\ Saldo(o)[1].importe = Resto(o)
<1>1. CASE ~ (Resto(o) > 0 /\ EnEfectivo = {})
  <2>1. Saldo(o) = <<>>
    BY <1>1 DEF Saldo
  <2>2. Saldo(o) \in Seq(Componente) /\ Len(Saldo(o)) = 0
    BY <2>1
  <2>3. QED
    BY <1>1, <2>2
<1>2. CASE Resto(o) > 0 /\ EnEfectivo = {}
  <2>1. PICK e : e = Nuevo(Reglas[o.plataforma].resto, Resto(o), "")
    OBVIOUS
  <2>2. Saldo(o) = <<e>>
    BY <1>2, <2>1 DEF Saldo
  <2>3. Resto(o) \in Importes
    BY <1>2, RestoEs
  <2>4. Reglas[o.plataforma].resto \in Medios
    <3>1. o.plataforma \in DOMAIN Reglas
      BY ConstantesValidas DEF Corregida, Operacion
    <3>2. Reglas[o.plataforma].resto # ""
      BY <1>2 DEF Corregida, Correccion
    <3>3. QED
      BY <3>1, <3>2, ReglasSon
  <2>5. /\ e \in Componente /\ e.estado = "PENDIENTE" /\ e.importe = Resto(o)
        /\ e.tipo \in Medios /\ e.financiera = ""
    BY <2>1, <2>3, <2>4 DEF Nuevo, Componente, Tipos
  <2>6. ComponenteOK(e)
    BY <2>5 DEF ComponenteOK, Medios
  <2>7. Saldo(o) \in Seq(Componente) /\ Len(Saldo(o)) = 1 /\ Saldo(o)[1] = e
    <3>1. e \in Componente
      BY <2>5
    <3>2. <<e>> \in Seq(Componente)
      BY <3>1
    <3>3. Len(<<e>>) = 1 /\ <<e>>[1] = e
      OBVIOUS
    <3>4. QED
      BY <2>2, <3>2, <3>3, Zenon
  <2>8. QED
    BY <1>2, <2>5, <2>6, <2>7
<1>3. QED
  BY <1>1, <1>2

\* A corrected plan, row by row: n that were there, f financings that are added,
\* and the one of what is left to pay, or none.
FilasDelPlan(plan, o, d, n, f, m) ==
    /\ plan \in Seq(Componente) /\ n \in Nat /\ f \in Nat /\ m \in Nat
    /\ Len(plan) = n + f + m /\ DOMAIN plan = 1..(n + f + m)
    /\ DOMAIN comp = 1..n
    /\ \A i \in 1..n : plan[i] = Fila(i, o, d)
    /\ \A j \in 1..f : plan[n + j] = Agregados(d)[j]
    /\ m = 1 => plan[n + f + 1] = Saldo(o)[1]
    /\ \A i \in DOMAIN plan : ComponenteOK(plan[i])

\* The rows of the corrected plan.
LEMMA PlanEs ==
    ASSUME IInv, NEW o, NEW d, Corregida(o, d)
    PROVE  FilasDelPlan(reconcileCorrectedPaymentPlan(o, d), o, d,
                        Len(comp), Len(Agregados(d)), Len(Saldo(o)))
<1>0. PICK plan, n, f, m : /\ plan = reconcileCorrectedPaymentPlan(o, d) /\ n = Len(comp)
                           /\ f = Len(Agregados(d)) /\ m = Len(Saldo(o))
  OBVIOUS
<1>1. PICK A : A = [i \in DOMAIN comp |-> Fila(i, o, d)]
  OBVIOUS
<1>2. PICK B, C : B = Agregados(d) /\ C = Saldo(o)
  OBVIOUS
<1>3. plan = (A \o B) \o C
  BY <1>0, <1>1, <1>2, Zenon DEF reconcileCorrectedPaymentPlan, Fila, Agregados, Saldo, Faltan,
     Creditos, EnEfectivo, Otros
<1>4. DOMAIN comp = 1..n /\ n \in Nat
  BY <1>0, PartesSon
<1>5. \A i \in 1..n : ComponenteOK(A[i])
  BY <1>1, <1>4, FilaEs
<1>6. A \in Seq(Componente) /\ Len(A) = n
  <2>1. A \in [1..n -> Componente]
    BY <1>1, <1>4, <1>5 DEF ComponenteOK
  <2>2. QED
    BY <1>4, <2>1
<1>7. PICK k : k = Cardinality(Creditos)
  OBVIOUS
<1>8. /\ B \in Seq(Componente) /\ Len(B) = f
      /\ \A j \in 1..f : ComponenteOK(B[j])
  <2>1. Len(B) = f
    BY <1>0, <1>2, Zenon
  <2>2. /\ Agregados(d) \in Seq(Componente)
        /\ \A j \in 1..Len(Agregados(d)) : ComponenteOK(Agregados(d)[j])
    BY <1>7, AgregadosSon
  <2>3. QED
    BY <1>2, <2>1, <2>2
<1>9. C \in Seq(Componente) /\ Len(C) = m /\ m \in {0, 1} /\ (m = 1 => ComponenteOK(C[1]))
  BY <1>0, <1>2, SaldoEs
<1>10. f \in Nat
  BY <1>8, LenProperties
<1>11. PICK AB : AB = A \o B
  OBVIOUS
<1>12. /\ AB \in Seq(Componente) /\ Len(AB) = n + f
       /\ \A i \in 1..(n + f) : AB[i] = IF i <= n THEN A[i] ELSE B[i - n]
  <2>1. /\ A \o B \in Seq(Componente) /\ Len(A \o B) = Len(A) + Len(B)
        /\ \A i \in 1..(Len(A) + Len(B)) :
              (A \o B)[i] = IF i <= Len(A) THEN A[i] ELSE B[i - Len(A)]
    BY <1>6, <1>8, ConcatProperties
  <2>2. Len(A) = n /\ Len(B) = f
    BY <1>6, <1>8
  <2>3. QED
    BY <1>11, <2>1, <2>2, Zenon
<1>13. /\ plan \in Seq(Componente) /\ Len(plan) = (n + f) + m
       /\ \A i \in 1..((n + f) + m) : plan[i] = IF i <= n + f THEN AB[i] ELSE C[i - (n + f)]
  <2>1. /\ AB \o C \in Seq(Componente) /\ Len(AB \o C) = Len(AB) + Len(C)
        /\ \A i \in 1..(Len(AB) + Len(C)) :
              (AB \o C)[i] = IF i <= Len(AB) THEN AB[i] ELSE C[i - Len(AB)]
    <3>1. AB \in Seq(Componente) /\ C \in Seq(Componente)
      BY <1>9, <1>12
    <3> HIDE DEF Componente
    <3>2. QED
      BY ONLY <3>1, ConcatProperties, Zenon
  <2>2. Len(AB) = n + f /\ Len(C) = m
    BY <1>9, <1>12
  <2>3. plan = AB \o C
    BY <1>3, <1>11, Zenon
  <2>4. QED
    BY <2>1, <2>2, <2>3, Zenon
<1>14. Len(plan) = n + f + m /\ DOMAIN plan = 1..(n + f + m)
  BY <1>13, LenProperties
<1>15. \A i \in 1..n : plan[i] = A[i]
  BY <1>4, <1>9, <1>10, <1>12, <1>13
<1>16. \A j \in 1..f : plan[n + j] = B[j]
  <2>1. SUFFICES ASSUME NEW j \in 1..f PROVE plan[n + j] = B[j]
    OBVIOUS
  <2>2. /\ n + j \in 1..(n + f) /\ n + j \in 1..((n + f) + m) /\ ~ (n + j <= n)
        /\ (n + j) - n = j /\ n + j <= n + f
    BY <1>4, <1>9, <1>10
  <2>3. QED
    BY <1>12, <1>13, <2>2
<1>17. m = 1 => plan[n + f + 1] = C[1]
  <2>1. SUFFICES ASSUME m = 1 PROVE plan[n + f + 1] = C[1]
    OBVIOUS
  <2>2. PICK i : i = n + f + 1
    OBVIOUS
  <2>3. i \in 1..((n + f) + m) /\ ~ (i <= n + f) /\ i - (n + f) = 1
    BY <1>4, <1>10, <2>1, <2>2
  <2>4. QED
    BY <1>13, <2>2, <2>3
<1>18. \A i \in DOMAIN plan : ComponenteOK(plan[i])
  <2>1. SUFFICES ASSUME NEW i \in DOMAIN plan PROVE ComponenteOK(plan[i])
    OBVIOUS
  <2>2. CASE i <= n
    <3>1. i \in 1..n
      BY <1>4, <1>10, <1>14, <2>2
    <3>2. QED
      BY <1>5, <1>15, <3>1
  <2>3. CASE ~ (i <= n) /\ i <= n + f
    <3>1. PICK j : j = i - n
      OBVIOUS
    <3>2. j \in 1..f /\ i = n + j
      BY <1>4, <1>10, <1>14, <2>3, <3>1
    <3>3. QED
      BY <1>8, <1>16, <3>2
  <2>4. CASE ~ (i <= n + f)
    <3>1. m = 1 /\ i = n + f + 1
      <4>1. m = 0 \/ m = 1
        BY <1>9
      <4>2. i \in 1..(n + f + m) /\ n \in Int /\ f \in Int
        BY <1>4, <1>10, <1>14
      <4>3. QED
        BY <2>4, <4>1, <4>2
    <3>2. QED
      BY <1>9, <1>17, <3>1
  <2>5. n \in Int /\ f \in Int /\ i \in Int
    BY <1>4, <1>10, <1>14
  <2>6. QED
    BY <2>2, <2>3, <2>4, <2>5
<1>19. FilasDelPlan(plan, o, d, n, f, m)
  BY <1>1, <1>2, <1>4, <1>9, <1>10, <1>13, <1>14, <1>15, <1>16, <1>17, <1>18
     DEF FilasDelPlan
<1>20. QED
  BY <1>0, <1>19, Zenon


\* The income of a component, as a corrected plan leaves it.
Suelto(plan, i) ==
    IF i.comp # 0 /\ plan[i.comp].estado = "CANCELADA"
    THEN [i EXCEPT !.comp = 0] ELSE i

\* The incomes that a correction leaves: the same ones, and those of the
\* components in force are where they were.
LEMMA DesvinculadosSon ==
    ASSUME IInv, NEW plan, NEW libres, libres = Desvinculados(plan)
    PROVE  /\ libres \subseteq Ingreso /\ IsFiniteSet(libres)
           /\ \A i \in libres : i.comp # 0 => i.comp \in DOMAIN comp
           /\ \A i, j \in libres : i.id = j.id => i = j
           /\ \A i \in libres : \E j \in ingreso : j.id = i.id
           /\ \A c : c # 0 /\ plan[c].estado # "CANCELADA" =>
                 IngresosDe(libres, c) = IngresosDe(ingreso, c)
<1>1. /\ ingreso \subseteq Ingreso /\ IsFiniteSet(ingreso)
      /\ \A i \in ingreso : i.comp # 0 => i.comp \in DOMAIN comp
      /\ \A i, j \in ingreso : i.id = j.id => i = j
  BY DEF IInv, TiposOK, IdsUnicos
<1>2. libres = {Suelto(plan, i) : i \in ingreso}
  BY DEF Desvinculados, Suelto
<1>3. ASSUME NEW i \in ingreso
      PROVE  /\ Suelto(plan, i) \in Ingreso /\ Suelto(plan, i).id = i.id
             /\ Suelto(plan, i).comp = 0 \/ Suelto(plan, i) = i
             /\ (i.comp # 0 => plan[i.comp].estado # "CANCELADA") => Suelto(plan, i) = i
  <2>1. i \in Ingreso
    BY <1>1
  <2>2. CASE i.comp # 0 /\ plan[i.comp].estado = "CANCELADA"
    <3>1. Suelto(plan, i) = [i EXCEPT !.comp = 0]
      BY <2>2 DEF Suelto
    <3>2. [i EXCEPT !.comp = 0] \in Ingreso /\ [i EXCEPT !.comp = 0].id = i.id
          /\ [i EXCEPT !.comp = 0].comp = 0
      BY <2>1 DEF Ingreso
    <3>3. QED
      BY <2>2, <3>1, <3>2
  <2>3. CASE ~ (i.comp # 0 /\ plan[i.comp].estado = "CANCELADA")
    <3>1. Suelto(plan, i) = i
      BY <2>3 DEF Suelto
    <3>2. QED
      BY <2>1, <3>1
  <2>4. QED
    BY <2>2, <2>3
<1>4. IsFiniteSet(libres)
  <2>1. PICK g : g = [i \in ingreso |-> Suelto(plan, i)]
    OBVIOUS
  <2>2. g \in Surjection(ingreso, libres)
    BY <1>2, <2>1 DEF Surjection
  <2>3. QED
    BY <1>1, <2>2, FS_Surjection
<1>5. /\ libres \subseteq Ingreso
      /\ \A i \in libres : i.comp # 0 => i.comp \in DOMAIN comp
      /\ \A i, j \in libres : i.id = j.id => i = j
      /\ \A i \in libres : \E j \in ingreso : j.id = i.id
  BY <1>1, <1>2, <1>3
<1>6. ASSUME NEW c, c # 0, plan[c].estado # "CANCELADA"
      PROVE  IngresosDe(libres, c) = IngresosDe(ingreso, c)
  <2>1. \A i \in libres : i.comp = c => i \in ingreso
    BY <1>2, <1>3, <1>6
  <2>2. \A i \in ingreso : i.comp = c => i \in libres
    BY <1>2, <1>3, <1>6
  <2>3. QED
    BY <2>1, <2>2 DEF IngresosDe
<1>7. QED
  BY <1>4, <1>5, <1>6


\* The plan after a correction: each row says what is collected of it.
LEMMA PlanCorregido ==
    ASSUME IInv, NEW o, NEW d, Corregida(o, d), correct(o, d),
           NEW plan, plan = reconcileCorrectedPaymentPlan(o, d)
    PROVE  /\ comp' \in Seq(Componente) /\ DOMAIN comp' = DOMAIN plan
           /\ Len(comp') <= MaxComponentes /\ DOMAIN comp \subseteq DOMAIN comp'
           /\ \A c \in DOMAIN plan :
                 /\ ComponenteOK(comp'[c]) /\ comp'[c].tipo = plan[c].tipo
                 /\ comp'[c].importe = plan[c].importe
                 /\ comp'[c].financiera = plan[c].financiera
                 /\ comp'[c].estado = "CANCELADA" <=> plan[c].estado = "CANCELADA"
                 /\ comp'[c].estado # "CANCELADA" =>
                       comp'[c].estado = IF comp'[c].informado THEN "PAGADO"
                                         ELSE paymentStatus(componentCollectedAmount(
                                                  movimientos, ingreso', c), comp'[c].importe)
<1>1. PICK libres : libres = Desvinculados(plan)
  OBVIOUS
<1>2. /\ Len(plan) <= MaxComponentes /\ ingreso' = libres
      /\ comp' = [i \in DOMAIN plan |->
             syncComponentPaymentStatus(plan[i],
                 componentCollectedAmount(movimientos, libres, i))]
  BY <1>1 DEF correct
<1>3. PICK n, f, m : FilasDelPlan(plan, o, d, n, f, m)
  BY PlanEs
<1>4. /\ n \in Nat /\ f \in Nat /\ m \in Nat
      /\ Len(plan) = n + f + m /\ DOMAIN plan = 1..(n + f + m)
      /\ DOMAIN comp = 1..n
      /\ \A i \in DOMAIN plan : ComponenteOK(plan[i])
  BY <1>3 DEF FilasDelPlan
<1>5. ASSUME NEW c \in DOMAIN plan
      PROVE  /\ ComponenteOK(comp'[c]) /\ comp'[c].tipo = plan[c].tipo
             /\ comp'[c].importe = plan[c].importe
             /\ comp'[c].financiera = plan[c].financiera
             /\ comp'[c].estado = "CANCELADA" <=> plan[c].estado = "CANCELADA"
             /\ comp'[c].estado # "CANCELADA" =>
                   comp'[c].estado = IF comp'[c].informado THEN "PAGADO"
                                     ELSE paymentStatus(componentCollectedAmount(
                                              movimientos, ingreso', c), comp'[c].importe)
  <2>1. PICK f1, k : f1 = plan[c] /\ k = componentCollectedAmount(movimientos, libres, c)
    OBVIOUS
  <2>2. PICK g : g = syncComponentPaymentStatus(f1, k)
    OBVIOUS
  <2>3. comp'[c] = g
    BY <1>2, <2>1, <2>2
  <2>4. ComponenteOK(f1)
    BY <1>4, <2>1
  <2>5. /\ g \in Componente /\ g.tipo = f1.tipo /\ g.importe = f1.importe
        /\ g.financiera = f1.financiera /\ g.informado = f1.informado
        /\ g.estado = "CANCELADA" <=> f1.estado = "CANCELADA"
        /\ f1.estado # "CANCELADA" =>
              g.estado = IF f1.informado THEN "PAGADO" ELSE paymentStatus(k, f1.importe)
    BY <2>2, <2>4, Sincronizada DEF ComponenteOK
  <2>6. ComponenteOK(g)
    BY <2>4, <2>5 DEF ComponenteOK
  <2>7. k = componentCollectedAmount(movimientos, ingreso', c)
    BY <1>2, <2>1
  <2>8. /\ g.tipo = plan[c].tipo /\ g.importe = plan[c].importe
        /\ g.financiera = plan[c].financiera
        /\ g.estado = "CANCELADA" <=> plan[c].estado = "CANCELADA"
    BY <2>1, <2>5
  <2>9. g.estado # "CANCELADA" =>
            g.estado = IF g.informado THEN "PAGADO" ELSE paymentStatus(k, g.importe)
    BY <2>5
  <2>10. QED
    BY <2>3, <2>6, <2>7, <2>8, <2>9
<1>6. DOMAIN comp' = DOMAIN plan
  BY <1>2
<1>7. comp' \in Seq(Componente) /\ Len(comp') = n + f + m
  <2>1. comp' \in [1..(n + f + m) -> Componente]
    BY <1>2, <1>4, <1>5 DEF ComponenteOK
  <2>2. n + f + m \in Nat
    BY <1>4
  <2>3. QED
    BY <2>1, <2>2
<1>8. DOMAIN comp \subseteq DOMAIN comp' /\ Len(comp') <= MaxComponentes
  BY <1>2, <1>4, <1>6, <1>7
<1>9. QED
  BY <1>5, <1>6, <1>7, <1>8

\* A sale is corrected with its plan.
LEMMA CorregirMantiene ==
    ASSUME IInv, NEW o, NEW d, Libre, Corregida(o, d), correct(o, d),
           o.estado = operacion.estado
    PROVE  IInv'
<1>1. PICK plan : plan = reconcileCorrectedPaymentPlan(o, d)
  OBVIOUS
<1>2. PICK libres : libres = Desvinculados(plan)
  OBVIOUS
<1>3. /\ ingreso' = libres /\ operacion' = o
      /\ \A t \in enCurso : \A i \in ingreso \ libres : t.ingreso # i.id
      /\ PasaDisparadores(o, aprobaciones, comp')
      /\ solapados' = solapados \cup Pisados(comp')
      /\ UNCHANGED <<aprobaciones, movimientos, enCurso>>
  BY <1>1, <1>2 DEF correct
<1>4. /\ libres \subseteq Ingreso /\ IsFiniteSet(libres)
      /\ \A i \in libres : i.comp # 0 => i.comp \in DOMAIN comp
      /\ \A i, j \in libres : i.id = j.id => i = j
      /\ \A i \in libres : \E j \in ingreso : j.id = i.id
      /\ \A c : c # 0 /\ plan[c].estado # "CANCELADA" =>
            IngresosDe(libres, c) = IngresosDe(ingreso, c)
  BY <1>2, DesvinculadosSon
<1>5. /\ comp' \in Seq(Componente) /\ DOMAIN comp' = DOMAIN plan
      /\ Len(comp') <= MaxComponentes /\ DOMAIN comp \subseteq DOMAIN comp'
      /\ \A c \in DOMAIN plan :
            /\ ComponenteOK(comp'[c])
            /\ comp'[c].estado = "CANCELADA" <=> plan[c].estado = "CANCELADA"
            /\ comp'[c].estado # "CANCELADA" =>
                  comp'[c].estado = IF comp'[c].informado THEN "PAGADO"
                                    ELSE paymentStatus(componentCollectedAmount(
                                             movimientos, ingreso', c), comp'[c].importe)
  BY <1>1, PlanCorregido
<1>6. Existe /\ Existe' /\ OperacionOK'
  <2>1. o # <<>>
    BY OperacionExiste DEF Corregida
  <2>2. QED
    BY <1>3, <2>1 DEF Existe, Libre, OperacionOK, Corregida
<1>7. Espera'
  BY <1>3, <1>6 DEF IInv, Espera
<1>8. BajoMinimoAutorizada'
  BY <1>3, <1>6, DisparadorAutoriza
<1>9. \A c \in DOMAIN comp' : comp'[c].estado # "CANCELADA" =>
          IngresosDe(ingreso', c) = IngresosDe(ingreso, c)
  <2>1. SUFFICES ASSUME NEW c \in DOMAIN comp', comp'[c].estado # "CANCELADA"
                 PROVE  IngresosDe(ingreso', c) = IngresosDe(ingreso, c)
    OBVIOUS
  <2>2. c # 0
    BY <1>5
  <2>3. plan[c].estado # "CANCELADA"
    BY <1>5, <2>1
  <2>4. QED
    BY <1>3, <1>4, <2>2, <2>3
<1>10. \A t \in enCurso, i \in ingreso \cup ingreso' :
          i.id = t.ingreso => i \in ingreso \cap ingreso'
  <2>1. SUFFICES ASSUME NEW t \in enCurso, NEW i \in ingreso \cup libres, i.id = t.ingreso
                 PROVE  i \in ingreso \cap libres
    BY <1>3
  <2>2. \A j \in ingreso : j.id = t.ingreso => j \in libres
    BY <1>3
  <2>3. QED
    BY <1>4, <2>1, <2>2
<1>11. /\ ingreso' \subseteq Ingreso /\ IsFiniteSet(ingreso')
       /\ \A i \in ingreso' : i.comp # 0 => i.comp \in DOMAIN comp'
       /\ \A i, j \in ingreso' : i.id = j.id => i = j
  BY <1>3, <1>4, <1>5
<1>12. /\ \A c \in DOMAIN comp' : ComponenteOK(comp'[c])
       /\ \A c \in DOMAIN comp' : comp'[c].estado # "CANCELADA" /\ c \notin solapados' =>
             comp'[c].estado = IF comp'[c].informado THEN "PAGADO"
                               ELSE paymentStatus(componentCollectedAmount(
                                        movimientos, ingreso', c), comp'[c].importe)
  BY <1>5
<1>13. UNCHANGED <<aprobaciones, movimientos, enCurso>> /\ solapados' = solapados \cup Pisados(comp')
  BY <1>3
<1>14. QED
  BY <1>5, <1>6, <1>7, <1>8, <1>9, <1>10, <1>11, <1>12, <1>13, PlanCambia


-------------------------------------------------------------------------------
(* The correction: the plan adds up *)

\* A row in force that is the financing e.
Financia(fila, e) ==
    /\ fila.estado # "CANCELADA" /\ fila.tipo = "FINANCIACION"
    /\ fila.importe = e.importe /\ fila.financiera = e.financiera

\* The row of a payment in cash that the corrected plan has no use for.
Sobra(i, o) ==
    Resto(o) = 0 \/ (i \in Otros /\ Resto(o) <= Sumar(comp, Otros))

\* The rows of a plan that says what the corrected one says, status apart.
Renglones(q, o, d, n, f, m) ==
    /\ DOMAIN q = 1..(n + f + m)
    /\ \A i \in Creditos : IF Lugar(i, Creditos) <= Len(d)
                           THEN Financia(q[i], d[Lugar(i, Creditos)])
                           ELSE q[i].estado = "CANCELADA"
    /\ \A j \in 1..f : Financia(q[n + j], d[Cardinality(Creditos) + j])
    /\ \A i \in EnEfectivo :
          IF Sobra(i, o) THEN q[i].estado = "CANCELADA"
          ELSE /\ q[i].estado # "CANCELADA" /\ q[i].tipo \in Medios
               /\ q[i].importe = IF i \in Otros THEN comp[i].importe
                                 ELSE ImporteDelResto(o, Otros)
    /\ \A i \in (1..n) \ (Creditos \cup EnEfectivo) :
          /\ q[i].tipo = comp[i].tipo /\ q[i].importe = comp[i].importe
          /\ q[i].estado = "CANCELADA" <=> comp[i].estado = "CANCELADA"
    /\ m = 1 => /\ q[n + f + 1].estado # "CANCELADA" /\ q[n + f + 1].tipo \in Medios
                /\ q[n + f + 1].importe = Resto(o)

\* Two plans that differ in the status of the components in force at most.
Parecidos(q, plan) ==
    /\ DOMAIN q = DOMAIN plan
    /\ \A c \in DOMAIN plan :
          /\ q[c].tipo = plan[c].tipo /\ q[c].importe = plan[c].importe
          /\ q[c].financiera = plan[c].financiera
          /\ q[c].estado = "CANCELADA" <=> plan[c].estado = "CANCELADA"

\* What the rows of the corrected plan say.
LEMMA RenglonesSon ==
    ASSUME IInv, NEW o, NEW d, Corregida(o, d), NEW plan, NEW n, NEW f, NEW m,
           n = Len(comp), f = Len(Agregados(d)), m = Len(Saldo(o)),
           FilasDelPlan(plan, o, d, n, f, m), NEW q, Parecidos(q, plan)
    PROVE  Renglones(q, o, d, n, f, m)
<1>1. /\ n \in Nat /\ f \in Nat /\ m \in Nat /\ DOMAIN comp = 1..n
      /\ DOMAIN plan = 1..(n + f + m)
      /\ \A i \in 1..n : plan[i] = Fila(i, o, d)
      /\ \A j \in 1..f : plan[n + j] = Agregados(d)[j]
      /\ m = 1 => plan[n + f + 1] = Saldo(o)[1]
  BY DEF FilasDelPlan
<1>2. DOMAIN q = 1..(n + f + m)
  BY <1>1 DEF Parecidos
<1>3. /\ \A i \in 1..n : i \in DOMAIN plan
      /\ \A j \in 1..f : n + j \in DOMAIN plan
      /\ m = 1 => n + f + 1 \in DOMAIN plan
  <2>1. \A i \in 1..n : i \in 1..(n + f + m)
    BY <1>1
  <2>2. \A j \in 1..f : n + j \in 1..(n + f + m)
    BY <1>1
  <2>3. m = 1 => n + f + 1 \in 1..(n + f + m)
    BY <1>1
  <2>4. QED
    BY <1>1, <2>1, <2>2, <2>3
<1>4. Creditos \subseteq 1..n /\ EnEfectivo \subseteq 1..n /\ Creditos \cap EnEfectivo = {}
  <2>1. Creditos \subseteq DOMAIN comp /\ EnEfectivo \subseteq DOMAIN comp
    BY DEF Creditos, EnEfectivo, DeTipo, Vigentes
  <2>2. QED
    BY <1>1, <2>1, PartesSon
<1>5. ASSUME NEW i \in Creditos
      PROVE  IF Lugar(i, Creditos) <= Len(d)
             THEN Financia(q[i], d[Lugar(i, Creditos)]) ELSE q[i].estado = "CANCELADA"
  <2>1. PICK g : g = Fila(i, o, d)
    OBVIOUS
  <2>2. /\ q[i].tipo = g.tipo /\ q[i].importe = g.importe /\ q[i].financiera = g.financiera
        /\ q[i].estado = "CANCELADA" <=> g.estado = "CANCELADA"
    <3>1. i \in DOMAIN plan /\ plan[i] = g
      BY <1>1, <1>3, <1>4, <2>1
    <3>2. QED
      BY <3>1 DEF Parecidos
  <2>3. /\ Lugar(i, Creditos) <= Len(d) =>
              /\ g.estado # "CANCELADA" /\ g.tipo = "FINANCIACION"
              /\ g.importe = d[Lugar(i, Creditos)].importe
              /\ g.financiera = d[Lugar(i, Creditos)].financiera
        /\ ~ (Lugar(i, Creditos) <= Len(d)) => g.estado = "CANCELADA"
    BY <1>1, <1>4, <2>1, FilaEs
  <2>4. QED
    BY <2>2, <2>3 DEF Financia
<1>6. ASSUME NEW j \in 1..f PROVE Financia(q[n + j], d[Cardinality(Creditos) + j])
  <2>1. PICK g, k : g = Agregados(d)[j] /\ k = Cardinality(Creditos)
    OBVIOUS
  <2>2. /\ q[n + j].tipo = g.tipo /\ q[n + j].importe = g.importe
        /\ q[n + j].financiera = g.financiera
        /\ q[n + j].estado = "CANCELADA" <=> g.estado = "CANCELADA"
    BY <1>1, <1>3, <2>1 DEF Parecidos
  <2>3. g = Nuevo("FINANCIACION", d[k + j].importe, d[k + j].financiera)
    BY <2>1, AgregadosSon
  <2>4. QED
    BY <2>1, <2>2, <2>3 DEF Financia, Nuevo
<1>7. ASSUME NEW i \in EnEfectivo
      PROVE  IF Sobra(i, o) THEN q[i].estado = "CANCELADA"
             ELSE /\ q[i].estado # "CANCELADA" /\ q[i].tipo \in Medios
                  /\ q[i].importe = IF i \in Otros THEN comp[i].importe
                                    ELSE ImporteDelResto(o, Otros)
  <2>1. PICK g : g = Fila(i, o, d)
    OBVIOUS
  <2>2. /\ q[i].tipo = g.tipo /\ q[i].importe = g.importe
        /\ q[i].estado = "CANCELADA" <=> g.estado = "CANCELADA"
    BY <1>1, <1>3, <1>4, <2>1 DEF Parecidos
  <2>3. comp[i].tipo \in Medios /\ comp[i].estado # "CANCELADA"
    BY DEF EnEfectivo, DeTipo, Vigentes
  <2>4. /\ Sobra(i, o) => g.estado = "CANCELADA"
        /\ i \notin Otros /\ Resto(o) # 0 =>
              /\ g.estado # "CANCELADA" /\ g.tipo \in Medios
              /\ g.importe = ImporteDelResto(o, Otros)
        /\ i \in Otros /\ Resto(o) # 0 /\ ~ (Resto(o) <= Sumar(comp, Otros)) => g = comp[i]
    BY <1>1, <1>4, <2>1, FilaEs DEF Sobra
  <2>5. QED
    BY <2>2, <2>3, <2>4 DEF Sobra
<1>8. ASSUME NEW i \in (1..n) \ (Creditos \cup EnEfectivo)
      PROVE  /\ q[i].tipo = comp[i].tipo /\ q[i].importe = comp[i].importe
             /\ q[i].estado = "CANCELADA" <=> comp[i].estado = "CANCELADA"
  <2>1. Fila(i, o, d) = comp[i]
    BY <1>1, FilaEs
  <2>2. QED
    BY <1>1, <1>3, <2>1 DEF Parecidos
<1>9. m = 1 => /\ q[n + f + 1].estado # "CANCELADA" /\ q[n + f + 1].tipo \in Medios
               /\ q[n + f + 1].importe = Resto(o)
  <2>1. SUFFICES ASSUME m = 1
                 PROVE  /\ q[n + f + 1].estado # "CANCELADA"
                        /\ q[n + f + 1].tipo \in Medios
                        /\ q[n + f + 1].importe = Resto(o)
    OBVIOUS
  <2>2. PICK g : g = Saldo(o)[1]
    OBVIOUS
  <2>3. g.estado = "PENDIENTE" /\ g.tipo \in Medios /\ g.importe = Resto(o)
    BY <2>1, <2>2, SaldoEs
  <2>4. /\ q[n + f + 1].tipo = g.tipo /\ q[n + f + 1].importe = g.importe
        /\ q[n + f + 1].estado = "CANCELADA" <=> g.estado = "CANCELADA"
    BY <1>1, <1>3, <2>1, <2>2 DEF Parecidos
  <2>5. QED
    BY <2>3, <2>4
<1>10. QED
  BY <1>2, <1>5, <1>6, <1>7, <1>8, <1>9, Zenon DEF Renglones

\* The financings of the corrected plan, and what of it is paid in cash.
Financiaciones(d, n, f) ==
    {i \in Creditos : Lugar(i, Creditos) <= Len(d)} \cup ((n + 1)..(n + f))
EnMano(o, n, f, m) ==
    {i \in EnEfectivo : ~Sobra(i, o)} \cup {i \in {n + f + 1} : m = 1}

\* How many rows a plan of each kind has.
Medidas(n, f, m) ==
    n \in Nat /\ f \in Nat /\ m \in {0, 1} /\ DOMAIN comp = 1..n

\* The parts of a plan are K, M and the trade-ins that were there.
Partes(q, K, M) ==
    /\ DeTipo(q, {"FINANCIACION"}) = K /\ DeTipo(q, Medios) = M
    /\ DeTipo(q, {"TOMA_PARTE_PAGO"}) = EnParte
    /\ Vigentes(q) = K \cup M \cup EnParte
    /\ \A i \in EnParte : q[i].importe = comp[i].importe

\* The parts of the corrected plan.
LEMMA PartesCorregidas ==
    ASSUME IInv, NEW o, NEW d, NEW n, NEW f, NEW m, Medidas(n, f, m),
           NEW q, Renglones(q, o, d, n, f, m)
    PROVE  Partes(q, Financiaciones(d, n, f), EnMano(o, n, f, m))
<1> n \in Nat /\ f \in Nat /\ m \in {0, 1} /\ DOMAIN comp = 1..n
  BY DEF Medidas
<1> DEFINE K == Financiaciones(d, n, f)
           M == EnMano(o, n, f, m)
           Bien(i) == /\ (q[i].estado # "CANCELADA" /\ q[i].tipo = "FINANCIACION") <=> i \in K
                      /\ (q[i].estado # "CANCELADA" /\ q[i].tipo \in Medios) <=> i \in M
                      /\ (q[i].estado # "CANCELADA" /\ q[i].tipo = "TOMA_PARTE_PAGO")
                             <=> i \in EnParte
                      /\ q[i].estado # "CANCELADA" => i \in K \cup M \cup EnParte
<1>1. /\ Creditos \subseteq 1..n /\ EnEfectivo \subseteq 1..n /\ EnParte \subseteq 1..n
      /\ Creditos \cap EnEfectivo = {} /\ Creditos \cap EnParte = {}
      /\ EnEfectivo \cap EnParte = {}
  <2>1. /\ Creditos \subseteq DOMAIN comp /\ EnEfectivo \subseteq DOMAIN comp
        /\ EnParte \subseteq DOMAIN comp
    BY DEF Creditos, EnEfectivo, EnParte, DeTipo, Vigentes
  <2>2. QED
    BY <2>1, PartesSon
<1>2. "FINANCIACION" \notin Medios /\ "TOMA_PARTE_PAGO" \notin Medios
  BY DEF Medios
<1>3. \A i \in 1..n : /\ i \notin (n + 1)..(n + f) /\ i # n + f + 1
  <2>1. SUFFICES ASSUME NEW i \in 1..n PROVE i \notin (n + 1)..(n + f) /\ i # n + f + 1
    OBVIOUS
  <2>2. QED
    OBVIOUS
<1>4. ASSUME NEW i \in Creditos PROVE Bien(i)
  <2>1. i \in 1..n /\ i \notin EnEfectivo /\ i \notin EnParte
    BY <1>1
  <2>2. (i \in K <=> Lugar(i, Creditos) <= Len(d)) /\ i \notin M
    BY <1>3, <2>1 DEF Financiaciones, EnMano
  <2>3. IF Lugar(i, Creditos) <= Len(d)
        THEN q[i].estado # "CANCELADA" /\ q[i].tipo = "FINANCIACION"
        ELSE q[i].estado = "CANCELADA"
    BY DEF Renglones, Financia
  <2> HIDE DEF K, M
  <2>4. QED
    BY <1>2, <2>1, <2>2, <2>3
<1>5. ASSUME NEW i \in EnEfectivo PROVE Bien(i)
  <2>1. i \in 1..n /\ i \notin Creditos /\ i \notin EnParte
    BY <1>1
  <2>2. (i \in M <=> ~Sobra(i, o)) /\ i \notin K
    BY <1>3, <2>1 DEF Financiaciones, EnMano
  <2>3. IF Sobra(i, o) THEN q[i].estado = "CANCELADA"
        ELSE q[i].estado # "CANCELADA" /\ q[i].tipo \in Medios
    BY DEF Renglones
  <2> HIDE DEF K, M
  <2>4. QED
    BY <1>2, <2>1, <2>2, <2>3
<1>6. ASSUME NEW i \in (1..n) \ (Creditos \cup EnEfectivo) PROVE Bien(i)
  <2>1. i \notin K /\ i \notin M
    BY <1>3 DEF Financiaciones, EnMano
  <2>2. /\ q[i].tipo = comp[i].tipo
        /\ q[i].estado = "CANCELADA" <=> comp[i].estado = "CANCELADA"
    BY DEF Renglones
  <2>3. i \in EnParte <=> comp[i].estado # "CANCELADA"
    <3>1. i \in Vigentes(comp) <=> comp[i].estado # "CANCELADA"
      BY DEF Vigentes
    <3>2. QED
      BY <3>1, PartesSon
  <2>4. i \in EnParte => comp[i].tipo = "TOMA_PARTE_PAGO"
    BY DEF EnParte, DeTipo
  <2> HIDE DEF K, M
  <2>5. QED
    BY <1>2, <2>1, <2>2, <2>3, <2>4
<1>7. ASSUME NEW j \in 1..f PROVE Bien(n + j)
  <2>1. PICK i : i = n + j
    OBVIOUS
  <2>2. i \in (n + 1)..(n + f) /\ i # n + f + 1 /\ i \notin 1..n
    BY <2>1
  <2>3. i \in K /\ i \notin M /\ i \notin EnParte
    BY <1>1, <2>2 DEF Financiaciones, EnMano
  <2>4. q[i].estado # "CANCELADA" /\ q[i].tipo = "FINANCIACION"
    BY <2>1 DEF Renglones, Financia
  <2> HIDE DEF K, M
  <2>5. Bien(i)
    BY <1>2, <2>3, <2>4
  <2>6. QED
    BY <2>1, <2>5
<1>8. ASSUME m = 1 PROVE Bien(n + f + 1)
  <2>1. PICK i : i = n + f + 1
    OBVIOUS
  <2>2. i \notin (n + 1)..(n + f) /\ i \notin 1..n
    BY <2>1
  <2>3. i \notin K /\ i \in M /\ i \notin EnParte
    BY <1>1, <1>8, <2>1, <2>2 DEF Financiaciones, EnMano
  <2>4. q[i].estado # "CANCELADA" /\ q[i].tipo \in Medios
    BY <1>8, <2>1 DEF Renglones
  <2> HIDE DEF K, M
  <2>5. Bien(i)
    BY <1>2, <2>3, <2>4
  <2>6. QED
    BY <2>1, <2>5
<1>9. DOMAIN q = 1..(n + f + m)
  BY DEF Renglones
<1>10. \A i \in DOMAIN q : Bien(i)
  <2> HIDE DEF Bien
  <2>1. SUFFICES ASSUME NEW i \in DOMAIN q PROVE Bien(i)
    OBVIOUS
  <2>2. CASE i \in 1..n
    BY <1>4, <1>5, <1>6, <2>2
  <2>3. CASE i \in (n + 1)..(n + f)
    <3>1. PICK j : j = i - n
      OBVIOUS
    <3>2. j \in 1..f /\ i = n + j
      BY <2>3, <3>1
    <3>3. QED
      BY <1>7, <3>2
  <2>4. CASE m = 1 /\ i = n + f + 1
    BY <1>8, <2>4
  <2>5. i \in 1..n \/ i \in (n + 1)..(n + f) \/ (m = 1 /\ i = n + f + 1)
    <3>1. i \in 1..(n + f + m) /\ (m = 0 \/ m = 1)
      BY <1>9
    <3>2. QED
      BY <3>1
  <2>6. QED
    BY <2>2, <2>3, <2>4, <2>5
<1>11. K \subseteq DOMAIN q /\ M \subseteq DOMAIN q /\ EnParte \subseteq DOMAIN q
  <2>1. /\ \A i \in 1..n : i \in 1..(n + f + m)
        /\ \A i \in (n + 1)..(n + f) : i \in 1..(n + f + m)
        /\ m = 1 => n + f + 1 \in 1..(n + f + m)
    <3>1. m \in Nat
      OBVIOUS
    <3>2. QED
      BY <3>1
  <2>2. QED
    BY <1>1, <1>9, <2>1 DEF Financiaciones, EnMano
<1>12. \A i \in EnParte : q[i].importe = comp[i].importe
  BY <1>1 DEF Renglones
<1>13. QED
  <2> HIDE DEF K, M
  <2>1. /\ DeTipo(q, {"FINANCIACION"}) = K /\ DeTipo(q, Medios) = M
        /\ DeTipo(q, {"TOMA_PARTE_PAGO"}) = EnParte
    BY <1>10, <1>11 DEF DeTipo, Vigentes
  <2>2. Vigentes(q) = K \cup M \cup EnParte
    BY <1>10, <1>11 DEF Vigentes
  <2>3. Partes(q, K, M)
    BY <1>12, <2>1, <2>2, Zenon DEF Partes
  <2>4. QED
    BY <2>3, Zenon DEF K, M

\* r numbers the elements of K from 1 to n.
Numera(r, K, n) ==
    /\ r \in [K -> 1..n]
    /\ \A i, j \in K : r[i] = r[j] => i = j
    /\ \A k \in 1..n : \E i \in K : r[i] = k

\* The rows K are the financings of d that r says.
Financian(q, K, d, r) == \A i \in K : Financia(q[i], d[r[i]])

\* The financings of the corrected plan are those asked for, one by one.
LEMMA FinanciacionesSon ==
    ASSUME IInv, NEW o, NEW d, Corregida(o, d), NEW n, NEW f, NEW m, Medidas(n, f, m),
           f = Len(Agregados(d)), NEW q, Renglones(q, o, d, n, f, m)
    PROVE  \E r : /\ Numera(r, Financiaciones(d, n, f), Len(d))
                  /\ Financian(q, Financiaciones(d, n, f), d, r)
<1> n \in Nat /\ f \in Nat /\ m \in {0, 1} /\ DOMAIN comp = 1..n
  BY DEF Medidas
<1>1. PICK k, l : k = Cardinality(Creditos) /\ l = Len(d)
  OBVIOUS
<1>2. k \in Nat /\ f = IF k < l THEN l - k ELSE 0
  BY <1>1, AgregadosSon
<1>3. l \in 0..2
  BY <1>1 DEF Corregida
<1>4. f \in Nat
  BY <1>2, <1>3
<1>5. IsFiniteSet(Creditos) /\ Creditos \subseteq 1..n
  <2>1. Creditos \subseteq DOMAIN comp
    BY DEF Creditos, DeTipo, Vigentes
  <2>2. QED
    BY <2>1, PartesSon
<1>6. /\ \A i \in Creditos : Lugar(i, Creditos) \in 1..k
      /\ \A i, j \in Creditos : Lugar(i, Creditos) = Lugar(j, Creditos) => i = j
      /\ \A j \in 1..k : \E i \in Creditos : Lugar(i, Creditos) = j
  <2>1. Creditos \subseteq Int
    BY <1>5
  <2>2. /\ \A i \in Creditos : Lugar(i, Creditos) \in 1..Cardinality(Creditos)
        /\ \A i, j \in Creditos : Lugar(i, Creditos) = Lugar(j, Creditos) => i = j
        /\ \A j \in 1..Cardinality(Creditos) : \E i \in Creditos : Lugar(i, Creditos) = j
    BY <1>5, <2>1, Lugares
  <2>3. QED
    BY <1>1, <2>2, Zenon
<1>7. PICK K : K = Financiaciones(d, n, f)
  OBVIOUS
<1>8. PICK r : r = [i \in K |-> IF i \in Creditos THEN Lugar(i, Creditos) ELSE k + (i - n)]
  OBVIOUS
<1>9. \A i : i \in K <=> \/ i \in Creditos /\ Lugar(i, Creditos) <= l
                         \/ i \in (n + 1)..(n + f)
  BY <1>1, <1>7 DEF Financiaciones
<1>10. ASSUME NEW i \in K, i \in Creditos
       PROVE  r[i] = Lugar(i, Creditos) /\ r[i] \in 1..l /\ r[i] <= k /\ Financia(q[i], d[r[i]])
  <2>1. r[i] = Lugar(i, Creditos)
    BY <1>8, <1>10
  <2>2. i \notin (n + 1)..(n + f)
    BY <1>4, <1>5, <1>10
  <2>3. Lugar(i, Creditos) <= l
    BY <1>9, <1>10, <2>2
  <2>4. Financia(q[i], d[Lugar(i, Creditos)])
    BY <1>1, <1>10, <2>3 DEF Renglones
  <2>5. r[i] \in 1..k
    BY <1>6, <1>10, <2>1
  <2>6. r[i] \in 1..l /\ r[i] <= k
    BY <1>2, <1>3, <2>1, <2>3, <2>5
  <2>7. QED
    BY <2>1, <2>4, <2>6, Zenon
<1>11. ASSUME NEW i \in K, i \notin Creditos
       PROVE  /\ i \in Int /\ r[i] = k + (i - n) /\ r[i] \in 1..l /\ r[i] > k
              /\ Financia(q[i], d[r[i]])
  <2>1. i \in (n + 1)..(n + f) /\ r[i] = k + (i - n)
    BY <1>8, <1>9, <1>11
  <2>2. PICK j : j = i - n
    OBVIOUS
  <2>3. j \in 1..f /\ i = n + j /\ i \in Int /\ k + j \in 1..l /\ k + j > k
    BY <1>2, <1>3, <1>4, <2>1, <2>2
  <2>4. r[i] = k + j
    BY <2>1, <2>2
  <2>5. Financia(q[n + j], d[k + j])
    BY <1>1, <2>3 DEF Renglones
  <2>6. QED
    BY <2>1, <2>3, <2>4, <2>5
<1>12. r \in [K -> 1..l] /\ \A i \in K : Financia(q[i], d[r[i]])
  <2>1. \A i \in K : r[i] \in 1..l
    BY <1>10, <1>11
  <2>2. DOMAIN r = K /\ r = [i \in K |-> r[i]]
    BY <1>8
  <2>3. QED
    BY <1>10, <1>11, <2>1, <2>2
<1>13. ASSUME NEW i \in K, NEW j \in K, r[i] = r[j] PROVE i = j
  <2>1. CASE i \in Creditos /\ j \in Creditos
    BY <1>6, <1>10, <1>13, <2>1
  <2>2. CASE i \notin Creditos /\ j \notin Creditos
    BY <1>2, <1>11, <1>13, <2>2
  <2>3. CASE i \in Creditos /\ j \notin Creditos
    BY <1>2, <1>3, <1>10, <1>11, <1>13, <2>3
  <2>4. CASE i \notin Creditos /\ j \in Creditos
    BY <1>2, <1>3, <1>10, <1>11, <1>13, <2>4
  <2>5. QED
    BY <2>1, <2>2, <2>3, <2>4
<1>14. ASSUME NEW h \in 1..l PROVE \E i \in K : r[i] = h
  <2>1. CASE h <= k
    <3>1. h \in 1..k
      BY <1>2, <1>3, <2>1
    <3>2. PICK i \in Creditos : Lugar(i, Creditos) = h
      BY <1>6, <3>1
    <3>3. i \in K
      BY <1>3, <1>9, <3>2
    <3>4. QED
      BY <1>10, <3>2, <3>3
  <2>2. CASE ~ (h <= k)
    <3>1. PICK i : i = n + (h - k)
      OBVIOUS
    <3>2. i \in (n + 1)..(n + f) /\ k + (i - n) = h /\ i \notin 1..n
      BY <1>2, <1>3, <1>4, <2>2, <3>1
    <3>3. i \in K /\ i \notin Creditos
      BY <1>5, <1>9, <3>2
    <3>4. QED
      BY <1>11, <3>2, <3>3
  <2>3. QED
    BY <1>2, <1>3, <2>1, <2>2
<1>15. Numera(r, K, l)
  BY <1>12, <1>13, <1>14 DEF Numera
<1>16. Financian(q, K, d, r)
  BY <1>12 DEF Financian
<1>17. QED
  BY <1>1, <1>7, <1>15, <1>16, Zenon

\* Up to two financings, of different institutions, of a credit.
Deseada(d, l, c) ==
    /\ l \in 0..2 /\ c \in Nat /\ \A j \in 1..l : d[j].importe \in Nat
    /\ l = 0 => c = 0
    /\ l = 1 => d[1].importe = c
    /\ l = 2 => /\ d[1].importe + d[2].importe = c
                /\ d[1].financiera # d[2].financiera

\* Up to two financings: what they add up to, and the institutions they are of.
LEMMA DosFinanciaciones ==
    ASSUME NEW d, NEW q, NEW K, K \subseteq DOMAIN q, NEW r, NEW l, NEW c,
           Numera(r, K, l), Financian(q, K, d, r), Deseada(d, l, c)
    PROVE  /\ IsFiniteSet(K) /\ (K = {} <=> l = 0)
           /\ \A i \in K : q[i].importe \in Nat
           /\ Sumar(q, K) = c
           /\ l = 2 => Cardinality({q[i].financiera : i \in K}) = 2
<1> DEFINE F == [i \in DOMAIN q |-> q[i].importe]
<1>0. /\ l \in 0..2 /\ c \in Nat /\ \A j \in 1..l : d[j].importe \in Nat
      /\ l = 0 => c = 0
      /\ l = 1 => d[1].importe = c
      /\ l = 2 => /\ d[1].importe + d[2].importe = c
                  /\ d[1].financiera # d[2].financiera
      /\ \A i \in K : Financia(q[i], d[r[i]])
  BY DEF Deseada, Financian
<1>1. /\ \A i \in K : r[i] \in 1..l
      /\ \A i, j \in K : r[i] = r[j] => i = j
      /\ \A k \in 1..l : \E i \in K : r[i] = k
  BY DEF Numera
<1>2. \A i \in K : /\ F[i] = d[r[i]].importe /\ q[i].importe = d[r[i]].importe
                   /\ q[i].financiera = d[r[i]].financiera /\ F[i] \in Nat
  BY <1>0, <1>1 DEF Financia
<1>3. Sumar(q, K) = Suma(F, K)
  BY SumarEs
<1> HIDE DEF F
<1>4. CASE l = 0
  <2>1. K = {}
    <3>1. 1..0 = {}
      OBVIOUS
    <3>2. QED
      BY <1>1, <1>4, <3>1
  <2>2. Suma(F, K) = 0
    BY <2>1, SumaVacia
  <2>3. QED
    BY <1>0, <1>2, <1>3, <1>4, <2>1, <2>2, FS_EmptySet
<1>5. CASE l = 1
  <2>1. PICK a \in K : r[a] = 1
    BY <1>1, <1>5
  <2>2. \A i \in K : i = a
    BY <1>1, <1>5, <2>1
  <2>3. K = {a} /\ K # {}
    BY <2>1, <2>2
  <2>4. IsFiniteSet(K)
    BY <2>3, FS_Singleton
  <2>5. Enteros(F, K)
    BY <1>2 DEF Enteros
  <2>6. Suma(F, K) = F[a] + Suma(F, K \ {a})
    BY <2>1, <2>4, <2>5, SumaMenos
  <2>7. K \ {a} = {}
    BY <2>3
  <2>8. Suma(F, K \ {a}) = 0
    BY <2>7, SumaVacia
  <2>9. F[a] = c /\ F[a] \in Nat
    BY <1>0, <1>2, <1>5, <2>1
  <2>10. Suma(F, K) = c
    BY <2>6, <2>8, <2>9
  <2>11. QED
    BY <1>2, <1>3, <1>5, <2>3, <2>4, <2>10
<1>6. CASE l = 2
  <2>1. 1 \in 1..2 /\ 2 \in 1..2 /\ \A k \in 1..2 : k = 1 \/ k = 2
    OBVIOUS
  <2>2. PICK a \in K : r[a] = 1
    BY <1>1, <1>6, <2>1
  <2>3. PICK b \in K : r[b] = 2
    BY <1>1, <1>6, <2>1
  <2>4. a # b /\ \A i \in K : i = a \/ i = b
    BY <1>1, <1>6, <2>1, <2>2, <2>3
  <2>5. K = {a, b} /\ K # {}
    BY <2>2, <2>3, <2>4
  <2>6. IsFiniteSet({b}) /\ IsFiniteSet({b} \cup {a}) /\ {b} \cup {a} = K
    BY <2>5, FS_Singleton, FS_AddElement
  <2>7. IsFiniteSet(K) /\ Enteros(F, K)
    <3>1. IsFiniteSet(K)
      BY <2>6, Zenon
    <3>2. Enteros(F, K)
      BY <1>2 DEF Enteros
    <3>3. QED
      BY <3>1, <3>2
  <2>8. Suma(F, K) = F[a] + Suma(F, K \ {a})
    BY <2>2, <2>7, SumaMenos
  <2>9. K \ {a} = {b}
    BY <2>4, <2>5
  <2>10. Suma(F, {b}) = F[b] + Suma(F, {b} \ {b})
    <3>1. Enteros(F, {b}) /\ b \in {b}
      BY <2>3, <2>7 DEF Enteros
    <3>2. QED
      BY <2>6, <3>1, SumaMenos
  <2>11. Suma(F, {b} \ {b}) = 0
    <3>1. {b} \ {b} = {}
      OBVIOUS
    <3>2. QED
      BY <3>1, SumaVacia
  <2>12. F[a] \in Nat /\ F[b] \in Nat /\ F[a] + F[b] = c
    BY <1>0, <1>2, <1>6, <2>2, <2>3
  <2>13. Suma(F, K) = c
    <3>1. Suma(F, K \ {a}) = Suma(F, {b})
      BY <2>9
    <3>2. QED
      BY <2>8, <2>10, <2>11, <2>12, <3>1
  <2>14. Cardinality({q[i].financiera : i \in K}) = 2
    <3>1. PICK x, y : x = q[a].financiera /\ y = q[b].financiera
      OBVIOUS
    <3>2. x # y
      BY <1>0, <1>2, <1>6, <2>2, <2>3, <3>1
    <3>3. {q[i].financiera : i \in K} = {y} \cup {x}
      BY <2>5, <3>1
    <3>4. Cardinality({y}) = 1 /\ IsFiniteSet({y}) /\ x \notin {y}
      BY <3>2, FS_Singleton
    <3>5. Cardinality({y} \cup {x}) = 2
      <4>1. Cardinality({y} \cup {x}) = Cardinality({y}) + 1
        BY <3>4, FS_AddElement, Zenon
      <4>2. 1 + 1 = 2
        OBVIOUS
      <4>3. QED
        BY <3>4, <4>1, <4>2, Zenon
    <3>6. QED
      BY <3>3, <3>5, Zenon
  <2>15. QED
    BY <1>2, <1>3, <1>6, <2>5, <2>7, <2>13, <2>14
<1>7. QED
  BY <1>0, <1>4, <1>5, <1>6

\* One payment.
LEMMA UnPago ==
    ASSUME NEW q, NEW p \in DOMAIN q, NEW x \in Nat, q[p].importe = x
    PROVE  Sumar(q, {p}) = x
<1> DEFINE F == [i \in DOMAIN q |-> q[i].importe]
<1>1. Sumar(q, {p}) = Suma(F, {p})
  BY SumarEs
<1>2. F[p] = x
  OBVIOUS
<1> HIDE DEF F
<1>3. IsFiniteSet({p}) /\ Enteros(F, {p}) /\ p \in {p}
  BY <1>2, FS_Singleton DEF Enteros
<1>4. Suma(F, {p}) = F[p] + Suma(F, {p} \ {p})
  BY <1>3, SumaMenos
<1>5. Suma(F, {p} \ {p}) = 0
  <2>1. {p} \ {p} = {}
    OBVIOUS
  <2>2. QED
    BY <2>1, SumaVacia
<1>6. QED
  BY <1>1, <1>2, <1>4, <1>5

\* What is paid in cash is what is left to pay, whoever pays it: a new row, the
\* first one and the others, or the first one alone.
LEMMA EnManoCuadra ==
    ASSUME IInv, NEW o, NEW d, Corregida(o, d), NEW n \in Nat, NEW f \in Nat, NEW m,
           DOMAIN comp = 1..n, m = Len(Saldo(o)),
           NEW q, Renglones(q, o, d, n, f, m)
    PROVE  /\ IsFiniteSet(EnMano(o, n, f, m))
           /\ EnMano(o, n, f, m) = {} <=> Resto(o) = 0
           /\ \A i \in EnMano(o, n, f, m) : q[i].importe \in Nat
           /\ Sumar(q, EnMano(o, n, f, m)) = Resto(o)
<1>1. PICK R, s : R = Resto(o) /\ s = Sumar(comp, Otros)
  OBVIOUS
<1>2. Otros \subseteq EnEfectivo /\ EnEfectivo \subseteq DOMAIN comp
  BY DEF Otros, EnEfectivo, DeTipo, Vigentes
<1>3. R \in Nat /\ s \in Nat
  BY <1>1, <1>2, RestoEs, SumarNatural
<1>4. m = IF R > 0 /\ EnEfectivo = {} THEN 1 ELSE 0
  <2>1. Len(Saldo(o)) = IF Resto(o) > 0 /\ EnEfectivo = {} THEN 1 ELSE 0
    BY SaldoEs
  <2>2. QED
    BY <1>1, <2>1, Zenon
<1>5. \A i : Sobra(i, o) <=> (R = 0 \/ (i \in Otros /\ R <= s))
  BY <1>1 DEF Sobra
<1>6. EnEfectivo \subseteq Nat /\ EnEfectivo \subseteq DOMAIN q /\ IsFiniteSet(EnEfectivo)
  <2>1. \A i \in 1..n : i \in 1..(n + f + m)
    BY <1>4
  <2>2. QED
    BY <1>2, <2>1, PartesSon DEF Renglones
<1>7. \A i \in EnEfectivo : ~Sobra(i, o) =>
          q[i].importe = IF i \in Otros THEN comp[i].importe ELSE ImporteDelResto(o, Otros)
  BY DEF Renglones
<1>8. \A i : i \in EnMano(o, n, f, m) <=>
                 (i \in EnEfectivo /\ ~Sobra(i, o)) \/ (i = n + f + 1 /\ m = 1)
  BY DEF EnMano
<1>9. CASE R = 0
  <2>1. EnMano(o, n, f, m) = {}
    BY <1>4, <1>5, <1>8, <1>9
  <2>2. Sumar(q, {}) = 0
    <3>1. Sumar(q, {}) = Suma([i \in DOMAIN q |-> q[i].importe], {})
      BY SumarEs
    <3>2. QED
      BY <3>1, SumaVacia
  <2>3. Sumar(q, EnMano(o, n, f, m)) = 0
    BY <2>1, <2>2, Zenon
  <2>4. QED
    BY <1>1, <1>9, <2>1, <2>3, FS_EmptySet
<1>10. CASE R # 0 /\ EnEfectivo = {}
  <2>1. PICK p : p = n + f + 1
    OBVIOUS
  <2>2. m = 1
    BY <1>3, <1>4, <1>10
  <2>3. p \in DOMAIN q /\ q[p].importe = R
    <3>1. DOMAIN q = 1..(n + f + m) /\ q[n + f + 1].importe = Resto(o)
      BY <2>2 DEF Renglones
    <3>2. n + f + 1 \in 1..(n + f + m)
      BY <2>2
    <3>3. QED
      BY <1>1, <2>1, <3>1, <3>2
  <2>4. EnMano(o, n, f, m) = {p}
    BY <1>8, <1>10, <2>1, <2>2
  <2>5. Sumar(q, {p}) = R
    BY <1>3, <2>3, UnPago
  <2>6. Sumar(q, EnMano(o, n, f, m)) = R
    BY <2>4, <2>5, Zenon
  <2>7. QED
    BY <1>1, <1>3, <1>10, <2>3, <2>4, <2>6, FS_Singleton
<1>11. CASE R # 0 /\ EnEfectivo # {}
  <2>1. PICK p : p = Menor(EnEfectivo)
    OBVIOUS
  <2>2. p \in EnEfectivo
    <3>1. \E x \in EnEfectivo : \A y \in EnEfectivo : x <= y
      BY <1>6, <1>11, HayMenor
    <3>2. QED
      BY <2>1, <3>1 DEF Menor
  <2>3. \A i : i \in Otros <=> i \in EnEfectivo /\ i # p
    BY <1>11, <2>1 DEF Otros
  <2>4. m = 0 /\ p \notin Otros /\ ~Sobra(p, o)
    BY <1>4, <1>5, <1>11, <2>3
  <2>5. PICK x : x = q[p].importe
    OBVIOUS
  <2>6. x = IF R > s THEN R - s ELSE R
    <3>1. x = ImporteDelResto(o, Otros)
      BY <1>7, <2>2, <2>4, <2>5
    <3>2. QED
      BY <1>1, <3>1 DEF ImporteDelResto
  <2>7. CASE R <= s
    <3>1. EnMano(o, n, f, m) = {p}
      BY <1>5, <1>8, <2>2, <2>3, <2>4, <2>7
    <3>2. x = R
      BY <1>3, <2>6, <2>7
    <3>3. p \in DOMAIN q
      BY <1>6, <2>2
    <3>4. Sumar(q, {p}) = R
      BY <1>3, <2>5, <3>2, <3>3, UnPago
    <3>5. Sumar(q, EnMano(o, n, f, m)) = R
      BY <3>1, <3>4, Zenon
    <3>6. QED
      BY <1>1, <1>3, <1>11, <2>5, <3>1, <3>2, <3>5, FS_Singleton
  <2>8. CASE ~ (R <= s)
    <3> DEFINE F == [i \in DOMAIN q |-> q[i].importe]
               G == [i \in DOMAIN comp |-> comp[i].importe]
    <3>1. EnMano(o, n, f, m) = EnEfectivo
      <4>1. \A i : ~Sobra(i, o)
        BY <1>5, <1>11, <2>8
      <4>2. m # 1
        BY <2>4
      <4>3. \A i : i \in EnMano(o, n, f, m) <=> i \in EnEfectivo
        BY <1>8, <4>1, <4>2, Zenon
      <4>4. QED
        BY <4>3
    <3>2. x = R - s /\ x \in Nat
      BY <1>3, <2>6, <2>8
    <3>3. \A i \in Otros : F[i] = G[i]
      <4>1. SUFFICES ASSUME NEW i \in Otros PROVE F[i] = G[i]
        OBVIOUS
      <4>2. i \in EnEfectivo /\ ~Sobra(i, o) /\ i \in DOMAIN q /\ i \in DOMAIN comp
        BY <1>2, <1>5, <1>6, <1>11, <2>8
      <4>3. q[i].importe = comp[i].importe
        BY <1>7, <4>2
      <4>4. QED
        BY <4>2, <4>3
    <3>4. \A i \in EnEfectivo : q[i].importe \in Nat /\ F[i] \in Nat
      <4>1. SUFFICES ASSUME NEW i \in EnEfectivo PROVE q[i].importe \in Nat
        BY <1>6
      <4>2. CASE i = p
        BY <2>5, <3>2, <4>2
      <4>3. CASE i # p
        <5>1. i \in Otros /\ ~Sobra(i, o) /\ comp[i].importe \in Nat
          BY <1>2, <1>5, <1>11, <2>3, <2>8, <4>3, PartesSon
        <5>2. QED
          BY <1>7, <5>1
      <4>4. QED
        BY <4>2, <4>3
    <3>5. F[p] = x
      BY <1>6, <2>2, <2>5
    <3>6. Sumar(q, EnEfectivo) = Suma(F, EnEfectivo) /\ Sumar(comp, Otros) = Suma(G, Otros)
      BY <1>2, <1>6, SumarEs
    <3> HIDE DEF F, G
    <3>7. Enteros(F, EnEfectivo)
      BY <3>4 DEF Enteros
    <3>8. Suma(F, EnEfectivo) = F[p] + Suma(F, EnEfectivo \ {p})
      BY <1>6, <2>2, <3>7, SumaMenos
    <3>9. EnEfectivo \ {p} = Otros
      BY <2>3
    <3>10. IsFiniteSet(Otros)
      BY <1>2, <1>6, FS_Subset
    <3>11. Suma(F, Otros) = s
      BY <1>1, <3>3, <3>6, <3>10, SumaIgual
    <3>12. Suma(F, EnEfectivo \ {p}) = s
      BY <3>9, <3>11, Zenon
    <3>13. Sumar(q, EnEfectivo) = R
      BY <1>3, <3>2, <3>5, <3>6, <3>8, <3>12
    <3>14. Sumar(q, EnMano(o, n, f, m)) = R /\ IsFiniteSet(EnMano(o, n, f, m))
      BY <1>6, <3>1, <3>13, Zenon
    <3>15. QED
      BY <1>1, <1>11, <3>1, <3>4, <3>14
  <2>9. QED
    BY <2>7, <2>8
<1>12. QED
  BY <1>9, <1>10, <1>11

\* Disjoint parts of a plan add up.
LEMMA DosPartes ==
    ASSUME NEW q, NEW A, NEW B, A \subseteq DOMAIN q, B \subseteq DOMAIN q,
           IsFiniteSet(A), IsFiniteSet(B), A \cap B = {},
           \A i \in A \cup B : q[i].importe \in Nat
    PROVE  Sumar(q, A \cup B) = Sumar(q, A) + Sumar(q, B)
<1> DEFINE F == [i \in DOMAIN q |-> q[i].importe]
<1>1. Sumar(q, A) = Suma(F, A) /\ Sumar(q, B) = Suma(F, B)
  BY SumarEs
<1>2. Sumar(q, A \cup B) = Suma(F, A \cup B)
  <2>1. A \cup B \subseteq DOMAIN q
    OBVIOUS
  <2>2. QED
    BY <2>1, SumarEs
<1>3. Enteros(F, A) /\ Enteros(F, B)
  BY DEF Enteros
<1> HIDE DEF F
<1>4. QED
  BY <1>1, <1>2, <1>3, SumaUnion

\* The corrected plan adds up to the price, and has what the platform asks for.
LEMMA CorregidaCuadra ==
    ASSUME IInv, NEW o, NEW d, Corregida(o, d), NEW q,
           Parecidos(q, reconcileCorrectedPaymentPlan(o, d))
    PROVE  Planificado(q) = o.precio /\ validatePaymentPlanContract(o, q)
<1>1. PICK plan, n, f, m : /\ plan = reconcileCorrectedPaymentPlan(o, d) /\ n = Len(comp)
                           /\ f = Len(Agregados(d)) /\ m = Len(Saldo(o))
  OBVIOUS
<1>2. FilasDelPlan(plan, o, d, n, f, m)
  BY <1>1, PlanEs, Zenon
<1>3. n \in Nat /\ f \in Nat /\ DOMAIN comp = 1..n
  BY <1>2 DEF FilasDelPlan
<1>4. m \in {0, 1}
  BY <1>1, SaldoEs
<1>5. Renglones(q, o, d, n, f, m)
  <2>1. Parecidos(q, plan)
    BY <1>1, Zenon
  <2>2. QED
    BY <1>1, <1>2, <2>1, RenglonesSon
<1> DEFINE K == Financiaciones(d, n, f)
           M == EnMano(o, n, f, m)
           T == EnParte
<1>6. Medidas(n, f, m)
  BY <1>3, <1>4 DEF Medidas
<1>7. Partes(q, K, M)
  BY <1>5, <1>6, PartesCorregidas
<1>8. /\ DeTipo(q, {"FINANCIACION"}) = K /\ DeTipo(q, Medios) = M
      /\ DeTipo(q, {"TOMA_PARTE_PAGO"}) = T /\ Vigentes(q) = K \cup M \cup T
      /\ \A i \in T : q[i].importe = comp[i].importe
  BY <1>7, Zenon DEF Partes
<1>9. PICK r : Numera(r, K, Len(d)) /\ Financian(q, K, d, r)
  BY <1>1, <1>5, <1>6, FinanciacionesSon
<1> HIDE DEF K, M, T
<1>10. /\ K \subseteq DOMAIN q /\ M \subseteq DOMAIN q /\ T \subseteq DOMAIN q
       /\ K \cap M = {} /\ K \cap T = {} /\ M \cap T = {}
  <2>1. /\ DeTipo(q, {"FINANCIACION"}) \subseteq DOMAIN q /\ DeTipo(q, Medios) \subseteq DOMAIN q
        /\ DeTipo(q, {"TOMA_PARTE_PAGO"}) \subseteq DOMAIN q
        /\ DeTipo(q, {"FINANCIACION"}) \cap DeTipo(q, Medios) = {}
        /\ DeTipo(q, {"FINANCIACION"}) \cap DeTipo(q, {"TOMA_PARTE_PAGO"}) = {}
        /\ DeTipo(q, Medios) \cap DeTipo(q, {"TOMA_PARTE_PAGO"}) = {}
    BY DEF DeTipo, Vigentes, Medios
  <2>2. QED
    BY <1>8, <2>1, Zenon
<1>11. /\ IsFiniteSet(K) /\ (K = {} <=> Len(d) = 0)
       /\ \A i \in K : q[i].importe \in Nat
       /\ Sumar(q, K) = o.credito
       /\ Len(d) = 2 => Cardinality({q[i].financiera : i \in K}) = 2
  <2>1. PICK l, c : l = Len(d) /\ c = o.credito
    OBVIOUS
  <2>2. c \in Nat
    BY <2>1, RestoEs
  <2>3. /\ l \in 0..2 /\ (l = 0 => c = 0) /\ (l = 1 => d[1].importe = c)
        /\ l = 2 => /\ d[1].importe + d[2].importe = c
                    /\ d[1].financiera # d[2].financiera
    BY <2>1 DEF Corregida
  <2>4. \A j \in 1..l : d[j].importe \in Nat
    <3>1. PICK D : D = [importe : 1..o.credito, financiera : Financieras]
      OBVIOUS
    <3>2. d \in Seq(D)
      BY <3>1 DEF Corregida
    <3>3. \A j \in 1..l : d[j] \in D
      BY <2>1, <3>2
    <3>4. QED
      BY <2>1, <2>2, <3>1, <3>3
  <2>5. Numera(r, K, l)
    BY <1>9, <2>1, Zenon
  <2>6. /\ IsFiniteSet(K) /\ (K = {} <=> l = 0)
        /\ \A i \in K : q[i].importe \in Nat
        /\ Sumar(q, K) = c
        /\ l = 2 => Cardinality({q[i].financiera : i \in K}) = 2
    <3>1. Deseada(d, l, c)
      BY <2>2, <2>3, <2>4 DEF Deseada
    <3>2. QED
      BY <1>9, <1>10, <2>5, <3>1, DosFinanciaciones
  <2>7. QED
    BY <2>1, <2>6, Zenon
<1>12. /\ IsFiniteSet(M) /\ (M = {} <=> Resto(o) = 0)
       /\ \A i \in M : q[i].importe \in Nat
       /\ Sumar(q, M) = Resto(o)
  BY <1>1, <1>3, <1>5, EnManoCuadra DEF M
<1>13. /\ IsFiniteSet(T) /\ \A i \in T : q[i].importe \in Nat
       /\ Sumar(q, T) = Sumar(comp, T) /\ Sumar(comp, T) \in Nat
  <2> DEFINE F == [i \in DOMAIN q |-> q[i].importe]
             G == [i \in DOMAIN comp |-> comp[i].importe]
  <2>1. T \subseteq DOMAIN comp /\ IsFiniteSet(T)
    BY PartesSon DEF T, EnParte, DeTipo, Vigentes
  <2>2. \A i \in T : q[i].importe \in Nat
    BY <1>8, <2>1, PartesSon
  <2>3. \A i \in T : F[i] = G[i]
    BY <1>8, <1>10, <2>1
  <2>4. Sumar(q, T) = Suma(F, T) /\ Sumar(comp, T) = Suma(G, T)
    BY <1>10, <2>1, SumarEs
  <2> HIDE DEF F, G
  <2>5. Suma(F, T) = Suma(G, T)
    BY <2>1, <2>3, SumaIgual
  <2>6. Sumar(comp, T) \in Nat
    BY <2>1, SumarNatural
  <2>7. QED
    BY <2>1, <2>2, <2>4, <2>5, <2>6
<1>14. Planificado(q) = o.precio
  <2>1. Sumar(q, K \cup M) = Sumar(q, K) + Sumar(q, M)
    BY <1>10, <1>11, <1>12, DosPartes
  <2>2. IsFiniteSet(K \cup M) /\ K \cup M \subseteq DOMAIN q /\ (K \cup M) \cap T = {}
    BY <1>10, <1>11, <1>12, FS_Union
  <2>3. \A i \in (K \cup M) \cup T : q[i].importe \in Nat
    BY <1>11, <1>12, <1>13
  <2>4. Sumar(q, (K \cup M) \cup T) = Sumar(q, K \cup M) + Sumar(q, T)
    BY <1>10, <1>13, <2>2, <2>3, DosPartes
  <2>5. Planificado(q) = Sumar(q, (K \cup M) \cup T)
    BY <1>8, Zenon DEF Planificado
  <2>6. /\ o.precio = o.credito + Resto(o) + Sumar(comp, T)
        /\ Resto(o) \in Nat /\ o.credito \in Nat /\ o.precio \in Nat
    BY RestoEs DEF T
  <2>7. PICK a, b, c, e : /\ a = Sumar(q, K) /\ b = Sumar(q, M) /\ c = Sumar(q, T)
                          /\ e = Sumar(q, K \cup M)
    OBVIOUS
  <2>8. e = a + b /\ Planificado(q) = e + c
    BY <2>1, <2>4, <2>5, <2>7, Zenon
  <2>9. a = o.credito /\ b = Resto(o) /\ c = Sumar(comp, T)
    BY <1>11, <1>12, <1>13, <2>7
  <2>10. QED
    BY <1>13, <2>6, <2>8, <2>9
<1>15. validatePaymentPlanContract(o, q)
  <2>1. PICK regla : regla = Reglas[o.plataforma]
    OBVIOUS
  <2>2. /\ regla.toma <=> T # {}
        /\ Resto(o) > 0 <=> regla.resto # ""
        /\ Len(d) = regla.credito /\ Len(d) \in 0..2
    BY <2>1 DEF Corregida, Correccion, T, EnParte
  <2>3. Resto(o) \in Nat
    BY RestoEs
  <2>4. M # {} <=> regla.resto # ""
    <3>1. Resto(o) # 0 <=> Resto(o) > 0
      BY <2>3
    <3>2. QED
      BY <1>12, <2>2, <3>1
  <2>5. K # {} <=> regla.credito > 0
    <3>1. PICK l : l = Len(d)
      OBVIOUS
    <3>2. l \in 0..2
      BY <2>2, <3>1
    <3>3. l # 0 <=> l > 0
      BY <3>2
    <3>4. K # {} <=> l # 0
      BY <1>11, <3>1
    <3>5. QED
      BY <2>2, <3>1, <3>3, <3>4
  <2>6. regla.credito = 2 => Cardinality({q[i].financiera : i \in K}) >= 2
    <3>1. regla.credito = 2 => Cardinality({q[i].financiera : i \in K}) = 2
      BY <1>11, <2>2, Zenon
    <3>2. \A k : k = 2 => k >= 2
      OBVIOUS
    <3>3. QED
      BY <3>1, <3>2, Zenon
  <2>7. K # {} => Sumar(q, K) = o.credito
    BY <1>11
  <2>8. T # {} <=> regla.toma
    BY <2>2
  <2>9. /\ DeTipo(q, Medios) # {} <=> regla.resto # ""
        /\ DeTipo(q, {"FINANCIACION"}) # {} <=> regla.credito > 0
        /\ DeTipo(q, {"TOMA_PARTE_PAGO"}) # {} <=> regla.toma
        /\ regla.credito = 2 =>
              Cardinality({q[i].financiera : i \in DeTipo(q, {"FINANCIACION"})}) >= 2
        /\ DeTipo(q, {"FINANCIACION"}) # {} =>
              Sumar(q, DeTipo(q, {"FINANCIACION"})) = o.credito
    BY <1>8, <2>4, <2>5, <2>6, <2>7, <2>8, Zenon
  <2>10. QED
    BY <2>1, <2>9, Zenon DEF validatePaymentPlanContract
<1>16. QED
  BY <1>14, <1>15

-------------------------------------------------------------------------------
(* The theorems *)

\* Nothing is wrong before the sale.
LEMMA IInvInicial == Init => IInv
<1>1. SUFFICES ASSUME Init PROVE IInv
  OBVIOUS
<1>2. /\ operacion = <<>> /\ aprobaciones = {} /\ comp = <<>>
      /\ ingreso = {} /\ movimientos = {} /\ enCurso = {} /\ solapados = {}
  BY <1>1 DEF Init
<1>3. comp \in Seq(Componente) /\ Len(comp) <= MaxComponentes /\ DOMAIN comp = {}
  <2>1. MaxComponentes \in Nat
    BY Cotas
  <2>2. QED
    BY <1>2, <2>1
<1>4. TiposOK
  BY <1>2, <1>3, FS_EmptySet DEF TiposOK, OperacionOK
<1>5. Espera /\ BajoMinimoAutorizada
  BY <1>2 DEF Espera, BajoMinimoAutorizada, Existe, Pendientes
<1>6. IdsUnicos /\ EnCursoOK /\ SolapadosOK
  BY <1>2 DEF IdsUnicos, EnCursoOK, SolapadosOK
<1>7. EstadoDelComponente
  BY <1>3 DEF EstadoDelComponente, Vigentes
<1>8. QED
  BY <1>2, <1>4, <1>5, <1>6, <1>7 DEF IInv

\* Every step keeps the invariant.
LEMMA IInvPaso == IInv /\ [Next]_vars => IInv'
<1> SUFFICES ASSUME IInv, [Next]_vars PROVE IInv'
  OBVIOUS
<1>1. ASSUME NEW plan \in Planes, replacePaymentPlan(plan) PROVE IInv'
  BY <1>1, ReplaceMantiene
<1>2. ASSUME NEW c \in Condiciones, CorrectPlan(c) PROVE IInv'
  <2>1. PICK o, d : /\ Corregida(o, d) /\ correct(o, d)
                    /\ o.estado = operacion.estado
    BY <1>2, CorreccionEs
  <2>2. Libre
    BY <1>2 DEF CorrectPlan
  <2>3. QED
    BY <2>1, <2>2, CorregirMantiene
<1>3. ASSUME NEW c \in DOMAIN comp, NEW x \in Importes, collectPaymentComponent(c, x)
      PROVE  IInv'
  BY <1>3, CobroDelPlanMantiene
<1>4. ASSUME NEW i \in ingreso, NEW x \in Importes, Collect(i, x) PROVE IInv'
  <2>1. FilaLibre(i) /\ HayLugar /\ Abrir("COBRO", i.comp, i.id, NuevoMovimiento(i.id, x, 0), {})
    BY <1>4 DEF Collect
  <2>2. 0 \in 0..MaxMovimientos
    BY Cotas
  <2>3. QED
    BY <2>1, <2>2, CobroMantiene
<1>5. ASSUME NEW i \in ingreso, NEW m \in movimientos, Reverse(i, m) PROVE IInv'
  <2>1. /\ FilaLibre(i) /\ HayLugar /\ m.ingreso = i.id
        /\ Abrir("REVERSA", i.comp, i.id, NuevoMovimiento(i.id, m.importe, m.id), {})
    BY <1>5 DEF Reverse
  <2>2. m.importe \in Importes /\ m.id \in 0..MaxMovimientos
    <3>1. m \in Movimiento
      BY DEF IInv, TiposOK
    <3>2. QED
      BY <3>1, Cotas DEF Movimiento
  <2>3. QED
    BY <2>1, <2>2, CobroMantiene
<1>6. ASSUME NEW c \in DOMAIN comp, markFinancingPayment(c) \/ revertFinancingPayment(c)
      PROVE  IInv'
  BY <1>6, InformarMantiene DEF markFinancingPayment, revertFinancingPayment
<1>7. ASSUME NEW t \in enCurso, Confirmar(t) PROVE IInv'
  BY <1>7, ConfirmarMantiene
<1>8. ASSUME NEW t \in enCurso, Deshacer(t) PROVE IInv'
  BY <1>8, DeshacerMantiene
<1>9. CASE VentaNext
  BY <1>1, <1>2, <1>9, VentaMantiene DEF VentaNext
<1>10. CASE CobroNext
  BY <1>3, <1>4, <1>5, <1>6, <1>7, <1>8, <1>10 DEF CobroNext
<1>11. CASE UNCHANGED vars
  <2>1. UNCHANGED <<operacion, aprobaciones, comp, ingreso, movimientos, enCurso, solapados>>
    BY <1>11 DEF vars
  <2>2. TiposOK' /\ Espera' /\ BajoMinimoAutorizada' /\ (~Existe => aprobaciones = {})'
    BY <2>1 DEF IInv, TiposOK, OperacionOK, Espera, BajoMinimoAutorizada, Existe
  <2>3. IdsUnicos' /\ SolapadosOK'
    BY <2>1 DEF IInv, IdsUnicos, SolapadosOK
  <2>4. EnCursoOK'
    BY <2>1 DEF IInv, EnCursoOK, IngresoOK, MovimientoOK, EstadoOK
  <2>5. EstadoDelComponente'
    BY <2>1 DEF IInv, EstadoDelComponente, Vigentes
  <2>6. QED
    BY <2>2, <2>3, <2>4, <2>5 DEF IInv
<1>12. QED
  BY <1>9, <1>10, <1>11 DEF Next

\* The invariant holds of every state of the sale.
THEOREM Inductive == Spec => []IInv
BY IInvInicial, IInvPaso, PTL DEF Spec

\* Rows have their shape: a sale has a credit exactly when its platform has one,
\* and never a larger one than its price, and a component is paid by one
\* institution when it is a financing, through edits, replacements and
\* corrections of the plan.
THEOREM TypeCorrect == Spec => []TypeOK
<1>1. IInv => TypeOK
  <2>1. SUFFICES ASSUME IInv PROVE TypeOK
    OBVIOUS
  <2>2. TiposOK
    BY <2>1 DEF IInv
  <2>3. operacion # <<>> =>
           /\ operacion \in Operacion
           /\ operacion.credito <= operacion.precio
           /\ operacion.credito > 0 <=> Reglas[operacion.plataforma].credito > 0
    <3>1. SUFFICES ASSUME operacion # <<>>
                   PROVE  /\ operacion \in Operacion
                          /\ operacion.credito <= operacion.precio
                          /\ operacion.credito > 0 <=> Reglas[operacion.plataforma].credito > 0
      OBVIOUS
    <3>2. operacion \in Operacion /\ CondicionesDe(operacion) \in Condiciones
      BY <2>2, <3>1 DEF TiposOK, OperacionOK
    <3>3. IF Reglas[operacion.plataforma].credito > 0
          THEN operacion.credito \in 1..operacion.precio ELSE operacion.credito = 0
      BY <3>2 DEF Condiciones, CondicionesDe
    <3>4. operacion.precio \in Nat
      BY <3>2, ConstantesValidas DEF Operacion
    <3>5. QED
      BY <3>2, <3>3, <3>4
  <2>4. \A i \in DOMAIN comp : /\ i \in Ids /\ comp[i] \in Componente
                               /\ comp[i].tipo = "FINANCIACION" <=> comp[i].financiera # ""
    <3>1. DOMAIN comp = 1..Len(comp) /\ Len(comp) \in Nat /\ Len(comp) <= MaxComponentes
      BY <2>2 DEF TiposOK
    <3>2. MaxComponentes \in Nat
      BY Cotas
    <3>3. DOMAIN comp \subseteq Ids
      BY <3>1, <3>2 DEF Ids
    <3>4. QED
      BY <2>2, <3>3 DEF TiposOK, ComponenteOK
  <2>5. QED
    BY <2>2, <2>3, <2>4 DEF TiposOK, TypeOK, Aprobacion, Ingreso, Movimiento
<1>2. QED
  BY <1>1, Inductive, PTL

\* No sale under the minimum price is approved or closed without an approval of
\* that price against that minimum, and a sale that waits for an approval waits
\* for one, through submissions, decisions, edits, corrections of the price and
\* of the model, and cancellations.
THEOREM PriceAuthorised == Spec => []PrecioAutorizado
<1>1. IInv => PrecioAutorizado
  <2>1. SUFFICES ASSUME IInv PROVE EsperaUnaAprobacion
    BY DEF PrecioAutorizado, IInv
  <2>2. CASE Existe /\ operacion.estado = "PENDIENTE_APROBACION"
    <3>1. PICK a : Pendientes(aprobaciones) = {a}
      BY <2>1, <2>2 DEF IInv, Espera
    <3>2. Cardinality({a}) = 1
      BY FS_Singleton
    <3>3. Cardinality(Pendientes(aprobaciones)) = 1
      BY <3>1, <3>2, Zenon
    <3>4. QED
      BY <2>2, <3>3 DEF EsperaUnaAprobacion
  <2>3. CASE ~ (Existe /\ operacion.estado = "PENDIENTE_APROBACION")
    <3>1. Pendientes(aprobaciones) = {}
      BY <2>1, <2>3 DEF IInv, Espera
    <3>2. Cardinality(Pendientes(aprobaciones)) = 0
      BY <3>1, FS_EmptySet, Zenon
    <3>3. QED
      BY <2>3, <3>2 DEF EsperaUnaAprobacion
  <2>4. QED
    BY <2>2, <2>3
<1>2. QED
  BY <1>1, Inductive, PTL

\* A component says what the accounts hold of it, or that its institution paid,
\* while collections, reversals, corrections of the plan and lost transactions
\* interleave, as long as no two requests worked on it at once.
THEOREM ComponentStatus == Spec => []EstadoDelComponente
<1>1. IInv => EstadoDelComponente
  BY DEF IInv
<1>2. QED
  BY <1>1, Inductive, PTL

\* Once a sale is no longer a draft, its price, platform and credit change in a
\* correction only.
LEMMA SoloCorrige ==
    ASSUME IInv, [Next]_vars, Existe, operacion.estado \notin {"BORRADOR", "RECHAZADA"},
           CondicionesDe(operacion') # CondicionesDe(operacion)
    PROVE  \E c \in Condiciones : CorrectPlan(c)
<1>1. operacion \in Operacion
  BY DEF IInv, TiposOK, OperacionOK, Existe
<1>2. \A e : CondicionesDe([operacion EXCEPT !.estado = e]) = CondicionesDe(operacion)
  BY <1>1 DEF CondicionesDe, Operacion
<1>3. operacion' # operacion
  OBVIOUS
<1>4. ~CobroNext /\ ~UNCHANGED vars
  BY <1>3 DEF CobroNext, collectPaymentComponent, Collect, Reverse, Abrir,
     markFinancingPayment, revertFinancingPayment, Informar, Confirmar, Deshacer, vars
<1>5. ASSUME NEW pol \in Politicas, CorrectVersion(pol) PROVE FALSE
  <2>1. operacion' = [operacion EXCEPT !.lista = pol.lista, !.minimo = pol.minimo]
    BY <1>5 DEF CorrectVersion, ConPrecios
  <2>2. CondicionesDe(operacion') = CondicionesDe(operacion)
    BY <1>1, <2>1 DEF CondicionesDe, Operacion
  <2>3. QED
    BY <2>2
<1>6. ASSUME NEW aprobada \in BOOLEAN, decide(aprobada) PROVE FALSE
  BY <1>2, <1>6 DEF decide
<1>7. ASSUME cancel \/ close PROVE FALSE
  BY <1>2, <1>7 DEF cancel, close
<1>8. ASSUME NEW plan \in Planes, replacePaymentPlan(plan) PROVE FALSE
  <2>1. operacion' = [operacion EXCEPT !.estado = IF @ = "APROBADA" THEN @ ELSE "BORRADOR"]
    BY <1>8 DEF replacePaymentPlan
  <2>2. PICK e : operacion' = [operacion EXCEPT !.estado = e]
    BY <2>1
  <2>3. QED
    BY <1>2, <2>2
<1>9. ASSUME NEW c \in Condiciones, NEW pol, NEW enviar \in BOOLEAN, create(c, pol, enviar)
      PROVE  FALSE
  BY <1>9 DEF create
<1>10. ASSUME NEW c \in Condiciones, NEW pol, update(c, pol) PROVE FALSE
  BY <1>10 DEF update
<1>11. ASSUME NEW pol \in Politicas, submit(pol) PROVE FALSE
  BY <1>11 DEF submit
<1>12. QED
  BY <1>4, <1>5, <1>6, <1>7, <1>8, <1>9, <1>10, <1>11 DEF Next, VentaNext

\* A sale that is no longer a draft changes its price, its platform or its credit
\* only together with its plan, which then adds up to the price and has what the
\* platform asks for, whatever plan is corrected and whatever was collected of it.
THEOREM CorrectionAddsUp == Spec => CorreccionCuadra
<1>1. IInv /\ [Next]_vars =>
        [Existe /\ operacion.estado \notin {"BORRADOR", "RECHAZADA"}
                /\ CondicionesDe(operacion') # CondicionesDe(operacion)
         => /\ Planificado(comp') = operacion'.precio
            /\ validatePaymentPlanContract(operacion', comp')]_vars
  <2> SUFFICES ASSUME IInv, [Next]_vars, Existe,
                      operacion.estado \notin {"BORRADOR", "RECHAZADA"},
                      CondicionesDe(operacion') # CondicionesDe(operacion)
               PROVE  /\ Planificado(comp') = operacion'.precio
                      /\ validatePaymentPlanContract(operacion', comp')
    OBVIOUS
  <2>1. PICK c \in Condiciones : CorrectPlan(c)
    BY SoloCorrige
  <2>2. PICK o, d : Corregida(o, d) /\ correct(o, d)
    BY <2>1, CorreccionEs
  <2>3. PICK plan : plan = reconcileCorrectedPaymentPlan(o, d)
    OBVIOUS
  <2>4. PICK q : q = comp'
    OBVIOUS
  <2>5. Parecidos(q, plan)
    BY <2>2, <2>3, <2>4, PlanCorregido DEF Parecidos
  <2>6. Planificado(q) = o.precio /\ validatePaymentPlanContract(o, q)
    <3>1. Parecidos(q, reconcileCorrectedPaymentPlan(o, d))
      BY <2>3, <2>5, Zenon
    <3>2. QED
      BY <2>2, <3>1, CorregidaCuadra
  <2>7. operacion' = o
    BY <2>2 DEF correct
  <2>8. QED
    BY <2>4, <2>6, <2>7, Zenon
<1>2. QED
  BY <1>1, Inductive, PTL DEF Spec, CorreccionCuadra

===============================================================================
